------------------------------- MODULE Commands -------------------------------
(***************************************************************************)
(* p101-inspect from main to its exit: which program capture and run will  *)
(* spawn, which command the arguments name, and the life of the loaded     *)
(* analysis that view, model and interleaving share.  What the commands do *)
(* with it is View, Expectations, RulePacks and Readers; analyze and run   *)
(* are Analyze and InspectRun.                                             *)
(***************************************************************************)
EXTENDS Naturals, Sequences

CONSTANTS
    Vectors,  \* the arguments behind the program's name
    Programs, \* the program's name, argv[0], as characters
    Chars,    \* those characters
    Name,     \* "inspect-capture", as characters
    PathSize, \* PATH_SIZE
    Lessons,  \* the finding identifiers with a registered lesson
    Loads     \* loaded analyses: findings, and the edges of the model

VARIABLES
    program,         \* argv[0]
    argv,            \* argv[1] and on
    capture_program, \* the buffer of that name
    command,         \* the command at work
    loaded,          \* the members of struct loaded_analysis that are not NULL
    made,            \* object -> how often it was created
    destroyed,       \* object -> how often it was destroyed
    failed,          \* the last call of the command, operation_status, says so
    counterexamples, \* the exploration found some
    analysis,        \* what was loaded, for model explain
    shown,           \* the finding and the edges that explain wrote
    pc,              \* where p101-inspect is
    exit             \* its status

vars == <<program, argv, capture_program, command, loaded, made, destroyed,
          failed, counterexamples, analysis, shown, pc, exit>>

explainVars == <<analysis, shown>>

NUL == "NUL"

ASSUME NamesAssumption ==
    /\ NUL \notin Chars
    /\ "/" \in Chars
    /\ Name \in Seq(Chars)
    /\ Programs \subseteq Seq(Chars)
    /\ PathSize \in Nat
    /\ Len(Name) < PathSize

Statuses == {"success", "findings", "trouble"}
Objects == {"err", "model", "analysis"}

Nothing == [findings |-> <<>>, edges |-> <<>>]

\* The static initializer; the rest of the buffer is zero.
Initially == [i \in 1 .. PathSize |-> IF i <= Len(Name) THEN Name[i] ELSE NUL]

Init ==
    /\ program \in Programs
    /\ argv \in Vectors
    /\ capture_program = Initially
    /\ command = "none"
    /\ loaded = {}
    /\ made = [o \in Objects |-> 0]
    /\ destroyed = [o \in Objects |-> 0]
    /\ failed = FALSE
    /\ counterexamples = FALSE
    /\ analysis = Nothing
    /\ shown = Nothing
    /\ pc = "locate"
    /\ exit = "none"

Exits(status) ==
    /\ pc' = "done"
    /\ exit' = status

lifeVars == <<loaded, made, destroyed>>

-----------------------------------------------------------------------------
(* locate_capture_program.                                                 *)

\* A loop that copies text to the buffer from an offset on.  Nothing but the
\* caller keeps it within the buffer.
CopiedTo(buffer, offset, text) ==
    [i \in DOMAIN buffer \cup (offset + 1 .. offset + Len(text)) |->
        IF i \in offset + 1 .. offset + Len(text) THEN text[i - offset]
                                                  ELSE buffer[i]]

Slashes == {k \in 1 .. Len(program) : program[k] = "/"}
LastSlash == {k \in Slashes : \A j \in Slashes : j <= k}

Suffix == <<"/">> \o Name \o <<NUL>>

\* Mutation: the room for the terminator is forgotten.
MutantFits(length) == length <= PathSize - (Len(Suffix) - 1)

Fits(length) == length <= PathSize - Len(Suffix)

LocateCaptureProgram ==
    LET fallback == CopiedTo(capture_program, 0, Name \o <<NUL>>) IN
    /\ pc = "locate"
    /\ \/ /\ \A k \in LastSlash : ~Fits(k - 1)
          /\ capture_program' = fallback
       \/ \E k \in LastSlash :
            /\ Fits(k - 1)
            /\ capture_program' =
                  CopiedTo(CopiedTo(fallback, 0, SubSeq(program, 1, k - 1)),
                           k - 1, Suffix)
    /\ pc' = "main"
    /\ UNCHANGED <<explainVars, program, argv, command, lifeVars, failed,
                   counterexamples, exit>>

-----------------------------------------------------------------------------
(* main and model_command.                                                 *)

Named(word) == argv # <<>> /\ argv[1] = word
Model(word) == Named("model") /\ Len(argv) >= 2 /\ argv[2] = word

Chosen ==
    CASE \E word \in {"analyze", "run", "capture", "view"} : Named(word) -> argv[1]
      [] Named("-h") \/ Named("--help") -> "help"
      [] Named("lesson") /\ Len(argv) = 2 -> "lesson"
      [] Named("interleaving") /\ Len(argv) = 2 -> "interleaving"
      [] Model("verify") /\ Len(argv) = 3 -> "verify"
      [] Model("verify") /\ Len(argv) = 5 /\ argv[3] \in {"-e", "--expect"} ->
            "verify"
      [] Model("check") /\ Len(argv) >= 5 -> "check"
      [] Model("explain") /\ Len(argv) = 4 -> "explain"
      [] Model("compare") /\ Len(argv) = 4 -> "compare"
      [] OTHER -> "usage"

Loading == {"view", "verify", "check", "explain", "interleaving"}

Main ==
    /\ pc = "main"
    /\ command' = Chosen
    /\ \/ Chosen = "usage" /\ Exits("trouble")
       \/ Chosen = "help" /\ Exits("success")
       \/ Chosen \in Loading /\ pc' = "load" /\ UNCHANGED exit
       \/ /\ Chosen \notin Loading \cup {"usage", "help"}
          /\ pc' = Chosen
          /\ UNCHANGED exit
    /\ UNCHANGED <<explainVars, program, argv, capture_program, lifeVars,
                   failed, counterexamples>>

\* The commands that load no analysis and are modelled elsewhere.
Elsewhere ==
    /\ pc \in {"analyze", "run", "capture", "compare"}
    /\ \E status \in Statuses : Exits(status)
    /\ UNCHANGED <<explainVars, program, argv, capture_program, command,
                   lifeVars, failed, counterexamples>>

\* fprintf writes the lesson of a finding, or to stderr that it has none.  What
\* it returns matters only for a lesson, and zero then says that stdout took the
\* text: what its buffer loses when the program exits, nobody notices.
LessonCommand ==
    /\ pc = "lesson"
    /\ failed' \in BOOLEAN
    /\ \/ argv[2] \notin Lessons /\ Exits("findings")
       \/ argv[2] \in Lessons /\ ~failed' /\ Exits("success")
       \/ argv[2] \in Lessons /\ failed' /\ Exits("trouble")
    /\ UNCHANGED <<explainVars, program, argv, capture_program, command,
                   lifeVars, counterexamples>>

-----------------------------------------------------------------------------
(* The loaded analysis.                                                    *)

\* model verify and view may have failed before: analysis_result, rendering.
FailBeforeLoad ==
    /\ pc = "load" /\ loaded = {}
    /\ command \in {"view", "verify"}
    /\ failed' = TRUE
    /\ Exits("trouble")
    /\ UNCHANGED <<explainVars, program, argv, capture_program, command,
                   lifeVars, counterexamples>>

\* The members are created one after another.
CreateOrder == <<"err", "model", "analysis">>

CreateMember ==
    /\ pc = "load"
    /\ \E i \in 1 .. 3 :
        /\ loaded = {CreateOrder[j] : j \in 1 .. i - 1}
        /\ loaded' = loaded \cup {CreateOrder[i]}
        /\ made' = [made EXCEPT ![CreateOrder[i]] = @ + 1]
    /\ UNCHANGED <<explainVars, program, argv, capture_program, command,
                   destroyed, failed, counterexamples, pc, exit>>

\* The policies ran; the analysis is the command's.
LoadDone ==
    /\ pc = "load"
    /\ loaded = Objects
    /\ pc' = "body"
    /\ IF command = "explain" THEN analysis' \in Loads ELSE UNCHANGED analysis
    /\ UNCHANGED <<program, argv, capture_program, command, lifeVars, failed,
                   counterexamples, shown, exit>>

\* Mutation: the members stay as they were.
MutantDestroyAll ==
    /\ destroyed' = [o \in Objects |->
                        IF o \in loaded THEN destroyed[o] + 1 ELSE destroyed[o]]
    /\ UNCHANGED <<loaded, made>>

\* unload_analysis: what there is is destroyed, and the members are cleared.
DestroyAll ==
    /\ destroyed' = [o \in Objects |->
                        IF o \in loaded THEN destroyed[o] + 1 ELSE destroyed[o]]
    /\ loaded' = {}
    /\ UNCHANGED made

\* A path too long, no memory, inputs that cannot be ingested or analyzed:
\* load_analysis_directory unloads what it has.  interleaving_command does so
\* once more.
LoadFails ==
    /\ pc = "load"
    /\ failed' = TRUE
    /\ DestroyAll
    /\ IF command = "interleaving" THEN pc' = "unload" /\ exit' = "trouble"
                                   ELSE Exits("trouble")
    /\ UNCHANGED <<explainVars, program, argv, capture_program, command,
                   counterexamples>>

Verdict(status) ==
    /\ pc' = "unload"
    /\ exit' = status

\* view, model verify and model check come to a status and unload, whether
\* they fail or not.
BodyElsewhere ==
    /\ pc = "body"
    /\ command \in {"view", "verify", "check"}
    /\ \E status \in Statuses : Verdict(status)
    /\ UNCHANGED <<explainVars, program, argv, capture_program, command,
                   lifeVars, failed, counterexamples>>

WithIdentifier(id) ==
    {i \in DOMAIN analysis.findings : analysis.findings[i].diagnostic_id = id}

\* An edge is at a file if the node it leaves or the one it enters is; a node
\* may have none.
EdgesAt(file) ==
    {i \in DOMAIN analysis.edges :
        \/ analysis.edges[i].from # "NULL" /\ analysis.edges[i].from = file
        \/ analysis.edges[i].to # "NULL" /\ analysis.edges[i].to = file}

\* The first finding of that identifier and the edges at its file, or a
\* status that says there is none.  What is lost of the output goes unnoticed.
ModelExplain ==
    /\ pc = "body"
    /\ command = "explain"
    /\ \/ /\ WithIdentifier(argv[4]) = {}
          /\ Verdict("findings")
          /\ UNCHANGED shown
       \/ \E i \in WithIdentifier(argv[4]) :
            /\ \A j \in WithIdentifier(argv[4]) : i <= j
            /\ shown' = [findings |-> <<i>>,
                         edges |-> EdgesAt(analysis.findings[i].file_name)]
            /\ Verdict("success")
    /\ UNCHANGED <<program, argv, capture_program, command, lifeVars, failed,
                   counterexamples, analysis>>

InterleavingStatus(lost, found) ==
    IF lost THEN "trouble" ELSE IF found THEN "findings" ELSE "success"

\* p101_tool_analysis_write_interleaving explores, counts and writes, and may
\* fail with a count already there.
InterleavingCommand ==
    /\ pc = "body"
    /\ command = "interleaving"
    /\ failed' \in BOOLEAN
    /\ counterexamples' \in BOOLEAN
    /\ Verdict(InterleavingStatus(failed', counterexamples'))
    /\ UNCHANGED <<explainVars, program, argv, capture_program, command,
                   lifeVars>>

UnloadAnalysis ==
    /\ pc = "unload"
    /\ DestroyAll
    /\ pc' = "done"
    /\ UNCHANGED <<explainVars, program, argv, capture_program, command,
                   failed, counterexamples, exit>>

Terminating == pc = "done" /\ UNCHANGED vars

Next ==
    \/ LocateCaptureProgram \/ Main \/ Elsewhere \/ LessonCommand
    \/ FailBeforeLoad \/ CreateMember \/ LoadDone \/ LoadFails
    \/ BodyElsewhere \/ ModelExplain \/ InterleavingCommand
    \/ UnloadAnalysis \/ Terminating

Spec == Init /\ [][Next]_vars

-----------------------------------------------------------------------------
(* Properties.                                                             *)

\* The string in the buffer.
Reads(text) ==
    /\ Len(text) < PathSize
    /\ \A i \in 1 .. Len(text) : capture_program[i] = text[i]
    /\ capture_program[Len(text) + 1] = NUL

\* The program capture and run spawn is the inspect-capture beside
\* p101-inspect whenever the buffer can hold its path, to the last byte, and
\* the one PATH finds otherwise; never a path that is cut, mixed from both, or
\* written past the buffer (locate_capture_program, inspect_main.c 2021).
CaptureProgramWhole ==
    /\ DOMAIN capture_program = 1 .. PathSize
    /\ pc # "locate" =>
        \/ Reads(Name) /\ \A k \in LastSlash : k + Len(Name) >= PathSize
        \/ \E k \in LastSlash : Reads(SubSeq(program, 1, k) \o Name)

\* Wherever load_analysis_directory fails, and whichever command called it,
\* every object it created is destroyed once by the time p101-inspect exits,
\* and none is destroyed twice; a command looks at a complete analysis only.
NothingLeaks ==
    /\ \A o \in Objects : destroyed[o] <= made[o] /\ made[o] <= 1
    /\ pc = "body" => \A o \in Objects : destroyed[o] < made[o]
    /\ pc = "done" => destroyed = made
=============================================================================
