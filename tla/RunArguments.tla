----------------------------- MODULE RunArguments -----------------------------
(***************************************************************************)
(* How a command gets from p101-inspect run to inspect-capture: run_command *)
(* reads its own arguments, makes the output directory, fills capture_argv *)
(* and spawns inspect-capture, whose reading of it is Cli.  What happens   *)
(* then is InspectRun.                                                     *)
(***************************************************************************)
EXTENDS Cli, TLC

CONSTANTS
    RunVectors,  \* the arguments behind "run"
    CapturePath, \* an output directory -> its "capture"; none if too long
    Overhead     \* CAPTURE_ARGUMENT_OVERHEAD

VARIABLES
    runArgv,      \* argv[1] and on of run_command
    index,        \* the argument it looks at
    given,        \* what it found: output, log_arguments, log_results
    capture_argv, \* the vector it fills, without the NULL at its end
    capture_argc, \* the slots allocated for it
    runPc,        \* where it is
    runExit       \* EXIT_TROUBLE, if it ends here

runVars == <<runArgv, index, given, capture_argv, capture_argc, runPc, runExit>>

ASSUME RunAssumption ==
    /\ RunVectors \subseteq Seq(Words)
    /\ Overhead = 7

\* A capture's path is a word like any other, and inspect-capture knows the
\* options run passes on.
ASSUME CaptureAssumption ==
    /\ DOMAIN CapturePath \subseteq Words
    /\ \A path \in DOMAIN CapturePath : CapturePath[path] \in Words \ {""}
    /\ {"-A", "-R", "-o"} \subseteq DOMAIN Letters \ DOMAIN Attached
    /\ Letters["-A"] = <<"A">> /\ Letters["-R"] = <<"R">> /\ Letters["-o"] = <<"o">>
    /\ "--" \in Words

Nothing == [output |-> Null, log |-> {}]

RunInit ==
    /\ runArgv \in RunVectors
    /\ index = 1
    /\ given = Nothing
    /\ capture_argv = <<>>
    /\ capture_argc = 0
    /\ runPc = "parse"
    /\ runExit = "none"
    /\ posix = FALSE
    /\ Start(<<>>, FALSE)
    /\ pc = "unborn"

-----------------------------------------------------------------------------
OutputOptions == {"-o", "--output"}
LogOptions ==
    [word \in {"-A", "--log-arguments", "-R", "--log-results"} |->
        IF word \in {"-A", "--log-arguments"} THEN "A" ELSE "R"]
SkippedOptions == {"--observe-tool", "--analyze-tool", "--model-tool"}

RunTrouble ==
    /\ runPc' = "done"
    /\ runExit' = "trouble"

HasNext == index < Len(runArgv)

\* -o takes the next argument, once.
OutputArgument ==
    /\ runPc = "parse"
    /\ index <= Len(runArgv)
    /\ runArgv[index] \in OutputOptions
    /\ \/ /\ HasNext /\ given.output = Null
          /\ given' = [given EXCEPT !.output = runArgv[index + 1]]
          /\ index' = index + 2
          /\ UNCHANGED <<runPc, runExit>>
       \/ /\ ~HasNext \/ given.output # Null
          /\ RunTrouble
          /\ UNCHANGED <<given, index>>
    /\ UNCHANGED <<runArgv, capture_argv, capture_argc, cliVars>>

LogArgument ==
    /\ runPc = "parse"
    /\ index <= Len(runArgv)
    /\ runArgv[index] \in DOMAIN LogOptions
    /\ given' = [given EXCEPT !.log = @ \cup {LogOptions[runArgv[index]]}]
    /\ index' = index + 1
    /\ UNCHANGED <<runArgv, capture_argv, capture_argc, runPc, runExit, cliVars>>

\* The options that name a tool.  Only --observe-tool has an effect: it
\* becomes capture_argv[0], which is not an argument of the program spawned.
ToolArgument ==
    /\ runPc = "parse"
    /\ index <= Len(runArgv)
    /\ runArgv[index] \in SkippedOptions
    /\ \/ /\ HasNext
          /\ index' = index + 2
          /\ UNCHANGED <<runPc, runExit>>
       \/ /\ ~HasNext
          /\ RunTrouble
          /\ UNCHANGED index
    /\ UNCHANGED <<runArgv, given, capture_argv, capture_argc, cliVars>>

KnownArguments ==
    OutputOptions \cup DOMAIN LogOptions \cup SkippedOptions \cup {"--"}

Command == SubSeq(runArgv, index + 1, Len(runArgv))

Complete ==
    /\ index <= Len(runArgv)
    /\ runArgv[index] = "--"
    /\ given.output # Null
    /\ Command # <<>>

\* "--", something else, or the end: there must be an output and a command.
ArgumentsEnd ==
    /\ runPc = "parse"
    /\ index <= Len(runArgv) => runArgv[index] \notin KnownArguments \ {"--"}
    /\ \/ Complete /\ runPc' = "directory" /\ UNCHANGED runExit
       \/ ~Complete /\ RunTrouble
    /\ UNCHANGED <<runArgv, index, given, capture_argv, capture_argc, cliVars>>

\* lstat, mkdir, join_path and calloc, each of which may end it.
MakeDirectory ==
    /\ runPc = "directory"
    /\ \/ /\ given.output \in DOMAIN CapturePath
          /\ capture_argc' = Len(Command) + Overhead
          /\ runPc' = "vector"
          /\ UNCHANGED runExit
       \/ /\ RunTrouble
          /\ UNCHANGED capture_argc
    /\ UNCHANGED <<runArgv, index, given, capture_argv, cliVars>>

LogFlags == (IF "A" \in given.log THEN <<"-A">> ELSE <<>>)
            \o (IF "R" \in given.log THEN <<"-R">> ELSE <<>>)

\* Mutation: nothing ends the options of inspect-capture.
MutantFilled ==
    <<"inspect-capture">> \o LogFlags
        \o <<"-o", CapturePath[given.output]>> \o Command

\* Mutation: a further option is passed, and the overhead stays as it was.
MutantFilledMore ==
    <<"inspect-capture", "-v">> \o LogFlags
        \o <<"-o", CapturePath[given.output], "--">> \o Command

Filled ==
    <<"inspect-capture">> \o LogFlags
        \o <<"-o", CapturePath[given.output], "--">> \o Command

FillVector ==
    /\ runPc = "vector"
    /\ capture_argv' = Filled
    /\ runPc' = "spawn"
    /\ UNCHANGED <<runArgv, index, given, capture_argc, runExit, cliVars>>

\* posix_spawnp, and main of inspect-capture with what follows its name.
SpawnWithVector ==
    /\ runPc = "spawn"
    /\ \/ /\ runPc' = "wait"
          /\ UNCHANGED runExit
          /\ argv' = Tail(capture_argv)
          /\ posix' \in BOOLEAN
          /\ err' \in BOOLEAN
          /\ pc' = "parse"
          /\ UNCHANGED <<optind, cluster, value, operands, options, command,
                         exit>>
       \/ RunTrouble /\ UNCHANGED cliVars
    /\ UNCHANGED <<runArgv, index, given, capture_argv, capture_argc>>

ReadVector == CliStep /\ UNCHANGED runVars

RunTerminating ==
    /\ runPc = "done" \/ pc \in {"run", "done"}
    /\ UNCHANGED <<runVars, cliVars>>

RunNext ==
    \/ OutputArgument \/ LogArgument \/ ToolArgument \/ ArgumentsEnd
    \/ MakeDirectory \/ FillVector \/ SpawnWithVector
    \/ ReadVector \/ RunTerminating

RunSpec == RunInit /\ [][RunNext]_<<runVars, cliVars>>

-----------------------------------------------------------------------------
(* Properties.                                                             *)

\* The command line of run read from left to right: the values of options,
\* and the "--" that ends them.
TakesNext(word) == word \in OutputOptions \cup SkippedOptions

IsRunValue[i \in 0 .. Len(runArgv) + 1] ==
    i > 1 /\ TakesNext(runArgv[i - 1]) /\ ~IsRunValue[i - 1]

RunTerminators == {i \in DOMAIN runArgv : runArgv[i] = "--" /\ ~IsRunValue[i]}

\* capture_argv, with the NULL that ends it, fits what was allocated for it
\* (CAPTURE_ARGUMENT_OVERHEAD, inspect_main.c 52 and 1302).
VectorFits == capture_argv # <<>> => Len(capture_argv) + 1 <= capture_argc

\* What was asked of run is what inspect-capture does: it never refuses the
\* vector or takes it for a request for help, it runs the same command with
\* the same arguments, whatever they look like and however getopt treats
\* operands, it writes to the capture directory below the one -o of run, and
\* argument and result values are logged if and only if run was asked to.
RunPassesThrough ==
    runPc = "wait" =>
    /\ err => optind = 1
    /\ pc \in {"parsed", "run"} /\ ~err =>
        \E t \in RunTerminators :
            LET before == {i \in 1 .. t - 1 : ~IsRunValue[i]} IN
            /\ RunTerminators \cap before = {}
            /\ Acceptable
            /\ command = SubSeq(runArgv, t + 1, Len(runArgv))
            /\ options.flags = {LogOptions[runArgv[i]] :
                    i \in {j \in before : runArgv[j] \in DOMAIN LogOptions}}
            /\ \E i \in before :
                /\ {j \in before : runArgv[j] \in OutputOptions} = {i}
                /\ options.report_dir = CapturePath[runArgv[i + 1]]
=============================================================================
