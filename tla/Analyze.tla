------------------------------- MODULE Analyze -------------------------------
(***************************************************************************)
(* p101-inspect analyze: analyze_command over one capture directory, and   *)
(* the directory it writes, with analysis_result, which decides whether    *)
(* `model verify` and `model compare` believe that directory.              *)
(*                                                                         *)
(* The capture is over, but a process its command left behind may still    *)
(* append to the logs while they are verified, ingested and copied.  Every *)
(* invocation may fail at any call and be killed between any two.          *)
(*                                                                         *)
(* Nothing keeps invocations that share an output path apart: they look    *)
(* whether it is there (lstat) and create it much later, without a lock.   *)
(* Those that come to overlap write to one directory.  The history         *)
(* variable `overlapped', which no action reads, tells that it happened,   *)
(* and the properties say which of them need that it did not.              *)
(* A fingerprint of another file is taken in the step that closes the file *)
(* it is written to; that an overlapping invocation may change the one     *)
(* before the other is closed is the one interleaving left out.            *)
(***************************************************************************)
EXTENDS Evidence

CONSTANTS
    Analyzers,  \* the invocations of analyze with one -o directory
    Outputs,    \* the files the observed command and its descendants write to
    Flagged,    \* the inputs a record of which is a finding to the policy
    Lingering   \* whether the observed command left a writer behind

VARIABLES
    artifact,   \* the capture directory: role -> content, or Absent
    receipt,    \* the capture's receipt.txt
    product,    \* the analysis directory: name -> file, or Absent
    exists,     \* the analysis directory exists
    pc,         \* analyzer -> what it is about to do
    force,      \* analyzer -> --force was given
    observed,   \* analyzer -> how many receipt lines verify_capture accepted
    verified,   \* analyzer -> verify_capture returned zero
    command,    \* analyzer -> command_status
    analysis,   \* analyzer -> the bytes its model and its analysis were fed
    open,       \* analyzer -> the file it is writing is open
    exit,       \* analyzer -> the status analyze_command returned
    overlapped  \* history: an invocation got past lstat while another worked

captureVars == <<artifact, receipt>>
admission   == <<force, observed, verified, command>>
vars == <<captureVars, product, exists, pc, admission, analysis, open, exit,
          overlapped>>

\* What a step of an invocation that has started leaves alone.
setting == <<captureVars, overlapped>>

\* What analyze_command reads of the capture once it is verified.
Inputs == {"resources", "calls", "stderr"}

ASSUME OutputsAssumption == Outputs \subseteq Inputs \cup {"stdout"}
ASSUME FlaggedAssumption == Flagged \subseteq Inputs
ASSUME LingeringAssumption == Lingering \in BOOLEAN

\* The names write_analysis_manifest lists and verify_analysis_manifest
\* requires.  "reports" stands for the eleven files
\* p101_tool_analysis_write_bundle writes.
Listed == {"reports", "run-model.json", "summary.md", "finding-index.tsv",
           "input-resources.log", "input-calls.log", "input-stderr.txt"}
Names  == Listed \cup {"analysis-manifest.txt", "analysis-receipt.json"}

Copies == [resources |-> "input-resources.log",
           calls     |-> "input-calls.log",
           stderr    |-> "input-stderr.txt"]

\* The names that show what the analysis found rather than copy its input.
Shown == {"reports", "run-model.json", "finding-index.tsv"}

Stages == Names \cup {"start", "verify_capture", "verify_artifact",
                      "ingest_resources", "ingest_calls", "run", "finish",
                      "done", "crashed"}

\* p101_tool_analysis_status of an analysis fed with these inputs.
Verdict(inputs) ==
    IF \E r \in Flagged : inputs[r] # Absent /\ inputs[r].chunks # {}
    THEN "findings" ELSE "success"

\* A file of the analysis directory: truncated or half written; written to
\* its end; overwritten by one invocation while another had it open.
Ragged(a)        == [by |-> a, whole |-> FALSE, holds |-> Absent]
Written(a, data) == [by |-> a, whole |-> TRUE, holds |-> data]
Mixed            == [by |-> Absent, whole |-> FALSE, holds |-> Absent]

\* What a fingerprint tells of a file.
Fingerprint(file) == [whole |-> file.whole, holds |-> file.holds]

\* What the files hold: an analysis, the summary's two lines, the fingerprints
\* of the manifest, the receipt, or a copy of an input.
Analyses  == [Inputs -> Content \cup {Absent}]
Summaries == [result : {"success", "findings"}, verification : {"VERIFIED"}]
Manifests ==
    [Listed -> [whole : BOOLEAN,
                holds : {Absent} \cup Content \cup Analyses \cup Summaries]]
OutcomeReceipts ==
    [input   : [whole : BOOLEAN, holds : {Absent} \cup Manifests],
     outcome : {"success", "findings"}]
Files ==
    [by    : Analyzers \cup {Absent},
     whole : BOOLEAN,
     holds : {Absent} \cup Content \cup Analyses \cup Summaries
                \cup Manifests \cup OutcomeReceipts]

\* No path that names nothing looks like a file of the analysis directory.
ASSUME AbsentFileAssumption == Absent \notin Files

Nothing == [r \in Inputs |-> Absent]

\* Capture directories analyze can be given: sealed with every line; with a
\* receipt whose last lines were lost; without one; and one whose capture
\* died before it ran the command.
LeftBy(c, wrote) ==
    [r \in Roles |->
        [by |-> c, whole |-> TRUE, chunks |-> IF r \in wrote THEN {c} ELSE {}]]

ReceiptOf(c, files, s, n) ==
    [by |-> c, status |-> s,
     lines |-> [i \in 1 .. n |-> Line(RoleOrder[i], files[RoleOrder[i]])]]

Died(c) == [r \in Roles |-> IF r \in {"stdout", "stderr", "summary"}
                            THEN Absent ELSE Whole(c)]

Init ==
    /\ \E c \in Captures :
          \/ \E wrote \in SUBSET Outputs :
                /\ artifact = LeftBy(c, wrote)
                /\ \/ receipt = Absent
                   \/ \E s \in Statuses, n \in 0 .. Len(RoleOrder) :
                         receipt = ReceiptOf(c, artifact, s, n)
          \/ /\ artifact = Died(c)
             /\ receipt = Absent
    /\ product = [n \in Names |-> Absent]
    /\ exists = FALSE
    /\ pc = [a \in Analyzers |-> "start"]
    /\ force = [a \in Analyzers |-> FALSE]
    /\ observed = [a \in Analyzers |-> 0]
    /\ verified = [a \in Analyzers |-> FALSE]
    /\ command = [a \in Analyzers |-> "success"]
    /\ analysis = [a \in Analyzers |-> Nothing]
    /\ open = [a \in Analyzers |-> FALSE]
    /\ exit = [a \in Analyzers |-> "none"]
    /\ overlapped = FALSE

-----------------------------------------------------------------------------
Goto(a, stage) ==
    /\ pc' = [pc EXCEPT ![a] = stage]
    /\ UNCHANGED exit

\* EXIT_TROUBLE, by `done` or before there is an error to report.  What the
\* output directory holds stays there.
Trouble(a) ==
    /\ pc' = [pc EXCEPT ![a] = "done"]
    /\ exit' = [exit EXCEPT ![a] = "trouble"]

\* A failed verification ends the analysis unless --force resets the error.
VerifyFails(a) == IF force[a] THEN Goto(a, "ingest_resources") ELSE Trouble(a)

\* An invocation that got past lstat and has not returned.
AtWork(a) == pc[a] \notin {"start", "done", "crashed"}

\* Whoever goes on while another is at work overlaps with it.
GoOn(a) ==
    /\ Goto(a, "verify_capture")
    /\ overlapped' = (overlapped \/ \E b \in Analyzers : AtWork(b))

\* Mutation: the output path is not looked at.
MutantStart(a) ==
    /\ pc[a] = "start"
    /\ \E f \in BOOLEAN : force' = [force EXCEPT ![a] = f]
    /\ GoOn(a)
    /\ UNCHANGED <<captureVars, product, exists, observed, verified, command,
                   analysis, open>>

\* The arguments, lstat of the output path, p101_error_create.
Start(a) ==
    /\ pc[a] = "start"
    /\ \E f \in BOOLEAN : force' = [force EXCEPT ![a] = f]
    /\ \/ ~exists /\ GoOn(a)
       \/ Trouble(a) /\ UNCHANGED overlapped
    /\ UNCHANGED <<captureVars, product, exists, observed, verified, command,
                   analysis, open>>

\* verify_capture opens receipt.txt and reads as far as the status line.
VerifyCapture(a) ==
    /\ pc[a] = "verify_capture"
    /\ \/ /\ receipt # Absent
          /\ command' = [command EXCEPT ![a] = CommandStatus(receipt.status)]
          /\ Goto(a, "verify_artifact")
       \/ /\ VerifyFails(a)
          /\ UNCHANGED command
    /\ UNCHANGED <<setting, product, exists, force, observed, verified,
                   analysis, open>>

\* One artifact= line: the fingerprint of the file as it is now is compared
\* with the recorded one.
VerifyArtifact(a) ==
    /\ pc[a] = "verify_artifact"
    /\ observed[a] < Len(receipt.lines)
    /\ \/ /\ Matches(artifact, receipt.lines[observed[a] + 1])
          /\ observed' = [observed EXCEPT ![a] = @ + 1]
          /\ UNCHANGED <<pc, exit>>
       \/ /\ VerifyFails(a)
          /\ UNCHANGED observed
    /\ UNCHANGED <<setting, product, exists, force, verified, command,
                   analysis, open>>

\* Mutation: reaching the end of the receipt is enough.
MutantVerifyDone(a) ==
    /\ pc[a] = "verify_artifact"
    /\ observed[a] = Len(receipt.lines)
    /\ verified' = [verified EXCEPT ![a] = TRUE]
    /\ Goto(a, "ingest_resources")
    /\ UNCHANGED <<setting, product, exists, force, observed, command,
                   analysis, open>>

\* The end of the receipt: every role must have been observed.
VerifyDone(a) ==
    /\ pc[a] = "verify_artifact"
    /\ observed[a] = Len(receipt.lines)
    /\ LET roles == {receipt.lines[i].role : i \in DOMAIN receipt.lines} IN
       \/ /\ Roles \subseteq roles
          /\ verified' = [verified EXCEPT ![a] = TRUE]
          /\ Goto(a, "ingest_resources")
       \/ /\ VerifyFails(a)
          /\ UNCHANGED verified
    /\ UNCHANGED <<setting, product, exists, force, observed, command,
                   analysis, open>>

-----------------------------------------------------------------------------
(* The model and the analysis: each input is read again, from its path.    *)

Reads(a, role, next) ==
    /\ \/ /\ analysis' = [analysis EXCEPT ![a][role] = artifact[role]]
          /\ Goto(a, next)
       \/ /\ Trouble(a)
          /\ UNCHANGED analysis
    /\ UNCHANGED <<setting, product, exists, admission, open>>

\* p101_tool_model_ingest_paths, resources.log then calls.log.
IngestResources(a) ==
    /\ pc[a] = "ingest_resources"
    /\ Reads(a, "resources", "ingest_calls")

IngestCalls(a) ==
    /\ pc[a] = "ingest_calls"
    /\ Reads(a, "calls", "run")

\* p101_tool_analysis_run.  Whether it minds a missing stderr.txt is left open.
RunAnalysis(a) ==
    /\ pc[a] = "run"
    /\ Reads(a, "stderr", "reports")

-----------------------------------------------------------------------------
(* The analysis directory.                                                 *)

\* p101_tool_analysis_write_bundle creates the directory and the reports, or
\* fails at any point.  It is left open whether it minds a directory that is
\* there.
WriteBundle(a) ==
    /\ pc[a] = "reports"
    /\ \/ /\ exists' = TRUE
          /\ \/ product' = [product EXCEPT !["reports"] = Written(a, analysis[a])]
             \/ exists /\ product' = [product EXCEPT !["reports"] = Mixed]
          /\ Goto(a, "run-model.json")
       \/ /\ Trouble(a)
          /\ UNCHANGED <<product, exists>>
       \/ /\ Trouble(a)
          /\ exists' = TRUE
          /\ product' = [product EXCEPT !["reports"] = Ragged(a)]
    /\ UNCHANGED <<setting, admission, analysis, open>>

\* fopen(..., "we") of one file.
Opens(a, name) ==
    /\ ~open[a]
    /\ \/ /\ open' = [open EXCEPT ![a] = TRUE]
          /\ product' = [product EXCEPT ![name] = Ragged(a)]
          /\ UNCHANGED <<pc, exit>>
       \/ /\ Trouble(a)
          /\ UNCHANGED <<open, product>>

\* The writes and the fclose.  Without an error the file holds its data,
\* which takes a readable source, or a mixture if another invocation wrote to
\* it since it was opened; an error may come even if all was written.
Closes(a, name, readable, data, next) ==
    /\ open[a]
    /\ open' = [open EXCEPT ![a] = FALSE]
    /\ \/ /\ readable
          /\ \/ product' = [product EXCEPT ![name] = Written(a, data)]
             \/ /\ product[name] # Ragged(a)
                /\ product' = [product EXCEPT ![name] = Mixed]
          /\ Goto(a, next) \/ Trouble(a)
       \/ /\ Trouble(a)
          /\ UNCHANGED product

Writes(a, name, readable, data, next) ==
    /\ pc[a] = name
    /\ Opens(a, name) \/ Closes(a, name, readable, data, next)
    /\ UNCHANGED <<setting, exists, admission, analysis>>

\* A part of what is written reaches the file before it is closed, which
\* only matters if another invocation has opened or written it meanwhile.
Flush(a) ==
    /\ open[a] /\ AtWork(a)
    /\ product[pc[a]] # Ragged(a)
    /\ product' = [product EXCEPT ![pc[a]] = Mixed]
    /\ UNCHANGED <<setting, exists, pc, admission, analysis, open, exit>>

WriteModelFile(a) ==
    Writes(a, "run-model.json", TRUE, analysis[a], "input-resources.log")

\* Mutation: every destination is copied from the first source.
MutantCopyInput(a, role, next) ==
    Writes(a, Copies[role], artifact["resources"] # Absent,
           artifact["resources"], next)

\* Mutation: a source that cannot be opened is copied as nothing.
MutantCopyUnread(a, role, next) ==
    Writes(a, Copies[role], TRUE, artifact[role], next)

\* One round of copy_analysis_inputs: the source is read a third time.
CopyInput(a, role, next) ==
    Writes(a, Copies[role], artifact[role] # Absent, artifact[role], next)

CopyAnalysisInputs(a) ==
    \/ CopyInput(a, "resources", "input-calls.log")
    \/ CopyInput(a, "calls", "input-stderr.txt")
    \/ CopyInput(a, "stderr", "finding-index.tsv")

\* Mutation: the results of writing and closing the index are ignored.
MutantWriteFindingIndex(a) ==
    /\ pc[a] = "finding-index.tsv"
    /\ \/ Opens(a, "finding-index.tsv")
       \/ /\ open[a]
          /\ open' = [open EXCEPT ![a] = FALSE]
          /\ Goto(a, "summary.md")
          /\ UNCHANGED product
    /\ UNCHANGED <<setting, exists, admission, analysis>>

WriteFindingIndex(a) ==
    Writes(a, "finding-index.tsv", TRUE, analysis[a], "summary.md")

\* The result line follows the analysis; the verification line is fixed text.
WriteAnalysisSummary(a) ==
    Writes(a, "summary.md", TRUE,
           [result |-> Verdict(analysis[a]), verification |-> "VERIFIED"],
           "analysis-manifest.txt")

\* Every listed file is fingerprinted as it is now.
WriteAnalysisManifest(a) ==
    Writes(a, "analysis-manifest.txt",
           \A n \in Listed : product[n] # Absent,
           [n \in {m \in Listed : product[m] # Absent} |-> Fingerprint(product[n])],
           "analysis-receipt.json")

\* The receipt binds the manifest's fingerprint to the outcome.
WriteAnalysisReceipt(a) ==
    Writes(a, "analysis-receipt.json", TRUE,
           [input   |-> Fingerprint(product["analysis-manifest.txt"]),
            outcome |-> Verdict(analysis[a])],
           "finish")

\* Mutation: findings of the command alone do not count.
MutantFinishAnalyze(a) ==
    /\ pc[a] = "finish"
    /\ pc' = [pc EXCEPT ![a] = "done"]
    /\ exit' = [exit EXCEPT ![a] = Verdict(analysis[a])]
    /\ UNCHANGED <<setting, product, exists, admission, analysis, open>>

\* A command that exited nonzero turns a clean analysis into findings.
FinishAnalyze(a) ==
    /\ pc[a] = "finish"
    /\ pc' = [pc EXCEPT ![a] = "done"]
    /\ exit' = [exit EXCEPT ![a] =
                    IF command[a] = "findings" THEN "findings"
                                               ELSE Verdict(analysis[a])]
    /\ UNCHANGED <<setting, product, exists, admission, analysis, open>>

-----------------------------------------------------------------------------
Crash(a) ==
    /\ AtWork(a)
    /\ pc' = [pc EXCEPT ![a] = "crashed"]
    /\ UNCHANGED <<setting, product, exists, admission, analysis, open, exit>>

\* The process left behind appends to a log it holds the path of, or to the
\* stdout.txt or stderr.txt it inherited.
LateWrite(role) ==
    /\ Lingering
    /\ artifact[role] # Absent
    /\ artifact' = [artifact EXCEPT ![role].chunks = @ \cup {artifact[role].by}]
    /\ UNCHANGED <<receipt, product, exists, pc, admission, analysis, open, exit,
                   overlapped>>

Terminating ==
    /\ \A a \in Analyzers : pc[a] \in {"done", "crashed"}
    /\ UNCHANGED vars

Step(a) ==
    \/ Start(a)
    \/ VerifyCapture(a) \/ VerifyArtifact(a) \/ VerifyDone(a)
    \/ IngestResources(a) \/ IngestCalls(a) \/ RunAnalysis(a)
    \/ WriteBundle(a) \/ WriteModelFile(a) \/ CopyAnalysisInputs(a)
    \/ WriteFindingIndex(a) \/ WriteAnalysisSummary(a)
    \/ WriteAnalysisManifest(a) \/ WriteAnalysisReceipt(a)
    \/ Flush(a) \/ FinishAnalyze(a)

Next ==
    \/ \E a \in Analyzers : Step(a) \/ Crash(a)
    \/ \E role \in Outputs : LateWrite(role)
    \/ Terminating

Spec == Init /\ [][Next]_vars

-----------------------------------------------------------------------------
(* What a reader makes of the analysis directory.                          *)

IsWhole(n) == product[n] # Absent /\ product[n].whole

\* analysis_result: the receipt is valid and fingerprints the manifest;
\* verify_analysis_manifest: every listed file is there as fingerprinted.
AnalysisResult ==
    /\ IsWhole("analysis-receipt.json")
    /\ product["analysis-manifest.txt"] # Absent
    /\ product["analysis-receipt.json"].holds.input
          = Fingerprint(product["analysis-manifest.txt"])
    /\ IsWhole("analysis-manifest.txt")
    /\ LET lines == product["analysis-manifest.txt"].holds IN
       /\ DOMAIN lines = Listed
       /\ \A n \in Listed : product[n] # Absent /\ lines[n] = Fingerprint(product[n])

\* The outcome it returns, as an exit status.
Outcome == product["analysis-receipt.json"].holds.outcome

\* load_analysis_directory analyzes the copied inputs anew.
Replayed == [r \in Inputs |-> product[Copies[r]].holds]

-----------------------------------------------------------------------------
(* Properties.                                                             *)

\* What each file holds once it is written to its end.
Holds(n, data) ==
    CASE n \in Shown                 -> data \in Analyses
      [] n = "summary.md"            -> data \in Summaries
      [] n = "analysis-manifest.txt" -> data \in Manifests
      [] n = "analysis-receipt.json" -> data \in OutcomeReceipts
      [] OTHER                       -> data \in Content

\* The types of the variables of the program, and of the history variable.
ProgramTypeOK ==
    /\ artifact \in [Roles -> Content \cup {Absent}]
    /\ receipt \in Receipts \cup {Absent}
    /\ DOMAIN product = Names
    /\ \A n \in Names : product[n] # Absent =>
          /\ product[n] \in Files
          /\ IF product[n].whole THEN Holds(n, product[n].holds)
                                 ELSE product[n].holds = Absent
    /\ exists \in BOOLEAN
    /\ pc \in [Analyzers -> Stages]
    /\ force \in [Analyzers -> BOOLEAN]
    /\ observed \in [Analyzers -> 0 .. Len(RoleOrder)]
    /\ verified \in [Analyzers -> BOOLEAN]
    /\ command \in [Analyzers -> {"success", "findings", "trouble"}]
    /\ analysis \in [Analyzers -> Analyses]
    /\ open \in [Analyzers -> BOOLEAN]
    /\ exit \in [Analyzers -> {"none", "success", "findings", "trouble"}]

TypeOK == ProgramTypeOK /\ overlapped \in BOOLEAN

\* A directory `model verify` believes is the complete output of one
\* analysis: every file was written to its end by the same invocation, the
\* reports, the model and the index show one analysis, and the summary and
\* the receipt give its result.  No failed call, kill, retry or late writer
\* gets a half-written or mixed directory past the reader, as long as no two
\* invocations with that output path overlapped.
AcceptedIsOneAnalysis ==
    AnalysisResult /\ ~overlapped =>
        \E a \in Analyzers :
            /\ \A n \in Names : IsWhole(n) /\ product[n].by = a
            /\ \A n \in Shown : product[n].holds = analysis[a]
            /\ product["summary.md"].holds.result = Verdict(analysis[a])
            /\ Outcome = Verdict(analysis[a])

\* Unless invocations overlapped, analyze exits 0 or 1 only on a directory its
\* reader believes, and the status is the reader's outcome raised to findings
\* when the receipt of a verified capture says that the command exited nonzero.
ExitMatchesEvidence ==
    [][\A a \in Analyzers :
          ~overlapped /\ exit[a] = "none" /\ exit'[a] \in {"success", "findings"} =>
              /\ AnalysisResult'
              /\ verified[a] =>
                    (exit'[a] = "findings" <=>
                        Outcome' = "findings" \/ receipt.status = "exitN")]_vars

\* No invocation is between its look at the output path and its end.
Idle == \A a \in Analyzers : ~AtWork(a)

\* How far an analysis a reader believes is safe from later analyses with the
\* same output path.  Without overlap nothing changes it.  With overlap, an
\* invocation that looked before the directory was there may still overwrite
\* it, and nothing in the code prevents that; but once none is at work, none
\* gets to work again, and the directory stays as it is whoever tries.
AcceptedIsFinal ==
    [][AnalysisResult =>
          /\ ~overlapped => UNCHANGED product
          /\ Idle => UNCHANGED product /\ Idle']_vars

\* model verify analyzes the copied inputs again and checks expectations on
\* findings against that and on the result against the receipt: the two
\* agree, as long as nobody writes to the logs while analyze reads them and no
\* two invocations overlapped.
ReplayAgrees ==
    AnalysisResult /\ ~overlapped => Verdict(Replayed) = Outcome

\* What a late writer can do to a verified analysis.  verify, ingest and copy
\* read the logs three times; whatever was appended in between, either every
\* byte analyzed and every byte copied is what the capture's receipt sealed,
\* or the capture directory no longer matches its receipt.  (Of a directory
\* that overlapping invocations wrote to, that is not said.)
VerifiedMeansSealed ==
    \A a \in Analyzers :
        (/\ verified[a] /\ ~overlapped
         /\ AnalysisResult /\ product["summary.md"].by = a) =>
            \A r \in Inputs :
                \E i \in DOMAIN receipt.lines :
                    /\ receipt.lines[i].role = r
                    /\ \/ ~Matches(artifact, receipt.lines[i])
                       \/ /\ Bytes(r, product[Copies[r]].holds)
                                = receipt.lines[i].print
                          /\ Bytes(r, analysis[a][r]) = receipt.lines[i].print

\* summary.md says "Capture verification: VERIFIED".  It says so only of a
\* capture verify_capture accepted.
VerifiedClaimIsTrue ==
    \A a \in Analyzers :
        (IsWhole("summary.md") /\ product["summary.md"].by = a
            /\ product["summary.md"].holds.verification = "VERIFIED")
                => verified[a]

\* README.md: exit status is zero for a clean command, one when the command
\* or captured policy reports findings.
ZeroMeansCleanCommand ==
    [][\A a \in Analyzers :
          exit[a] = "none" /\ exit'[a] = "success" /\ verified[a] =>
              StatusIsSuccess(receipt.status)]_vars
=============================================================================
