------------------------------- MODULE Capture -------------------------------
(***************************************************************************)
(* inspect-capture: p101_observe_run and everything it calls, from the     *)
(* admitted arguments to the exit status.  Each capture is one process and *)
(* one observed child; all of them use one -o directory, one after another *)
(* (create_report_dir accepts a directory that exists).  Every call that   *)
(* may fail does so nondeterministically, and a capture may be killed      *)
(* between any two steps.                                                  *)
(*                                                                         *)
(* A file is written in two steps, the fopen that truncates it and the     *)
(* fclose that flushes it, because stdio buffers and an error may surface  *)
(* at either.  A p101 wrapper runs even when an error is pending and only  *)
(* adds its own: the code relies on that where main prints the message.    *)
(***************************************************************************)
EXTENDS Evidence

CONSTANTS
    Outputs,    \* the roles of the files the observed command writes to
    Lingering   \* whether a child may write after it was waited for (its
                \* descendants hold the log paths), or after its capture died

VARIABLES
    artifact,     \* role -> content of that file, or Absent
    receipt,      \* receipt.txt
    toolReceipt,  \* tool-receipt.json
    pc,           \* capture -> the call it is about to make
    err,          \* capture -> an error is pending in struct p101_error
    child,        \* capture -> its observed child
    status,       \* capture -> result.command_status
    exit          \* capture -> the status main returned

vars == <<artifact, receipt, toolReceipt, pc, err, child, status, exit>>

ASSUME LingeringAssumption == Lingering \in BOOLEAN
ASSUME OutputsAssumption == Outputs \subseteq LogRoles \cup {"stdout", "stderr"}

Stages == {"make_report_paths", "create_report_dir", "open_command",
           "close_command", "open_manifest", "close_manifest",
           "create_resource_log", "create_call_log", "spawn", "wait",
           "open_summary", "close_summary", "open_receipt", "fingerprint",
           "close_receipt", "open_tool_receipt", "close_tool_receipt",
           "finish", "done", "crashed"}

ChildStates == {"none", "running", "exited", "unstarted"}
ExitCodes   == {"none", "success", "findings", "trouble"}

\* The shared receipt names its outcome and the receipt.txt it fingerprints.
ToolReceipts == [by : Captures, whole : BOOLEAN,
                 outcome : {"success", "findings"}, input : Receipts]

ASSUME AbsentReceiptAssumption == Absent \notin Receipts \cup ToolReceipts

\* What a reader accepts: whose evidence, and what the command came to.
Evidences == [by : Captures, outcome : {"success", "findings", "trouble"}]

ASSUME AbsentEvidenceAssumption == Absent \notin Evidences

Idle(c)   == pc[c] \in {"make_report_paths", "done", "crashed"}
Active(c) == ~Idle(c)

Init ==
    /\ artifact = [r \in Roles |-> Absent]
    /\ receipt = Absent
    /\ toolReceipt = Absent
    /\ pc = [c \in Captures |-> "make_report_paths"]
    /\ err = [c \in Captures |-> FALSE]
    /\ child = [c \in Captures |-> "none"]
    /\ status = [c \in Captures |-> "exit0"]
    /\ exit = [c \in Captures |-> "none"]

-----------------------------------------------------------------------------
(* How a call ends.                                                        *)

\* The call raised an error, or did not, and nobody looks yet.
Proceed(c, stage, failed) ==
    /\ pc' = [pc EXCEPT ![c] = stage]
    /\ err' = [err EXCEPT ![c] = @ \/ failed]
    /\ UNCHANGED exit

\* main's exit path: the pending error turns the result into EXIT_TROUBLE.
GiveUp(c) ==
    /\ pc' = [pc EXCEPT ![c] = "done"]
    /\ err' = [err EXCEPT ![c] = TRUE]
    /\ exit' = [exit EXCEPT ![c] = "trouble"]

\* The call, then p101_error_has_error and goto done.
Checked(c, stage, failed) ==
    IF err[c] \/ failed THEN GiveUp(c) ELSE Proceed(c, stage, FALSE)

\* fopen(path, "w"): the file is truncated, or it is as it was.
Truncated(c, role, failed) ==
    artifact' = IF failed THEN artifact
                          ELSE [artifact EXCEPT ![role] = Torn(c)]

\* fclose after buffered writes: complete says whether every byte got there.
Flushed(c, role, complete) ==
    artifact' = IF complete THEN [artifact EXCEPT ![role] = Whole(c)]
                            ELSE artifact

-----------------------------------------------------------------------------
(* p101_observe_run up to the observed command.                            *)

\* clock_gettime or join_path fails, or the paths are made.  Captures of one
\* directory do not overlap.
MakeReportPaths(c) ==
    /\ pc[c] = "make_report_paths"
    /\ \A d \in Captures : Idle(d)
    /\ \E failed \in BOOLEAN : Checked(c, "create_report_dir", failed)
    /\ UNCHANGED <<artifact, receipt, toolReceipt, child, status>>

\* EEXIST is no error, so nothing tells a new directory from a used one.
CreateReportDir(c) ==
    /\ pc[c] = "create_report_dir"
    /\ \E failed \in BOOLEAN : Checked(c, "open_command", failed)
    /\ UNCHANGED <<artifact, receipt, toolReceipt, child, status>>

OpenCommand(c) ==
    /\ pc[c] = "open_command"
    /\ \E failed \in BOOLEAN :
          /\ Truncated(c, "command", failed)
          /\ Proceed(c, IF failed THEN "open_manifest" ELSE "close_command", failed)
    /\ UNCHANGED <<receipt, toolReceipt, child, status>>

CloseCommand(c) ==
    /\ pc[c] = "close_command"
    /\ \E failed, complete \in BOOLEAN :
          /\ failed \/ complete
          /\ Flushed(c, "command", complete)
          /\ Proceed(c, "open_manifest", failed)
    /\ UNCHANGED <<receipt, toolReceipt, child, status>>

\* When manifest.txt opens, the error state is cleared: have_time is false
\* whenever any error is pending, also one write_command_file left, and
\* p101_error_reset follows; the uname fallback resets as well.
OpenManifest(c) ==
    /\ pc[c] = "open_manifest"
    /\ \/ /\ Truncated(c, "manifest", FALSE)
          /\ pc' = [pc EXCEPT ![c] = "close_manifest"]
          /\ err' = [err EXCEPT ![c] = FALSE]
          /\ UNCHANGED exit
       \/ /\ Truncated(c, "manifest", TRUE)
          /\ Checked(c, "create_resource_log", TRUE)
    /\ UNCHANGED <<receipt, toolReceipt, child, status>>

CloseManifest(c) ==
    /\ pc[c] = "close_manifest"
    /\ \E failed, complete \in BOOLEAN :
          /\ failed \/ complete
          /\ Flushed(c, "manifest", complete)
          /\ Checked(c, "create_resource_log", failed)
    /\ UNCHANGED <<receipt, toolReceipt, child, status>>

\* Mutation: the logs are opened with "a", so an earlier capture's stay.
MutantCreateEmptyFile(c, role, failed) ==
    artifact' = IF failed \/ artifact[role] # Absent
                THEN artifact
                ELSE [artifact EXCEPT ![role] = Whole(c)]

\* p101_observe_create_empty_file: an empty file is whole once it is created.
CreateEmptyFile(c, role, failed) ==
    artifact' = IF failed THEN artifact
                          ELSE [artifact EXCEPT ![role] = Whole(c)]

CreateResourceLog(c) ==
    /\ pc[c] = "create_resource_log"
    /\ \E failed \in BOOLEAN :
          /\ CreateEmptyFile(c, "resources", failed)
          /\ Proceed(c, "create_call_log", failed)
    /\ UNCHANGED <<receipt, toolReceipt, child, status>>

\* Mutation: no check between creating the logs and running the command.
MutantCreateCallLog(c) ==
    /\ pc[c] = "create_call_log"
    /\ \E failed \in BOOLEAN :
          /\ CreateEmptyFile(c, "calls", failed)
          /\ Proceed(c, "spawn", failed)
    /\ UNCHANGED <<receipt, toolReceipt, child, status>>

CreateCallLog(c) ==
    /\ pc[c] = "create_call_log"
    /\ \E failed \in BOOLEAN :
          /\ CreateEmptyFile(c, "calls", failed)
          /\ Checked(c, "spawn", failed)
    /\ UNCHANGED <<receipt, toolReceipt, child, status>>

-----------------------------------------------------------------------------
(* The observed command.                                                   *)

\* The redirections the child has made when exec is reached or given up.
Redirected(c, roles) ==
    artifact' = [r \in Roles |-> IF r \in roles THEN Whole(c) ELSE artifact[r]]

\* p101_tool_run_capture: the parent fails to fork; or the child redirects
\* stdout and stderr, sets its environment and runs the command; or it stops
\* on the way and reports that only in its exit status.
Spawn(c) ==
    /\ pc[c] = "spawn"
    /\ \/ /\ GiveUp(c)
          /\ UNCHANGED <<artifact, child, status>>
       \/ /\ Redirected(c, {"stdout", "stderr"})
          /\ child' = [child EXCEPT ![c] = "running"]
          /\ Proceed(c, "wait", FALSE)
          /\ UNCHANGED status
       \/ /\ \E roles \in {{}, {"stdout"}, {"stdout", "stderr"}} :
                Redirected(c, roles)
          /\ child' = [child EXCEPT ![c] = "unstarted"]
          /\ status' = [status EXCEPT ![c] = "exitN"]
          /\ Proceed(c, "wait", FALSE)
    /\ UNCHANGED <<receipt, toolReceipt>>

\* The child, or a process it left behind, writes to one of its files.
ChildWrites(c, role) ==
    /\ child[c] = "running" \/ (Lingering /\ child[c] = "exited")
    /\ artifact[role] # Absent
    /\ artifact' = [artifact EXCEPT ![role].chunks = @ \cup {c}]
    /\ UNCHANGED <<receipt, toolReceipt, pc, err, child, status, exit>>

ChildExits(c) ==
    /\ child[c] = "running"
    /\ child' = [child EXCEPT ![c] = "exited"]
    /\ \E s \in Statuses : status' = [status EXCEPT ![c] = s]
    /\ UNCHANGED <<artifact, receipt, toolReceipt, pc, err, exit>>

\* The wait returns the child's status, or fails.
WaitCommand(c) ==
    /\ pc[c] = "wait"
    /\ child[c] \in {"exited", "unstarted"}
    /\ \E failed \in BOOLEAN : Checked(c, "open_summary", failed)
    /\ UNCHANGED <<artifact, receipt, toolReceipt, child, status>>

-----------------------------------------------------------------------------
(* finish_capture: the summary, receipt.txt, tool-receipt.json.            *)

OpenSummary(c) ==
    /\ pc[c] = "open_summary"
    /\ \E failed \in BOOLEAN :
          /\ Truncated(c, "summary", failed)
          /\ Proceed(c, IF failed THEN "open_receipt" ELSE "close_summary", failed)
    /\ UNCHANGED <<receipt, toolReceipt, child, status>>

\* Mutation: the result of closing summary.txt is ignored.
MutantCloseSummary(c) ==
    /\ pc[c] = "close_summary"
    /\ \E complete \in BOOLEAN : Flushed(c, "summary", complete)
    /\ Proceed(c, "open_receipt", FALSE)
    /\ UNCHANGED <<receipt, toolReceipt, child, status>>

CloseSummary(c) ==
    /\ pc[c] = "close_summary"
    /\ \E failed, complete \in BOOLEAN :
          /\ failed \/ complete
          /\ Flushed(c, "summary", complete)
          /\ Proceed(c, "open_receipt", failed)
    /\ UNCHANGED <<receipt, toolReceipt, child, status>>

\* The header and the status line go in front of every artifact line.
OpenReceipt(c) ==
    /\ pc[c] = "open_receipt"
    /\ \/ /\ receipt' = [by |-> c, status |-> status[c], lines |-> <<>>]
          /\ Proceed(c, "fingerprint", FALSE)
       \/ /\ UNCHANGED receipt
          /\ Proceed(c, "finish", TRUE)
    /\ UNCHANGED <<artifact, toolReceipt, child, status>>

\* write_artifact_fingerprint does nothing once an error is pending.
MayFingerprint(c) == ~err[c] /\ Len(receipt.lines) < Len(RoleOrder)

\* The file's bytes as they are now become the next line; a file that cannot
\* be read raises an error instead.
FingerprintArtifact(c) ==
    /\ pc[c] = "fingerprint"
    /\ MayFingerprint(c)
    /\ LET role == RoleOrder[Len(receipt.lines) + 1] IN
       \/ /\ artifact[role] # Absent
          /\ receipt' = [receipt EXCEPT
                            !.lines = Append(@, Line(role, artifact[role]))]
          /\ Proceed(c, "fingerprint", FALSE)
       \/ /\ Proceed(c, "fingerprint", TRUE)
          /\ UNCHANGED receipt
    /\ UNCHANGED <<artifact, toolReceipt, child, status>>

FingerprintsDone(c) ==
    /\ pc[c] = "fingerprint"
    /\ ~MayFingerprint(c)
    /\ Proceed(c, "close_receipt", FALSE)
    /\ UNCHANGED <<artifact, receipt, toolReceipt, child, status>>

\* Mutation: the shared receipt is written whatever happened before.
MutantCloseReceipt(c) ==
    /\ pc[c] = "close_receipt"
    /\ \E failed \in BOOLEAN : Proceed(c, "open_tool_receipt", failed)
    /\ UNCHANGED <<artifact, receipt, toolReceipt, child, status>>

\* A failed fclose leaves any prefix of the lines in the file.  The shared
\* receipt follows only if no error is pending.
CloseReceipt(c) ==
    /\ pc[c] = "close_receipt"
    /\ \/ /\ Proceed(c, IF err[c] THEN "finish" ELSE "open_tool_receipt", FALSE)
          /\ UNCHANGED receipt
       \/ /\ Proceed(c, "finish", TRUE)
          /\ \E n \in 0 .. Len(receipt.lines) :
                receipt' = [receipt EXCEPT !.lines = SubSeq(@, 1, n)]
    /\ UNCHANGED <<artifact, toolReceipt, child, status>>

\* Mutation: the outcome is the status a reader derives, which has a third value.
MutantOpenToolReceipt(c) ==
    /\ pc[c] = "open_tool_receipt"
    /\ toolReceipt' = [by |-> c, whole |-> FALSE, input |-> receipt,
                        outcome |-> CommandStatus(status[c])]
    /\ Proceed(c, "close_tool_receipt", FALSE)
    /\ UNCHANGED <<artifact, receipt, child, status>>

\* write_tool_receipt: fingerprint receipt.txt, derive the outcome, open.
OpenToolReceipt(c) ==
    /\ pc[c] = "open_tool_receipt"
    /\ \/ /\ toolReceipt' =
                [by |-> c, whole |-> FALSE, input |-> receipt,
                 outcome |-> IF StatusIsSuccess(status[c]) THEN "success"
                                                           ELSE "findings"]
          /\ Proceed(c, "close_tool_receipt", FALSE)
       \/ /\ UNCHANGED toolReceipt
          /\ Proceed(c, "finish", TRUE)
    /\ UNCHANGED <<artifact, receipt, child, status>>

CloseToolReceipt(c) ==
    /\ pc[c] = "close_tool_receipt"
    /\ \E failed, complete \in BOOLEAN :
          /\ failed \/ complete
          /\ toolReceipt' = [toolReceipt EXCEPT !.whole = complete]
          /\ Proceed(c, "finish", failed)
    /\ UNCHANGED <<artifact, receipt, child, status>>

\* Mutation: an error while writing the summary or the receipts is not looked at.
MutantFinishCapture(c) ==
    /\ pc[c] = "finish"
    /\ pc' = [pc EXCEPT ![c] = "done"]
    /\ exit' = [exit EXCEPT ![c] =
                    IF StatusIsSuccess(status[c]) THEN "success" ELSE "findings"]
    /\ UNCHANGED <<artifact, receipt, toolReceipt, err, child, status>>

\* The exit status follows the command's, unless an error is pending or the
\* closing message cannot be printed.
FinishCapture(c) ==
    /\ pc[c] = "finish"
    /\ \E failed \in BOOLEAN :
          IF err[c] \/ failed
          THEN GiveUp(c)
          ELSE /\ pc' = [pc EXCEPT ![c] = "done"]
               /\ exit' = [exit EXCEPT ![c] =
                     IF StatusIsSuccess(status[c]) THEN "success" ELSE "findings"]
               /\ UNCHANGED err
    /\ UNCHANGED <<artifact, receipt, toolReceipt, child, status>>

-----------------------------------------------------------------------------
\* inspect-capture is killed; a child it was running may go on.
Crash(c) ==
    /\ Active(c)
    /\ pc' = [pc EXCEPT ![c] = "crashed"]
    /\ child' = [child EXCEPT ![c] =
                    IF @ = "running" /\ ~Lingering THEN "exited" ELSE @]
    /\ UNCHANGED <<artifact, receipt, toolReceipt, err, status, exit>>

\* Every capture is over.
Terminating ==
    /\ \A c \in Captures : pc[c] \in {"done", "crashed"}
    /\ UNCHANGED vars

\* One step of the capture's own process.
Step(c) ==
    \/ MakeReportPaths(c) \/ CreateReportDir(c)
    \/ OpenCommand(c) \/ CloseCommand(c)
    \/ OpenManifest(c) \/ CloseManifest(c)
    \/ CreateResourceLog(c) \/ CreateCallLog(c)
    \/ Spawn(c) \/ WaitCommand(c)
    \/ OpenSummary(c) \/ CloseSummary(c)
    \/ OpenReceipt(c) \/ FingerprintArtifact(c) \/ FingerprintsDone(c)
    \/ CloseReceipt(c)
    \/ OpenToolReceipt(c) \/ CloseToolReceipt(c)
    \/ FinishCapture(c)

Child(c) ==
    \/ \E role \in Outputs : ChildWrites(c, role)
    \/ ChildExits(c)

Next ==
    \/ \E c \in Captures : Step(c) \/ Child(c) \/ Crash(c)
    \/ Terminating

Spec == Init /\ [][Next]_vars

-----------------------------------------------------------------------------
(* Properties.                                                             *)

TypeOK ==
    /\ artifact \in [Roles -> Content \cup {Absent}]
    /\ receipt \in Receipts \cup {Absent}
    /\ toolReceipt \in ToolReceipts \cup {Absent}
    /\ pc \in [Captures -> Stages]
    /\ err \in [Captures -> BOOLEAN]
    /\ child \in [Captures -> ChildStates]
    /\ status \in [Captures -> Statuses]
    /\ exit \in [Captures -> ExitCodes]

WrittenBy(c, role) == artifact[role] # Absent /\ artifact[role].by = c
IsWhole(role)      == artifact[role] # Absent /\ artifact[role].whole

\* The observed command never runs with its provenance missing: while it
\* runs under its capture, manifest.txt is complete and both event logs were
\* emptied by this very capture, whatever failed before and whatever an
\* earlier capture left in the directory.
NeverRunUnrecorded ==
    \A c \in Captures :
        pc[c] = "wait" =>
            /\ WrittenBy(c, "manifest") /\ IsWhole("manifest")
            /\ \A r \in LogRoles : WrittenBy(c, r)

\* Evidence verify_capture accepts is of one run.  Every file that records
\* what was observed was written by the capture whose receipt this is, and so
\* were stdout and stderr if the command succeeded: after any sequence of
\* captures, failed calls and kills in the directory.  (command.txt and, when
\* the child could not redirect, its output files may be older.)
AcceptedIsOneRun ==
    Accepts(artifact, receipt) =>
        /\ \A r \in {"manifest", "resources", "calls"} : WrittenBy(receipt.by, r)
        /\ WrittenBy(receipt.by, "summary")
        /\ receipt.status = "exit0" =>
              \A r \in {"stdout", "stderr"} : WrittenBy(receipt.by, r)

\* A torn file is never accepted, command.txt apart.
AcceptedIsWhole ==
    Accepts(artifact, receipt) => \A r \in Roles \ {"command"} : IsWhole(r)

\* report.c's comment on write_tool_receipt: fingerprinting receipt.txt binds
\* tool-receipt.json to the complete admitted evidence set.  Whatever happened
\* since, a complete tool-receipt.json names a receipt with a line for every
\* role, and its outcome is that receipt's status.
ToolReceiptBindsEverything ==
    (toolReceipt # Absent /\ toolReceipt.whole) =>
        /\ \A r \in Roles :
              \E i \in DOMAIN toolReceipt.input.lines :
                  toolReceipt.input.lines[i].role = r
        /\ toolReceipt.outcome = "success" <=> toolReceipt.input.status = "exit0"
        /\ toolReceipt.by = toolReceipt.input.by

\* A capture that exits 0 or 1 leaves evidence its reader accepts: the receipt
\* is its own, all fingerprints match what is on disk at that moment, the
\* reader derives the status the capture returned, and tool-receipt.json
\* fingerprints this receipt with this outcome.
Sealed(c) ==
    /\ Accepts(artifact, receipt)
    /\ receipt.by = c
    /\ exit[c] = "success" <=> CommandStatus(receipt.status) = "success"
    /\ toolReceipt # Absent
    /\ toolReceipt.whole
    /\ toolReceipt.input = receipt
    /\ toolReceipt.outcome = exit[c]

ExitSealsEvidence ==
    [][\A c \in Captures :
          exit[c] = "none" /\ exit'[c] \in {"success", "findings"} => Sealed(c)']_vars

\* The promise of Custody: whose evidence the directory may hold, what a
\* reader accepts, and what each capture returned.
custodian == IF artifact["manifest"] = Absent THEN Absent
                                              ELSE artifact["manifest"].by

accepted ==
    IF Accepts(artifact, receipt)
    THEN [by |-> receipt.by, outcome |-> CommandStatus(receipt.status)]
    ELSE Absent

Promise == INSTANCE Custody
           WITH owner <- custodian, sealed <- accepted, verdict <- exit

ImplementsCustody == Promise!Spec

\* commands.md: `inspect-capture -o capture -- ./prog arg` writes immutable
\* evidence to `capture/`.  Evidence a capture has sealed is not changed.
ImmutableEvidence ==
    [][(\E c \in Captures : exit[c] \in {"success", "findings"} /\ Sealed(c))
          => UNCHANGED <<artifact, receipt, toolReceipt>>]_vars

\* README.md: the exit status is two when capture cannot produce trustworthy
\* evidence.  A capture that exits 0 or 1 has written every artifact of its
\* own to the end.
TroubleOnFailedWrite ==
    [][\A c \in Captures :
          exit[c] = "none" /\ exit'[c] \in {"success", "findings"} =>
              \A r \in Roles \ {"stdout", "stderr"} :
                  WrittenBy(c, r)' /\ IsWhole(r)']_vars
=============================================================================
