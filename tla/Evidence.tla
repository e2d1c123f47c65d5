------------------------------ MODULE Evidence ------------------------------
(***************************************************************************)
(* What a capture directory holds, and what p101-inspect accepts as        *)
(* evidence: the artifacts, receipt.txt, and verify_capture as a predicate *)
(* over the two.                                                           *)
(*                                                                         *)
(* A file's content is abstracted to who wrote it, whether it was written  *)
(* to the end, and who appended to it afterwards.  A fingerprint (byte     *)
(* count, record count, final newline, FNV-1a) is abstracted to the bytes  *)
(* themselves: two files have one fingerprint exactly when they hold the   *)
(* same bytes.                                                             *)
(***************************************************************************)
EXTENDS Naturals, Sequences

CONSTANTS
    Captures,   \* the invocations of inspect-capture with one -o directory
    Absent      \* what a path that names no file holds

\* The roles verify_capture requires (struct artifact artifacts[]).
Roles == {"manifest", "command", "stdout", "stderr", "resources", "calls",
          "summary"}

\* The order in which write_receipt fingerprints them.
RoleOrder == <<"manifest", "command", "stdout", "stderr", "resources",
               "calls", "summary">>

\* The event logs: every record in them names the run that wrote it.
LogRoles == {"resources", "calls"}

\* How the observed command ended, as waitpid reports it.  The third branch
\* of write_status (raw) needs a wait status that is neither an exit nor a
\* signal, which waiting for termination does not return.
Statuses == {"exit0", "exitN", "signal"}

\* by: the capture that created or truncated the file; whole: its writer
\* closed it without an error; chunks: whose children wrote into it.
Content == [by : Captures, whole : BOOLEAN, chunks : SUBSET Captures]

Torn(c)  == [by |-> c, whole |-> FALSE, chunks |-> {}]
Whole(c) == [by |-> c, whole |-> TRUE,  chunks |-> {}]

\* The bytes of a file.  Two captures of one command in one directory may
\* write the same bytes everywhere but in the manifest, which holds run_id,
\* and in the records of the event logs.
Bytes(role, content) ==
    CASE role = "manifest" -> content
      [] role \in LogRoles -> [whole |-> content.whole,
                               chunks |-> content.chunks]
      [] OTHER             -> [whole |-> content.whole,
                               empty |-> content.chunks = {}]

\* One artifact= line of receipt.txt.
Line(role, content) == [role |-> role, print |-> Bytes(role, content)]

Prints == Content \cup [whole : BOOLEAN, chunks : SUBSET Captures]
                  \cup [whole : BOOLEAN, empty : BOOLEAN]
Lines    == [role : Roles, print : Prints]
Receipts == [by : Captures, status : Statuses, lines : Seq(Lines)]

\* No path that names nothing looks like a file.
ASSUME AbsentAssumption ==
    /\ Absent \notin Content
    /\ Absent \notin Prints
    /\ Absent \notin Captures

-----------------------------------------------------------------------------
\* Mutation: an artifact need only exist.
MutantMatches(files, line) == files[line.role] # Absent

\* verify_artifact: the file exists and its fingerprint is the one recorded.
Matches(files, line) ==
    /\ files[line.role] # Absent
    /\ line.print = Bytes(line.role, files[line.role])

\* verify_capture: no line of the receipt fails, none repeats a role, and
\* every role was observed.  The status line precedes the artifact lines, so
\* a receipt with any of these has it.
Accepts(files, receipt) ==
    /\ receipt # Absent
    /\ \A i \in DOMAIN receipt.lines : Matches(files, receipt.lines[i])
    /\ \A i, j \in DOMAIN receipt.lines :
          receipt.lines[i].role = receipt.lines[j].role => i = j
    /\ \A r \in Roles :
          \E i \in DOMAIN receipt.lines : receipt.lines[i].role = r

\* What verify_capture stores in *command_status.
CommandStatus(status) ==
    CASE status = "exit0"  -> "success"
      [] status = "exitN"  -> "findings"
      [] status = "signal" -> "trouble"

\* p101_observe_status_is_success.
StatusIsSuccess(status) == status = "exit0"
=============================================================================
