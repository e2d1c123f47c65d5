---------------------------- MODULE CaptureProofs ----------------------------
(***************************************************************************)
(* Theorems about inspect-capture, for any set of captures, any outputs    *)
(* and any choice of Lingering: its types, and the safety of its evidence, *)
(* for any number of captures of one directory, by the strengthened        *)
(* invariant IInv; and, without late writers, what its exits promise.      *)
(***************************************************************************)
EXTENDS Capture, EvidenceProofs

-----------------------------------------------------------------------------
(* Types of the helpers.                                                   *)

ControlType ==
    /\ pc \in [Captures -> Stages]
    /\ err \in [Captures -> BOOLEAN]
    /\ exit \in [Captures -> ExitCodes]

ArtifactType == artifact \in [Roles -> Content \cup {Absent}]

\* Going on to a stage keeps the control state well formed.
LEMMA ProceedType ==
    ASSUME TypeOK, NEW c \in Captures, NEW stage \in Stages,
           NEW failed \in BOOLEAN, Proceed(c, stage, failed)
    PROVE  ControlType'
BY DEF TypeOK, Proceed, ControlType

\* So does giving up.
LEMMA GiveUpType ==
    ASSUME TypeOK, NEW c \in Captures, GiveUp(c)
    PROVE  ControlType'
BY DEF TypeOK, GiveUp, ControlType, Stages, ExitCodes

\* And so does checking the error state after a call.
LEMMA CheckedType ==
    ASSUME TypeOK, NEW c \in Captures, NEW stage \in Stages,
           NEW failed \in BOOLEAN, Checked(c, stage, failed)
    PROVE  ControlType'
BY ProceedType, GiveUpType DEF Checked

\* Opening, flushing and creating a file put contents in its role.
LEMMA FileType ==
    ASSUME TypeOK, NEW c \in Captures, NEW role \in Roles, NEW flag \in BOOLEAN,
           \/ Truncated(c, role, flag)
           \/ Flushed(c, role, flag)
           \/ CreateEmptyFile(c, role, flag)
    PROVE  ArtifactType'
<1>1. Torn(c) \in Content /\ Whole(c) \in Content
  BY DEF Torn, Whole, Content
<1> QED
  BY <1>1 DEF TypeOK, ArtifactType, Truncated, Flushed, CreateEmptyFile

-----------------------------------------------------------------------------
(* TypeOK is inductive.                                                    *)

\* The initial state has the types.
LEMMA TypeInit == Init => TypeOK
BY DEF Init, TypeOK, Stages, ChildStates, Statuses, ExitCodes

\* The receipts exist while they are being written; nothing removes them.
FilesOpened ==
    \A c \in Captures :
        /\ pc[c] \in {"fingerprint", "close_receipt", "open_tool_receipt"}
              => receipt # Absent
        /\ pc[c] = "close_tool_receipt" => toolReceipt # Absent

TypeInv == TypeOK /\ FilesOpened

\* What the three actions on receipt.txt put there is a receipt.
LEMMA ReceiptType ==
    ASSUME TypeInv, NEW c \in Captures,
           OpenReceipt(c) \/ FingerprintArtifact(c) \/ CloseReceipt(c)
    PROVE  receipt' \in Receipts \cup {receipt}
<1> USE DEF TypeInv, TypeOK
<1>1. CASE OpenReceipt(c)
  <2>1. [by |-> c, status |-> status[c], lines |-> <<>>] \in Receipts
    BY DEF Receipts
  <2> QED
    BY <1>1, <2>1 DEF OpenReceipt
<1>2. CASE FingerprintArtifact(c)
  <2> DEFINE role == RoleOrder[Len(receipt.lines) + 1]
  <2>1. receipt \in Receipts /\ receipt.lines \in Seq(Lines)
    BY <1>2 DEF Receipts, FingerprintArtifact, FilesOpened
  <2>2. role \in Roles
    BY <1>2, <2>1, RoleOrderType, LenProperties
       DEF FingerprintArtifact, MayFingerprint
  <2>3. ASSUME artifact[role] # Absent
        PROVE  [receipt EXCEPT !.lines = Append(@, Line(role, artifact[role]))] \in Receipts
    <3>1. artifact[role] \in Content
      BY <2>2, <2>3
    <3>2. Append(receipt.lines, Line(role, artifact[role])) \in Seq(Lines)
      BY <2>1, <2>2, <3>1, LineType, AppendProperties
    <3> QED
      BY <2>1, <3>2 DEF Receipts
  <2> QED
    BY <1>2, <2>3 DEF FingerprintArtifact
<1>3. CASE CloseReceipt(c)
  <2>1. receipt \in Receipts /\ receipt.lines \in Seq(Lines)
    BY <1>3 DEF Receipts, CloseReceipt, FilesOpened
  <2>2. \A n \in 0 .. Len(receipt.lines) :
           [receipt EXCEPT !.lines = SubSeq(@, 1, n)] \in Receipts
    <3> TAKE n \in 0 .. Len(receipt.lines)
    <3>1. SubSeq(receipt.lines, 1, n) \in Seq(Lines)
      BY <2>1, SubSeqProperties, LenProperties
    <3> QED
      BY <2>1, <3>1 DEF Receipts
  <2> QED
    BY <1>3, <2>2 DEF CloseReceipt
<1> QED
  BY <1>1, <1>2, <1>3

\* And what the two on tool-receipt.json put there is a shared receipt.
LEMMA ToolReceiptType ==
    ASSUME TypeInv, NEW c \in Captures,
           OpenToolReceipt(c) \/ CloseToolReceipt(c)
    PROVE  /\ toolReceipt' \in ToolReceipts \cup {toolReceipt}
           /\ pc'[c] = "close_tool_receipt" => toolReceipt' \in ToolReceipts
<1> USE DEF TypeInv, TypeOK
<1>1. CASE OpenToolReceipt(c)
  <2> DEFINE outcome == IF StatusIsSuccess(status[c]) THEN "success" ELSE "findings"
             new     == [by |-> c, whole |-> FALSE, input |-> receipt,
                         outcome |-> outcome]
  <2>1. receipt \in Receipts
    BY <1>1 DEF OpenToolReceipt, FilesOpened
  <2>2. outcome \in {"success", "findings"}
    OBVIOUS
  <2> HIDE DEF outcome
  <2>3. new \in ToolReceipts
    BY <2>1, <2>2 DEF ToolReceipts
  <2> QED
    BY <1>1, <2>3 DEF OpenToolReceipt, Proceed, outcome
<1>2. CASE CloseToolReceipt(c)
  BY <1>2 DEF CloseToolReceipt, Proceed, FilesOpened, ToolReceipts
<1> QED
  BY <1>1, <1>2

\* Every step of a capture's own process keeps the types.
LEMMA TypeStep ==
    ASSUME TypeInv, NEW c \in Captures, Step(c)
    PROVE  TypeOK'
<1> USE DEF TypeInv, TypeOK
<1>1. CASE MakeReportPaths(c)
  BY <1>1, CheckedType DEF MakeReportPaths, ControlType, Stages
<1>2. CASE CreateReportDir(c)
  BY <1>2, CheckedType DEF CreateReportDir, ControlType, Stages
<1>3. CASE OpenCommand(c)
  BY <1>3, ProceedType, CheckedType, GiveUpType, FileType
     DEF OpenCommand, ControlType, ArtifactType, Stages, Roles
<1>4. CASE CloseCommand(c)
  BY <1>4, ProceedType, CheckedType, GiveUpType, FileType
     DEF CloseCommand, ControlType, ArtifactType, Stages, Roles
<1>5. CASE OpenManifest(c)
  <2>1. CASE Checked(c, "create_resource_log", TRUE)
    BY <1>5, <2>1, CheckedType, FileType
       DEF OpenManifest, ControlType, ArtifactType, Stages, Roles
  <2>2. CASE ~Checked(c, "create_resource_log", TRUE)
    BY <1>5, <2>2, FileType DEF OpenManifest, ArtifactType, Stages, Roles
  <2> QED
    BY <2>1, <2>2
<1>6. CASE CloseManifest(c)
  BY <1>6, ProceedType, CheckedType, GiveUpType, FileType
     DEF CloseManifest, ControlType, ArtifactType, Stages, Roles
<1>7. CASE CreateResourceLog(c)
  BY <1>7, ProceedType, CheckedType, GiveUpType, FileType
     DEF CreateResourceLog, ControlType, ArtifactType, Stages, Roles
<1>8. CASE CreateCallLog(c)
  BY <1>8, ProceedType, CheckedType, GiveUpType, FileType
     DEF CreateCallLog, ControlType, ArtifactType, Stages, Roles
<1>9. CASE Spawn(c)
  <2>1. CASE UNCHANGED artifact
    BY <1>9, <2>1, ProceedType, GiveUpType
       DEF Spawn, ControlType, Stages, ChildStates, Statuses
  <2>2. ASSUME NEW roles, Redirected(c, roles)
        PROVE  ArtifactType'
    BY <2>2 DEF Redirected, ArtifactType, Whole, Content
  <2>3. CASE \E roles \in {{}, {"stdout"}, {"stdout", "stderr"}} : Redirected(c, roles)
    BY <1>9, <2>2, <2>3, ProceedType, GiveUpType
       DEF Spawn, ControlType, ArtifactType, Stages, ChildStates, Statuses
  <2> QED
    BY <1>9, <2>1, <2>3 DEF Spawn
<1>10. CASE WaitCommand(c)
  BY <1>10, CheckedType DEF WaitCommand, ControlType, Stages
<1>11. CASE OpenSummary(c)
  BY <1>11, ProceedType, CheckedType, GiveUpType, FileType
     DEF OpenSummary, ControlType, ArtifactType, Stages, Roles
<1>12. CASE CloseSummary(c)
  BY <1>12, ProceedType, CheckedType, GiveUpType, FileType
     DEF CloseSummary, ControlType, ArtifactType, Stages, Roles
<1>13. CASE OpenReceipt(c)
  BY <1>13, ProceedType, ReceiptType DEF OpenReceipt, ControlType, Stages
<1>14. CASE FingerprintArtifact(c)
  BY <1>14, ProceedType, ReceiptType DEF FingerprintArtifact, ControlType, Stages
<1>15. CASE FingerprintsDone(c)
  BY <1>15, ProceedType DEF FingerprintsDone, ControlType, Stages
<1>16. CASE CloseReceipt(c)
  BY <1>16, ProceedType, ReceiptType DEF CloseReceipt, ControlType, Stages
<1>17. CASE OpenToolReceipt(c)
  <2>1. ControlType'
    BY <1>17, ProceedType DEF OpenToolReceipt, Stages
  <2> QED
    BY <1>17, <2>1, ToolReceiptType DEF OpenToolReceipt, ControlType
<1>18. CASE CloseToolReceipt(c)
  <2>1. ControlType'
    BY <1>18, ProceedType DEF CloseToolReceipt, Stages
  <2> QED
    BY <1>18, <2>1, ToolReceiptType DEF CloseToolReceipt, ControlType
<1>19. CASE FinishCapture(c)
  BY <1>19, GiveUpType DEF FinishCapture, ControlType, Stages, ExitCodes
<1> QED
  BY <1>1, <1>2, <1>3, <1>4, <1>5, <1>6, <1>7, <1>8, <1>9, <1>10, <1>11, <1>12, <1>13, <1>14, <1>15, <1>16, <1>17, <1>18, <1>19 DEF Step

\* The observed child and a kill keep the types.
LEMMA TypeChild ==
    ASSUME TypeInv, NEW c \in Captures, Child(c)
    PROVE  TypeOK'
<1> USE DEF TypeInv, TypeOK
<1>1. CASE \E role \in Outputs : ChildWrites(c, role)
  <2>1. PICK role \in Outputs : ChildWrites(c, role)
    BY <1>1
  <2>2. role \in Roles /\ artifact[role] \in Content
    BY <2>1, OutputsAssumption DEF ChildWrites, LogRoles, Roles
  <2>3. [artifact[role] EXCEPT !.chunks = @ \cup {c}] \in Content
    BY <2>2 DEF Content
  <2> QED
    BY <2>1, <2>2, <2>3 DEF ChildWrites
<1>2. CASE ChildExits(c)
  BY <1>2 DEF ChildExits, ChildStates
<1> QED
  BY <1>1, <1>2 DEF Child

\* A kill keeps the types.
LEMMA TypeCrash ==
    ASSUME TypeInv, NEW c \in Captures, Crash(c)
    PROVE  TypeOK'
BY DEF TypeInv, TypeOK, Crash, Stages, ChildStates

-----------------------------------------------------------------------------
(* The order of the stages.                                                *)

\* Where a stage may lead, besides the end of the capture.
Flow ==
    [make_report_paths |-> {"create_report_dir"},
     create_report_dir |-> {"open_command"},
     open_command |-> {"close_command", "open_manifest"},
     close_command |-> {"open_manifest"},
     open_manifest |-> {"close_manifest"},
     close_manifest |-> {"create_resource_log"},
     create_resource_log |-> {"create_call_log"},
     create_call_log |-> {"spawn"},
     spawn |-> {"wait"},
     wait |-> {"open_summary"},
     open_summary |-> {"close_summary", "open_receipt"},
     close_summary |-> {"open_receipt"},
     open_receipt |-> {"fingerprint", "finish"},
     fingerprint |-> {"fingerprint", "close_receipt"},
     close_receipt |-> {"open_tool_receipt", "finish"},
     open_tool_receipt |-> {"close_tool_receipt", "finish"},
     close_tool_receipt |-> {"finish"},
     finish |-> {}]
\* A step moves its own capture along Flow or ends it, and moves no other.
LEMMA StageFlow ==
    ASSUME TypeOK, NEW c \in Captures, Step(c) \/ Child(c) \/ Crash(c)
    PROVE  /\ \/ pc'[c] = pc[c]
              \/ pc'[c] \in {"done", "crashed"}
              \/ pc[c] \in DOMAIN Flow /\ pc'[c] \in Flow[pc[c]]
           /\ \A d \in Captures \ {c} : pc'[d] = pc[d]
<1> USE DEF TypeOK, Flow, Checked, Proceed, GiveUp
<1>1. CASE MakeReportPaths(c)
  BY <1>1 DEF MakeReportPaths
<1>2. CASE CreateReportDir(c)
  BY <1>2 DEF CreateReportDir
<1>3. CASE OpenCommand(c)
  BY <1>3 DEF OpenCommand
<1>4. CASE CloseCommand(c)
  BY <1>4 DEF CloseCommand
<1>5. CASE OpenManifest(c)
  <2>1. \/ pc' = [pc EXCEPT ![c] = "close_manifest"]
        \/ pc' = [pc EXCEPT ![c] = "done"]
    BY <1>5, Zenon DEF OpenManifest
  <2> QED
    BY <1>5, <2>1 DEF OpenManifest
<1>6. CASE CloseManifest(c)
  BY <1>6 DEF CloseManifest
<1>7. CASE CreateResourceLog(c)
  BY <1>7 DEF CreateResourceLog
<1>8. CASE CreateCallLog(c)
  BY <1>8 DEF CreateCallLog
<1>9. CASE Spawn(c)
  BY <1>9 DEF Spawn
<1>10. CASE WaitCommand(c)
  BY <1>10 DEF WaitCommand
<1>11. CASE OpenSummary(c)
  BY <1>11 DEF OpenSummary
<1>12. CASE CloseSummary(c)
  BY <1>12 DEF CloseSummary
<1>13. CASE OpenReceipt(c)
  BY <1>13 DEF OpenReceipt
<1>14. CASE FingerprintArtifact(c)
  BY <1>14 DEF FingerprintArtifact
<1>15. CASE FingerprintsDone(c)
  BY <1>15 DEF FingerprintsDone
<1>16. CASE CloseReceipt(c)
  BY <1>16 DEF CloseReceipt
<1>17. CASE OpenToolReceipt(c)
  BY <1>17 DEF OpenToolReceipt
<1>18. CASE CloseToolReceipt(c)
  BY <1>18 DEF CloseToolReceipt
<1>19. CASE FinishCapture(c)
  BY <1>19 DEF FinishCapture
<1>20. CASE Child(c)
  BY <1>20 DEF Child, ChildWrites, ChildExits
<1>21. CASE Crash(c)
  BY <1>21 DEF Crash
<1> QED
  BY <1>1, <1>2, <1>3, <1>4, <1>5, <1>6, <1>7, <1>8, <1>9, <1>10, <1>11, <1>12, <1>13, <1>14, <1>15, <1>16, <1>17, <1>18, <1>19, <1>20, <1>21 DEF Step

\* A file that was opened stays in the directory.
LEMMA FilesStep ==
    ASSUME TypeInv, NEW c \in Captures, Step(c) \/ Child(c) \/ Crash(c)
    PROVE  FilesOpened'
<1> DEFINE Writing  == {"fingerprint", "close_receipt", "open_tool_receipt"}
<1>1. /\ receipt # Absent => receipt' # Absent
      /\ toolReceipt # Absent => toolReceipt' # Absent
  <2>1. receipt' # receipt =>
            OpenReceipt(c) \/ FingerprintArtifact(c) \/ CloseReceipt(c)
    BY DEF Step, Child, Crash, MakeReportPaths, CreateReportDir, OpenCommand,
           CloseCommand, OpenManifest, CloseManifest, CreateResourceLog,
           CreateCallLog, Spawn, WaitCommand, OpenSummary, CloseSummary,
           FingerprintsDone, OpenToolReceipt, CloseToolReceipt, FinishCapture,
           ChildWrites, ChildExits
  <2>2. toolReceipt' # toolReceipt => OpenToolReceipt(c) \/ CloseToolReceipt(c)
    BY DEF Step, Child, Crash, MakeReportPaths, CreateReportDir, OpenCommand,
           CloseCommand, OpenManifest, CloseManifest, CreateResourceLog,
           CreateCallLog, Spawn, WaitCommand, OpenSummary, CloseSummary,
           OpenReceipt, FingerprintArtifact, FingerprintsDone, CloseReceipt,
           FinishCapture, ChildWrites, ChildExits
  <2> QED
    BY <2>1, <2>2, ReceiptType, ToolReceiptType, AbsentReceiptAssumption
<1>2. \A d \in Captures \ {c} : pc'[d] = pc[d]
  BY StageFlow DEF TypeInv
<1>3. pc'[c] \in Writing => pc[c] \in Writing \/ receipt' # Absent
  <2>1. CASE OpenReceipt(c)
    <3>1. [by |-> c, status |-> status[c], lines |-> <<>>] \in Receipts
      BY DEF TypeInv, TypeOK, Receipts
    <3> QED
      BY <2>1, <3>1, AbsentReceiptAssumption
         DEF OpenReceipt, Proceed, TypeInv, TypeOK
  <2>2. CASE pc[c] # "open_receipt"
    BY <2>2, StageFlow DEF TypeInv, TypeOK, Stages, Flow
  <2>3. CASE pc[c] = "open_receipt" /\ ~OpenReceipt(c)
    <3>1. pc'[c] \in {"open_receipt", "crashed"}
      BY <2>3 DEF TypeInv, TypeOK, Step, Child, Crash, MakeReportPaths,
           CreateReportDir, OpenCommand, CloseCommand, OpenManifest,
           CloseManifest, CreateResourceLog, CreateCallLog, Spawn,
           WaitCommand, OpenSummary, CloseSummary, FingerprintArtifact,
           FingerprintsDone, CloseReceipt, OpenToolReceipt, CloseToolReceipt,
           FinishCapture, ChildWrites, ChildExits
    <3> QED
      BY <3>1
  <2> QED
    BY <2>1, <2>2, <2>3
<1>4. pc'[c] = "close_tool_receipt" => toolReceipt' # Absent
  <2>1. CASE OpenToolReceipt(c)
    BY <2>1, ToolReceiptType, AbsentReceiptAssumption
  <2>2. CASE pc[c] = "close_tool_receipt"
    BY <2>2, <1>1 DEF TypeInv, FilesOpened
  <2>3. CASE pc[c] \notin {"open_tool_receipt", "close_tool_receipt"}
    BY <2>3, StageFlow DEF TypeInv, TypeOK, Stages, Flow
  <2>4. CASE pc[c] = "open_tool_receipt" /\ ~OpenToolReceipt(c)
    <3>1. pc'[c] \in {"open_tool_receipt", "crashed"}
      BY <2>4 DEF TypeInv, TypeOK, Step, Child, Crash, MakeReportPaths,
           CreateReportDir, OpenCommand, CloseCommand, OpenManifest,
           CloseManifest, CreateResourceLog, CreateCallLog, Spawn,
           WaitCommand, OpenSummary, CloseSummary, OpenReceipt,
           FingerprintArtifact, FingerprintsDone, CloseReceipt,
           CloseToolReceipt, FinishCapture, ChildWrites, ChildExits
    <3> QED
      BY <3>1
  <2> QED
    BY <2>1, <2>2, <2>3, <2>4
<1> QED
  BY <1>1, <1>2, <1>3, <1>4 DEF TypeInv, FilesOpened

\* The type invariant, with what makes it inductive.
THEOREM TypeInvariance == Spec => []TypeInv
<1>1. Init => TypeInv
  BY TypeInit DEF Init, TypeInv, FilesOpened
<1>2. TypeInv /\ [Next]_vars => TypeInv'
  <2> SUFFICES ASSUME TypeInv, [Next]_vars
               PROVE  TypeInv'
    OBVIOUS
  <2>1. CASE \E c \in Captures : Step(c) \/ Child(c) \/ Crash(c)
    BY <2>1, TypeStep, TypeChild, TypeCrash, FilesStep DEF TypeInv
  <2>2. CASE UNCHANGED vars
    BY <2>2 DEF vars, TypeInv, TypeOK, FilesOpened
  <2> QED
    BY <2>1, <2>2 DEF Next, Terminating
<1> QED
  BY <1>1, <1>2, PTL DEF Spec

\* Every variable keeps its type in every behaviour of any captures.
THEOREM TypeCorrect == Spec => []TypeOK
BY TypeInvariance, PTL DEF TypeInv

-----------------------------------------------------------------------------
(* The safety of the evidence.                                             *)

\* The stages that have a file in place, from the last to the first.
Sealing  == {"fingerprint", "close_receipt", "open_tool_receipt",
             "close_tool_receipt", "finish"}
Spawned  == {"wait", "open_summary", "close_summary", "open_receipt"} \cup Sealing
Logged   == {"spawn"} \cup Spawned
Recorded == {"create_resource_log", "create_call_log"} \cup Logged

\* Captures of one directory do not overlap.
Exclusive == \A c, d \in Captures : Active(c) /\ Active(d) => c = d

\* What a capture has written by the time it is at a stage.
ManifestAt(c) ==
    /\ pc[c] = "close_manifest" => WrittenBy(c, "manifest")
    /\ pc[c] \in Recorded => WrittenBy(c, "manifest") /\ IsWhole("manifest")

LogsAt(c) ==
    /\ pc[c] = "create_call_log" /\ ~err[c] => WrittenBy(c, "resources")
    /\ pc[c] \in Logged => WrittenBy(c, "resources") /\ WrittenBy(c, "calls")

ChildAt(c) ==
    pc[c] \in Spawned =>
        \/ child[c] = "unstarted" /\ status[c] = "exitN"
        \/ /\ pc[c] = "wait" \/ child[c] # "running"
           /\ WrittenBy(c, "stdout") /\ WrittenBy(c, "stderr")

SummaryAt(c) ==
    /\ pc[c] = "close_summary" => WrittenBy(c, "summary")
    /\ pc[c] \in {"open_receipt"} \cup Sealing /\ ~err[c] =>
          WrittenBy(c, "summary") /\ IsWhole("summary")

Files ==
    \A c \in Captures : ManifestAt(c) /\ LogsAt(c) /\ ChildAt(c) /\ SummaryAt(c)

\* The files nobody writes through a buffer are never torn.
OutputsWhole ==
    \A r \in {"stdout", "stderr", "resources", "calls"} :
        artifact[r] # Absent => IsWhole(r)

\* Whose receipt.txt is, and what its lines say.
ReceiptAt(c) ==
    /\ receipt # Absent /\ receipt.by = c => pc[c] \in Sealing \cup {"done", "crashed"}
    /\ pc[c] \in Sealing \ {"finish"} =>
          /\ receipt # Absent
          /\ receipt.by = c
          /\ receipt.status = status[c]

LinesOrdered(lines) ==
    /\ Len(lines) <= 7
    /\ \A i \in 1 .. Len(lines) : lines[i].role = RoleOrder[i]

ReceiptLines ==
    receipt # Absent =>
        /\ LinesOrdered(receipt.lines)
        /\ \A i \in 1 .. Len(receipt.lines) :
              /\ i = 1 => receipt.lines[i].print.by = receipt.by
              /\ i # 2 => receipt.lines[i].print.whole

\* As long as the manifest is the receipt's, so is everything observed.
Custodial ==
    receipt # Absent /\ WrittenBy(receipt.by, "manifest") =>
        /\ WrittenBy(receipt.by, "resources") /\ WrittenBy(receipt.by, "calls")
        /\ receipt.lines # <<>> => WrittenBy(receipt.by, "summary")
        /\ receipt.status = "exit0" =>
              WrittenBy(receipt.by, "stdout") /\ WrittenBy(receipt.by, "stderr")

\* The shared receipt comes after all seven lines.
Complete(c) ==
    /\ pc[c] = "close_receipt" /\ ~err[c] => Len(receipt.lines) = 7
    /\ pc[c] = "open_tool_receipt" => Len(receipt.lines) = 7

ToolReceiptBinds ==
    toolReceipt # Absent =>
        /\ Len(toolReceipt.input.lines) = 7
        /\ LinesOrdered(toolReceipt.input.lines)
        /\ toolReceipt.outcome = "success" <=> toolReceipt.input.status = "exit0"
        /\ toolReceipt.by = toolReceipt.input.by

IInv ==
    /\ TypeInv
    /\ Exclusive
    /\ Files
    /\ OutputsWhole
    /\ \A c \in Captures : ReceiptAt(c) /\ Complete(c)
    /\ ReceiptLines
    /\ Custodial
    /\ ToolReceiptBinds

-----------------------------------------------------------------------------
(* Two facts every part of the invariant rests on.                         *)

\* While one capture takes a step, no other has begun or is under way.
LEMMA Alone ==
    ASSUME TypeInv, Exclusive, NEW c \in Captures, Step(c)
    PROVE  \A d \in Captures \ {c} : Idle(d) /\ pc'[d] = pc[d]
<1>1. CASE MakeReportPaths(c)
  BY <1>1, StageFlow DEF MakeReportPaths, TypeInv
<1>2. CASE ~MakeReportPaths(c)
  <2>1. Active(c)
    BY <1>2 DEF Step, Active, Idle, CreateReportDir, OpenCommand, CloseCommand,
       OpenManifest, CloseManifest, CreateResourceLog, CreateCallLog, Spawn,
       WaitCommand, OpenSummary, CloseSummary, OpenReceipt,
       FingerprintArtifact, FingerprintsDone, CloseReceipt, OpenToolReceipt,
       CloseToolReceipt, FinishCapture
  <2> QED
    BY <2>1, StageFlow DEF Exclusive, Active, TypeInv
<1> QED
  BY <1>1, <1>2

\* A child changes neither who made a file nor whether it is whole.
LEMMA ChildKeeps ==
    ASSUME TypeInv, NEW c \in Captures, Child(c)
    PROVE  /\ UNCHANGED <<pc, err, exit, receipt, toolReceipt>>
           /\ \A r \in Roles : /\ (artifact[r] = Absent) = (artifact'[r] = Absent)
                              /\ artifact'[r].by = artifact[r].by
                              /\ artifact'[r].whole = artifact[r].whole
<1>1. CASE \E role \in Outputs : ChildWrites(c, role)
  <2>1. PICK role \in Outputs : ChildWrites(c, role)
    BY <1>1
  <2>2. role \in Roles /\ artifact[role] \in Content
    BY <2>1, OutputsAssumption
       DEF ChildWrites, LogRoles, Roles, TypeInv, TypeOK
  <2>3. [artifact[role] EXCEPT !.chunks = @ \cup {c}] \in Content
    BY <2>2 DEF Content
  <2>4. artifact'[role] = [artifact[role] EXCEPT !.chunks = @ \cup {c}]
    BY <2>1, <2>2 DEF ChildWrites, TypeInv, TypeOK
  <2>5. \A r \in Roles \ {role} : artifact'[r] = artifact[r]
    BY <2>1 DEF ChildWrites, TypeInv, TypeOK
  <2>6. /\ artifact'[role].by = artifact[role].by
        /\ artifact'[role].whole = artifact[role].whole
        /\ artifact'[role] # Absent
    BY <2>2, <2>3, <2>4, AbsentAssumption DEF Content
  <2> QED
    BY <2>1, <2>2, <2>5, <2>6 DEF ChildWrites
<1>2. CASE ChildExits(c)
  BY <1>2 DEF ChildExits
<1> QED
  BY <1>1, <1>2 DEF Child

-----------------------------------------------------------------------------
(* Exclusive and Files are kept.                                           *)

\* No step gives a second capture the directory.
LEMMA ExclusiveStep ==
    ASSUME TypeInv, Exclusive, NEW c \in Captures,
           Step(c) \/ Child(c) \/ Crash(c)
    PROVE  Exclusive'
<1>1. CASE Step(c)
  BY <1>1, Alone DEF Exclusive, Active, Idle
<1>2. CASE Child(c)
  BY <1>2, ChildKeeps DEF Exclusive, Active, Idle
<1>3. CASE Crash(c)
  BY <1>3 DEF Crash, Exclusive, Active, Idle, TypeInv, TypeOK
<1> QED
  BY <1>1, <1>2, <1>3

\* Whole files of a capture are contents it made.
LEMMA NewContents ==
    ASSUME NEW c \in Captures
    PROVE  /\ Torn(c) \in Content /\ Torn(c).by = c
           /\ Whole(c) \in Content /\ Whole(c).by = c /\ Whole(c).whole
           /\ Torn(c) # Absent /\ Whole(c) # Absent
<1>1. Torn(c) \in Content /\ Whole(c) \in Content
  BY DEF Torn, Whole, Content
<1>2. Torn(c).by = c /\ Whole(c).by = c /\ Whole(c).whole
  BY DEF Torn, Whole
<1> QED
  BY <1>1, <1>2, AbsentAssumption

\* A step leaves its own capture's files as the stage it reaches needs them.
LEMMA FilesOwnStep ==
    ASSUME TypeInv, Files, NEW c \in Captures, Step(c)
    PROVE  ManifestAt(c)' /\ LogsAt(c)' /\ ChildAt(c)' /\ SummaryAt(c)'
<1> USE NewContents
    DEF TypeInv, TypeOK, Files, ManifestAt, LogsAt, ChildAt, SummaryAt,
        WrittenBy, IsWhole, Recorded, Logged, Spawned, Sealing, Roles,
        Proceed, Checked, GiveUp, Truncated, Flushed, CreateEmptyFile,
        Redirected
<1>1. CASE MakeReportPaths(c)
  BY <1>1 DEF MakeReportPaths
<1>2. CASE CreateReportDir(c)
  BY <1>2 DEF CreateReportDir
<1>3. CASE OpenCommand(c)
  BY <1>3 DEF OpenCommand
<1>4. CASE CloseCommand(c)
  BY <1>4 DEF CloseCommand
<1>5. CASE OpenManifest(c)
  BY <1>5 DEF OpenManifest
<1>6. CASE CloseManifest(c)
  BY <1>6 DEF CloseManifest
<1>7. CASE CreateResourceLog(c)
  BY <1>7 DEF CreateResourceLog
<1>8. CASE CreateCallLog(c)
  BY <1>8 DEF CreateCallLog
<1>9. CASE Spawn(c)
  BY <1>9 DEF Spawn
<1>10. CASE WaitCommand(c)
  BY <1>10 DEF WaitCommand
<1>11. CASE OpenSummary(c)
  BY <1>11 DEF OpenSummary
<1>12. CASE CloseSummary(c)
  BY <1>12 DEF CloseSummary
<1>13. CASE OpenReceipt(c)
  BY <1>13 DEF OpenReceipt
<1>14. CASE FingerprintArtifact(c)
  BY <1>14 DEF FingerprintArtifact
<1>15. CASE FingerprintsDone(c)
  BY <1>15 DEF FingerprintsDone
<1>16. CASE CloseReceipt(c)
  BY <1>16 DEF CloseReceipt
<1>17. CASE OpenToolReceipt(c)
  BY <1>17 DEF OpenToolReceipt
<1>18. CASE CloseToolReceipt(c)
  BY <1>18 DEF CloseToolReceipt
<1>19. CASE FinishCapture(c)
  BY <1>19 DEF FinishCapture
<1> QED
  BY <1>1, <1>2, <1>3, <1>4, <1>5, <1>6, <1>7, <1>8, <1>9, <1>10, <1>11, <1>12, <1>13, <1>14, <1>15, <1>16, <1>17, <1>18, <1>19 DEF Step

\* Every step keeps what every capture has written by the stage it is at.
LEMMA FilesKept ==
    ASSUME TypeInv, Exclusive, Files, NEW c \in Captures,
           Step(c) \/ Child(c) \/ Crash(c)
    PROVE  Files'
<1>1. CASE Step(c)
  <2>1. ASSUME NEW d \in Captures, d # c
        PROVE  ManifestAt(d)' /\ LogsAt(d)' /\ ChildAt(d)' /\ SummaryAt(d)'
    BY <1>1, <2>1, Alone
       DEF Idle, ManifestAt, LogsAt, ChildAt, SummaryAt, Recorded, Logged,
           Spawned, Sealing
  <2> QED
    BY <1>1, <2>1, FilesOwnStep DEF Files
<1>2. CASE Child(c)
  <2>1. ASSUME NEW d \in Captures, NEW r \in Roles
        PROVE  /\ WrittenBy(d, r) => WrittenBy(d, r)'
               /\ IsWhole(r) => IsWhole(r)'
    BY <1>2, ChildKeeps DEF WrittenBy, IsWhole
  <2>2. {"manifest", "resources", "calls", "summary", "stdout", "stderr"}
            \subseteq Roles
    BY DEF Roles
  <2>3. ASSUME NEW d \in Captures
        PROVE  /\ child'[d] = "running" => child[d] = "running"
               /\ child[d] = "unstarted" =>
                    child'[d] = "unstarted" /\ status'[d] = status[d]
    BY <1>2 DEF Child, ChildWrites, ChildExits, TypeInv, TypeOK
  <2> QED
    BY <1>2, <2>1, <2>2, <2>3, ChildKeeps
       DEF Files, ManifestAt, LogsAt, ChildAt, SummaryAt
<1>3. CASE Crash(c)
  BY <1>3
     DEF Crash, TypeInv, TypeOK, Files, ManifestAt, LogsAt, ChildAt, SummaryAt,
         WrittenBy, IsWhole, Recorded, Logged, Spawned, Sealing
<1> QED
  BY <1>1, <1>2, <1>3

-----------------------------------------------------------------------------
(* Files written without a buffer are whole.                               *)

\* stdout and stderr stay whole files from the spawn on.
LEMMA OutputsWholeStep ==
    ASSUME TypeInv, OutputsWhole, NEW c \in Captures,
           Step(c) \/ Child(c) \/ Crash(c)
    PROVE  OutputsWhole'
<1>1. CASE Child(c)
  BY <1>1, ChildKeeps DEF OutputsWhole, IsWhole, Roles
<1>2. CASE Step(c) \/ Crash(c)
  <2>1. ASSUME NEW r \in {"stdout", "stderr", "resources", "calls"}
        PROVE  artifact'[r] = artifact[r] \/ artifact'[r] = Whole(c)
    <3> USE DEF TypeInv, TypeOK, Roles, Truncated, Flushed, CreateEmptyFile
    <3>1. CASE OpenCommand(c)
      BY <3>1 DEF OpenCommand
    <3>2. CASE CloseCommand(c)
      BY <3>2 DEF CloseCommand
    <3>3. CASE OpenManifest(c)
      BY <3>3 DEF OpenManifest
    <3>4. CASE CloseManifest(c)
      BY <3>4 DEF CloseManifest
    <3>5. CASE CreateResourceLog(c)
      BY <3>5 DEF CreateResourceLog
    <3>6. CASE CreateCallLog(c)
      BY <3>6 DEF CreateCallLog
    <3>7. CASE Spawn(c)
      BY <3>7 DEF Spawn, Redirected
    <3>8. CASE OpenSummary(c)
      BY <3>8 DEF OpenSummary
    <3>9. CASE CloseSummary(c)
      BY <3>9 DEF CloseSummary
    <3>10. CASE UNCHANGED artifact
      BY <3>10
    <3> QED
      BY <1>2, <3>1, <3>2, <3>3, <3>4, <3>5, <3>6, <3>7, <3>8, <3>9, <3>10
         DEF Step, Crash, MakeReportPaths, CreateReportDir, WaitCommand, OpenReceipt,
             FingerprintArtifact, FingerprintsDone, CloseReceipt,
             OpenToolReceipt, CloseToolReceipt, FinishCapture
  <2> QED
    BY <2>1, NewContents DEF OutputsWhole, IsWhole
<1> QED
  BY <1>1, <1>2

-----------------------------------------------------------------------------
(* The receipts.                                                           *)

\* A child and a kill leave the receipts alone.
LEMMA ReceiptsKept ==
    ASSUME TypeInv, NEW c \in Captures, Child(c) \/ Crash(c)
    PROVE  UNCHANGED <<receipt, toolReceipt>>
BY DEF Child, ChildWrites, ChildExits, Crash

\* Reading back a line that was appended, or a prefix.
LEMMA AppendedLines ==
    ASSUME NEW lines \in Seq(Lines), NEW line \in Lines
    PROVE  /\ Append(lines, line) \in Seq(Lines)
           /\ Len(Append(lines, line)) = Len(lines) + 1
           /\ \A i \in 1 .. Len(lines) : Append(lines, line)[i] = lines[i]
           /\ Append(lines, line)[Len(lines) + 1] = line
BY AppendProperties

\* A prefix of the lines reads back as the lines it keeps.
LEMMA PrefixLines ==
    ASSUME NEW lines \in Seq(Lines), NEW n \in 0 .. Len(lines)
    PROVE  /\ SubSeq(lines, 1, n) \in Seq(Lines)
           /\ Len(SubSeq(lines, 1, n)) = n
           /\ \A i \in 1 .. n : SubSeq(lines, 1, n)[i] = lines[i]
<1>1. n \in Nat /\ \A i \in 1 .. n : lines[i] \in Lines
  BY LenProperties
<1> QED
  BY <1>1, SubSeqProperties

\* receipt.txt changes hands only when it is opened.
LEMMA ReceiptChanges ==
    ASSUME TypeInv, NEW c \in Captures, Step(c)
    PROVE  \/ UNCHANGED receipt
           \/ OpenReceipt(c) /\ receipt' = [by |-> c, status |-> status[c], lines |-> <<>>]
           \/ FingerprintArtifact(c) \/ CloseReceipt(c)
BY DEF Step, OpenReceipt, MakeReportPaths, CreateReportDir, OpenCommand, CloseCommand,
       OpenManifest, CloseManifest, CreateResourceLog, CreateCallLog, Spawn,
       WaitCommand, OpenSummary, CloseSummary, FingerprintsDone,
       OpenToolReceipt, CloseToolReceipt, FinishCapture

\* While it is written, receipt.txt keeps its owner and its status, and grows
\* by the line of the next role or is cut to a prefix.
LEMMA ReceiptGrows ==
    ASSUME TypeInv, NEW c \in Captures, FingerprintArtifact(c)
    PROVE  /\ receipt # Absent /\ receipt' # Absent
           /\ receipt \in Receipts
           /\ receipt'.by = receipt.by /\ receipt'.status = receipt.status
           /\ \/ receipt'.lines = receipt.lines
              \/ LET role == RoleOrder[Len(receipt.lines) + 1] IN
                 /\ ~err[c] /\ Len(receipt.lines) < 7
                 /\ role \in Roles /\ artifact[role] \in Content
                 /\ receipt'.lines = Append(receipt.lines, Line(role, artifact[role]))
<1>1. receipt \in Receipts /\ receipt # Absent
  BY DEF FingerprintArtifact, TypeInv, TypeOK, FilesOpened
<1>2. Len(receipt.lines) \in Nat
  BY <1>1, LenProperties DEF Receipts
<1> DEFINE role == RoleOrder[Len(receipt.lines) + 1]
<1>3. ~err[c] /\ Len(receipt.lines) < 7 /\ role \in Roles
  BY <1>2, RoleOrderType DEF FingerprintArtifact, MayFingerprint
<1>4. CASE receipt' = receipt
  BY <1>1, <1>4
<1>5. CASE /\ artifact[role] # Absent
           /\ receipt' = [receipt EXCEPT !.lines = Append(@, Line(role, artifact[role]))]
  <2>1. artifact[role] \in Content
    BY <1>3, <1>5 DEF TypeInv, TypeOK
  <2>2. receipt' # Absent
    BY <1>1, ReceiptType, AbsentReceiptAssumption
  <2> HIDE DEF role
  <2>3. /\ receipt'.by = receipt.by
        /\ receipt'.status = receipt.status
        /\ receipt'.lines = Append(receipt.lines, Line(role, artifact[role]))
    BY <1>1, <1>5 DEF Receipts
  <2> QED
    BY <1>1, <1>3, <2>1, <2>2, <2>3 DEF role
<1> QED
  BY <1>4, <1>5 DEF FingerprintArtifact

\* Outside the fingerprinting loop the lines only lose their end.
LEMMA ReceiptCut ==
    ASSUME TypeInv, NEW c \in Captures, CloseReceipt(c)
    PROVE  /\ receipt # Absent /\ receipt' # Absent
           /\ receipt \in Receipts
           /\ receipt'.by = receipt.by /\ receipt'.status = receipt.status
           /\ \/ receipt'.lines = receipt.lines
              \/ /\ pc'[c] = "finish"
                 /\ \E n \in 0 .. Len(receipt.lines) :
                       receipt'.lines = SubSeq(receipt.lines, 1, n)
<1>1. receipt \in Receipts /\ receipt # Absent
  BY DEF CloseReceipt, TypeInv, TypeOK, FilesOpened
<1>2. receipt' # Absent
  BY <1>1, ReceiptType, AbsentReceiptAssumption
<1>3. CASE receipt' = receipt
  BY <1>1, <1>3
<1>4. CASE pc'[c] = "finish" /\ \E n \in 0 .. Len(receipt.lines) :
              receipt' = [receipt EXCEPT !.lines = SubSeq(@, 1, n)]
  BY <1>1, <1>2, <1>4 DEF Receipts
<1> QED
  BY <1>3, <1>4 DEF CloseReceipt, Proceed, TypeInv, TypeOK

\* A step keeps what its own capture knows of receipt.txt.
LEMMA ReceiptAtOwn ==
    ASSUME TypeInv, NEW c \in Captures, ReceiptAt(c), Step(c)
    PROVE  ReceiptAt(c)'
<1> USE DEF TypeInv, TypeOK, ReceiptAt, Sealing, Proceed, Checked, GiveUp
<1>1. CASE MakeReportPaths(c)
  BY <1>1 DEF MakeReportPaths
<1>2. CASE CreateReportDir(c)
  BY <1>2 DEF CreateReportDir
<1>3. CASE OpenCommand(c)
  BY <1>3 DEF OpenCommand
<1>4. CASE CloseCommand(c)
  BY <1>4 DEF CloseCommand
<1>5. CASE OpenManifest(c)
  BY <1>5 DEF OpenManifest
<1>6. CASE CloseManifest(c)
  BY <1>6 DEF CloseManifest
<1>7. CASE CreateResourceLog(c)
  BY <1>7 DEF CreateResourceLog
<1>8. CASE CreateCallLog(c)
  BY <1>8 DEF CreateCallLog
<1>9. CASE Spawn(c)
  BY <1>9 DEF Spawn
<1>10. CASE WaitCommand(c)
  BY <1>10 DEF WaitCommand
<1>11. CASE OpenSummary(c)
  BY <1>11 DEF OpenSummary
<1>12. CASE CloseSummary(c)
  BY <1>12 DEF CloseSummary
<1>13. CASE OpenReceipt(c)
  <2>1. CASE receipt' = receipt /\ Proceed(c, "finish", TRUE)
    BY <1>13, <2>1 DEF OpenReceipt
  <2>2. CASE receipt' = [by |-> c, status |-> status[c], lines |-> <<>>]
    <3>1. [by |-> c, status |-> status[c], lines |-> <<>>] \in Receipts
      BY DEF Receipts
    <3>2. receipt'.by = c /\ receipt'.status = status[c] /\ receipt' # Absent
      BY <2>2, <3>1, AbsentReceiptAssumption
    <3> QED
      BY <1>13, <3>2 DEF OpenReceipt
  <2> QED
    BY <1>13, <2>1, <2>2 DEF OpenReceipt
<1>14. CASE FingerprintArtifact(c)
  BY <1>14, ReceiptGrows DEF FingerprintArtifact
<1>15. CASE FingerprintsDone(c)
  BY <1>15 DEF FingerprintsDone
<1>16. CASE CloseReceipt(c)
  BY <1>16, ReceiptCut DEF CloseReceipt
<1>17. CASE OpenToolReceipt(c)
  BY <1>17 DEF OpenToolReceipt
<1>18. CASE CloseToolReceipt(c)
  BY <1>18 DEF CloseToolReceipt
<1>19. CASE FinishCapture(c)
  BY <1>19 DEF FinishCapture
<1> QED
  BY <1>1, <1>2, <1>3, <1>4, <1>5, <1>6, <1>7, <1>8, <1>9, <1>10, <1>11, <1>12, <1>13, <1>14, <1>15, <1>16, <1>17, <1>18, <1>19 DEF Step

\* Every step keeps what every capture knows of receipt.txt.
LEMMA ReceiptAtStep ==
    ASSUME TypeInv, Exclusive, Files, NEW c \in Captures,
           Step(c) \/ Child(c) \/ Crash(c),
           \A d \in Captures : ReceiptAt(d)
    PROVE  \A d \in Captures : ReceiptAt(d)'
<1>1. CASE Step(c)
  <2>1. ReceiptAt(c)'
    BY <1>1, ReceiptAtOwn
  <2>2. ASSUME NEW d \in Captures, d # c
        PROVE  ReceiptAt(d)'
    <3>1. Idle(d) /\ pc'[d] = pc[d]
      BY <1>1, <2>2, Alone
    <3>2. receipt' # Absent /\ receipt'.by = d => receipt # Absent /\ receipt.by = d
      BY <1>1, <2>2, ReceiptChanges, ReceiptGrows, ReceiptCut
    <3> QED
      BY <3>1, <3>2 DEF ReceiptAt, Idle, Sealing
  <2> QED
    BY <2>1, <2>2
<1>2. CASE Child(c)
  <2>1. \A d \in Captures : pc[d] \in Sealing => status'[d] = status[d]
    BY <1>2 DEF Child, ChildWrites, ChildExits, Files, ChildAt, Spawned,
                Sealing, TypeInv, TypeOK
  <2> QED
    BY <1>2, <2>1, ChildKeeps DEF ReceiptAt
<1>3. CASE Crash(c)
  BY <1>3 DEF Crash, ReceiptAt, Sealing, TypeInv, TypeOK
<1> QED
  BY <1>1, <1>2, <1>3

\* The lines stay in order, name the manifest of the receipt's owner and hold
\* fingerprints of whole files (command.txt apart).
LEMMA ReceiptLinesStep ==
    ASSUME TypeInv, Exclusive, Files, OutputsWhole, ReceiptLines,
           NEW c \in Captures, Step(c) \/ Child(c) \/ Crash(c),
           \A d \in Captures : ReceiptAt(d)
    PROVE  ReceiptLines'
<1>1. CASE UNCHANGED receipt
  BY <1>1 DEF ReceiptLines, LinesOrdered
<1>2. CASE receipt' = [by |-> c, status |-> status[c], lines |-> <<>>]
  <2>1. receipt'.lines = <<>>
    BY <1>2
  <2> QED
    BY <2>1 DEF ReceiptLines, LinesOrdered
<1>3. CASE FingerprintArtifact(c)
  <2> DEFINE n    == Len(receipt.lines)
             role == RoleOrder[n + 1]
             line == Line(role, artifact[role])
  <2>1. /\ receipt # Absent /\ receipt.by = c
        /\ receipt.lines \in Seq(Lines) /\ n \in Nat
    BY <1>3, ReceiptGrows, LenProperties
       DEF FingerprintArtifact, ReceiptAt, Sealing, Receipts
  <2>2. CASE receipt'.lines = receipt.lines
    BY <1>3, <2>2, ReceiptGrows DEF ReceiptLines, LinesOrdered
  <2>3. CASE /\ ~err[c] /\ n < 7
             /\ role \in Roles /\ artifact[role] \in Content
             /\ receipt'.lines = Append(receipt.lines, line)
    <3>1. /\ line \in Lines
          /\ line.role = role
          /\ line.print = Bytes(role, artifact[role])
      BY <2>3, LineType DEF Line
    <3>2. n + 1 = 1 => line.print.by = c
      <4>1. WrittenBy(c, "manifest")
        BY <1>3
           DEF FingerprintArtifact, Files, ManifestAt, Recorded, Logged,
               Spawned, Sealing
      <4>2. n + 1 = 1 => role = "manifest"
        BY DEF RoleOrder
      <4>3. Bytes("manifest", artifact["manifest"]) = artifact["manifest"]
        BY DEF Bytes, LogRoles
      <4> HIDE DEF role
      <4> QED
        BY <3>1, <4>1, <4>2, <4>3 DEF WrittenBy
    <3>3. n + 1 # 2 => line.print.whole
      <4>1. line.print.whole = artifact[role].whole
        BY <3>1 DEF Bytes
      <4>2. pc[c] = "fingerprint" /\ WrittenBy(c, "manifest")
        BY <1>3
           DEF FingerprintArtifact, Files, ManifestAt, Recorded, Logged,
               Spawned, Sealing
      <4>3. IsWhole("manifest") /\ IsWhole("summary")
        BY <2>3, <4>2
           DEF Files, ManifestAt, SummaryAt, Recorded, Logged, Spawned, Sealing
      <4>4. role # "command" => IsWhole(role)
        BY <2>3, <4>3, AbsentAssumption DEF OutputsWhole, Roles, IsWhole
      <4>5. n + 1 # 2 => role # "command"
        BY <2>1, <2>3 DEF RoleOrder
      <4> QED
        BY <4>1, <4>4, <4>5 DEF IsWhole
    <3>4. /\ Len(receipt'.lines) = n + 1
          /\ \A i \in 1 .. n : receipt'.lines[i] = receipt.lines[i]
          /\ receipt'.lines[n + 1] = line
      BY <2>1, <2>3, <3>1, AppendedLines
    <3> HIDE DEF line
    <3> QED
      BY <1>3, <2>1, <2>3, <3>1, <3>2, <3>3, <3>4, ReceiptGrows
         DEF ReceiptLines, LinesOrdered
  <2> QED
    BY <1>3, <2>2, <2>3, ReceiptGrows
<1>4. CASE CloseReceipt(c)
  <2>1. receipt # Absent /\ receipt.lines \in Seq(Lines) /\ receipt'.by = receipt.by
    BY <1>4, ReceiptCut DEF Receipts
  <2>2. CASE receipt'.lines = receipt.lines
    BY <2>1, <2>2 DEF ReceiptLines, LinesOrdered
  <2>3. ASSUME NEW n \in 0 .. Len(receipt.lines),
               receipt'.lines = SubSeq(receipt.lines, 1, n)
        PROVE  ReceiptLines'
    <3>1. n \in Nat /\ Len(receipt.lines) \in Nat /\ n <= Len(receipt.lines)
      BY <2>1, LenProperties
    <3> QED
      BY <2>1, <2>3, <3>1, PrefixLines DEF ReceiptLines, LinesOrdered
  <2> QED
    BY <1>4, <2>2, <2>3, ReceiptCut
<1> QED
  BY <1>1, <1>2, <1>3, <1>4, ReceiptChanges, ReceiptsKept

-----------------------------------------------------------------------------
(* Whose the observed files are.                                           *)

\* Until it opens receipt.txt, a capture changes nothing but command.txt as
\* long as the manifest is not its own.
LEMMA WritesAfterManifest ==
    ASSUME TypeInv, Files, NEW c \in Captures, Step(c)
    PROVE  \/ \A r \in Roles \ {"command"} : artifact'[r] = artifact[r]
           \/ /\ WrittenBy(c, "manifest")'
              /\ pc[c] \notin Sealing \cup {"done", "crashed"}
<1> USE NewContents
    DEF TypeInv, TypeOK, Files, ManifestAt, WrittenBy, Recorded, Logged,
        Spawned, Sealing, Roles, Truncated, Flushed, CreateEmptyFile
<1>1. CASE OpenCommand(c)
  BY <1>1 DEF OpenCommand
<1>2. CASE CloseCommand(c)
  BY <1>2 DEF CloseCommand
<1>3. CASE OpenManifest(c)
  <2>1. CASE Truncated(c, "manifest", FALSE)
    BY <1>3, <2>1 DEF OpenManifest
  <2>2. CASE Truncated(c, "manifest", TRUE)
    BY <2>2
  <2> QED
    BY <1>3, <2>1, <2>2 DEF OpenManifest
<1>4. CASE CloseManifest(c)
  BY <1>4 DEF CloseManifest
<1>5. CASE CreateResourceLog(c)
  BY <1>5 DEF CreateResourceLog
<1>6. CASE CreateCallLog(c)
  BY <1>6 DEF CreateCallLog
<1>7. CASE Spawn(c)
  <2>1. WrittenBy(c, "manifest") /\ pc[c] = "spawn"
    BY <1>7 DEF Spawn
  <2>2. artifact'["manifest"] = artifact["manifest"]
    <3>1. ASSUME NEW roles \in {{}, {"stdout"}, {"stdout", "stderr"}},
                 Redirected(c, roles)
          PROVE  artifact'["manifest"] = artifact["manifest"]
      BY <3>1 DEF Redirected
    <3>2. CASE UNCHANGED artifact
      BY <3>2
    <3> QED
      BY <1>7, <3>1, <3>2 DEF Spawn
  <2> QED
    BY <2>1, <2>2
<1>8. CASE OpenSummary(c)
  BY <1>8 DEF OpenSummary
<1>9. CASE CloseSummary(c)
  BY <1>9 DEF CloseSummary
<1>10. CASE UNCHANGED artifact
  BY <1>10
<1> QED
  BY <1>1, <1>2, <1>3, <1>4, <1>5, <1>6, <1>7, <1>8, <1>9, <1>10
     DEF Step, MakeReportPaths, CreateReportDir, WaitCommand, OpenReceipt,
         FingerprintArtifact, FingerprintsDone, CloseReceipt, OpenToolReceipt,
         CloseToolReceipt, FinishCapture

\* The files of the capture at a stage, and the receipt's owner, agree.
LEMMA CustodialStep ==
    ASSUME TypeInv, Exclusive, Files, ReceiptLines, Custodial,
           NEW c \in Captures, Step(c) \/ Child(c) \/ Crash(c),
           \A d \in Captures : ReceiptAt(d),
           Files'
    PROVE  Custodial'
<1>1. CASE Child(c)
  BY <1>1, ChildKeeps DEF Custodial, WrittenBy, Roles
<1>2. CASE Crash(c)
  BY <1>2 DEF Crash, Custodial, WrittenBy
<1>3. CASE Step(c) /\ receipt' = receipt
  <2> SUFFICES ASSUME receipt # Absent, WrittenBy(receipt.by, "manifest")'
               PROVE  Custodial'
    BY <1>3 DEF Custodial
  <2>1. CASE \A r \in Roles \ {"command"} : artifact'[r] = artifact[r]
    BY <1>3, <2>1 DEF Custodial, WrittenBy, Roles
  <2>2. CASE WrittenBy(c, "manifest")' /\ pc[c] \notin Sealing \cup {"done", "crashed"}
    BY <1>3, <2>2 DEF WrittenBy, ReceiptAt
  <2> QED
    BY <1>3, <2>1, <2>2, WritesAfterManifest
<1>4. CASE OpenReceipt(c) /\ receipt' = [by |-> c, status |-> status[c], lines |-> <<>>]
  <2>1. receipt'.by = c /\ receipt'.status = status[c] /\ receipt'.lines = <<>>
    BY <1>4
  <2>2. /\ WrittenBy(c, "resources") /\ WrittenBy(c, "calls")
        /\ status[c] = "exit0" => WrittenBy(c, "stdout") /\ WrittenBy(c, "stderr")
    BY <1>4 DEF OpenReceipt, Files, LogsAt, ChildAt, Logged, Spawned
  <2> QED
    BY <1>4, <2>1, <2>2 DEF OpenReceipt, Custodial, WrittenBy
<1>5. CASE FingerprintArtifact(c)
  <2>1. receipt # Absent /\ receipt.by = c /\ artifact' = artifact
    BY <1>5 DEF FingerprintArtifact, ReceiptAt, Sealing
  <2>2. ~err[c] => WrittenBy(c, "summary")
    BY <1>5 DEF FingerprintArtifact, Files, SummaryAt, Sealing
  <2> QED
    BY <1>5, <2>1, <2>2, ReceiptGrows DEF Custodial, WrittenBy
<1>6. CASE CloseReceipt(c)
  <2>1. receipt # Absent /\ receipt.lines \in Seq(Lines) /\ artifact' = artifact
    BY <1>6, ReceiptCut DEF CloseReceipt, Receipts
  <2>2. receipt'.lines # <<>> => receipt.lines # <<>>
    <3>1. ASSUME NEW n \in 0 .. Len(receipt.lines), receipt.lines = <<>>
          PROVE  SubSeq(receipt.lines, 1, n) = <<>>
      BY <3>1, <2>1, PrefixLines, EmptySeq
    <3> QED
      BY <1>6, <3>1, ReceiptCut
  <2> QED
    BY <1>6, <2>1, <2>2, ReceiptCut DEF Custodial, WrittenBy
<1> QED
  BY <1>1, <1>2, <1>3, <1>4, <1>5, <1>6, ReceiptChanges

-----------------------------------------------------------------------------
(* The shared receipt.                                                     *)

\* The shared receipt is opened only once all seven lines are written.
LEMMA CompleteStep ==
    ASSUME TypeInv, Exclusive, ReceiptLines, NEW c \in Captures,
           Step(c) \/ Child(c) \/ Crash(c),
           \A d \in Captures : ReceiptAt(d) /\ Complete(d)
    PROVE  \A d \in Captures : Complete(d)'
<1>1. CASE Step(c)
  <2>1. ASSUME NEW d \in Captures, d # c
        PROVE  Complete(d)'
    BY <1>1, <2>1, Alone DEF Complete, Idle
  <2>2. ASSUME FingerprintsDone(c)
        PROVE  Complete(c)'
    <3>1. receipt # Absent /\ Len(receipt.lines) \in Nat /\ Len(receipt.lines) <= 7
      BY <2>2, LenProperties
         DEF FingerprintsDone, TypeInv, TypeOK, FilesOpened, Receipts,
             ReceiptLines, LinesOrdered
    <3>2. ~err[c] => ~(Len(receipt.lines) < 7)
      BY <2>2, RoleOrderType DEF FingerprintsDone, MayFingerprint
    <3>3. ~(Len(receipt.lines) < 7) => Len(receipt.lines) = 7
      <4> DEFINE n == Len(receipt.lines)
      <4>1. n \in Nat /\ n <= 7
        BY <3>1
      <4> HIDE DEF n
      <4>2. ~(n < 7) => n = 7
        BY <4>1
      <4> QED
        BY <4>2 DEF n
    <3>4. pc'[c] = "close_receipt" /\ receipt' = receipt /\ (~err'[c] => ~err[c])
      BY <2>2 DEF FingerprintsDone, Proceed, TypeInv, TypeOK
    <3>5. pc'[c] # "open_tool_receipt"
      BY <3>4
    <3> QED
      BY <3>2, <3>3, <3>4, <3>5, Zenon DEF Complete
  <2>3. ASSUME CloseReceipt(c)
        PROVE  Complete(c)'
    <3>1. CASE UNCHANGED receipt
      BY <2>3, <3>1 DEF CloseReceipt, Proceed, Complete, TypeInv, TypeOK
    <3>2. CASE pc'[c] = "finish"
      BY <3>2 DEF Complete
    <3> QED
      BY <2>3, <3>1, <3>2 DEF CloseReceipt, Proceed, TypeInv, TypeOK
  <2>4. ASSUME pc[c] \notin {"fingerprint", "close_receipt", "open_tool_receipt"}
        PROVE  Complete(c)'
    <3>1. pc'[c] \notin {"close_receipt", "open_tool_receipt"}
      BY <1>1, <2>4, StageFlow DEF Flow, TypeInv, TypeOK, Stages
    <3> QED
      BY <3>1 DEF Complete
  <2>5. ASSUME FingerprintArtifact(c)
        PROVE  Complete(c)'
    <3>1. pc'[c] = "fingerprint"
      BY <2>5 DEF FingerprintArtifact, Proceed, TypeInv, TypeOK
    <3> QED
      BY <3>1 DEF Complete
  <2>6. ASSUME OpenToolReceipt(c)
        PROVE  Complete(c)'
    <3>1. pc'[c] \in {"close_tool_receipt", "finish"}
      BY <2>6 DEF OpenToolReceipt, Proceed, TypeInv, TypeOK
    <3> QED
      BY <3>1 DEF Complete
  <2>7. \/ FingerprintArtifact(c) \/ FingerprintsDone(c) \/ CloseReceipt(c)
        \/ OpenToolReceipt(c)
        \/ pc[c] \notin {"fingerprint", "close_receipt", "open_tool_receipt"}
    BY <1>1
       DEF Step, MakeReportPaths, CreateReportDir, OpenCommand, CloseCommand,
           OpenManifest, CloseManifest, CreateResourceLog, CreateCallLog,
           Spawn, WaitCommand, OpenSummary, CloseSummary, OpenReceipt,
           OpenToolReceipt, CloseToolReceipt, FinishCapture
  <2> QED
    BY <2>1, <2>2, <2>3, <2>4, <2>5, <2>6, <2>7
<1>2. CASE Child(c)
  BY <1>2, ChildKeeps DEF Complete
<1>3. CASE Crash(c)
  BY <1>3 DEF Crash, Complete, TypeInv, TypeOK
<1> QED
  BY <1>1, <1>2, <1>3

\* tool-receipt.json keeps naming a complete receipt with its status.
LEMMA ToolReceiptStep ==
    ASSUME TypeInv, ReceiptLines, ToolReceiptBinds, NEW c \in Captures,
           Step(c) \/ Child(c) \/ Crash(c), ReceiptAt(c), Complete(c)
    PROVE  ToolReceiptBinds'
<1>1. CASE toolReceipt' = toolReceipt
  BY <1>1 DEF ToolReceiptBinds, LinesOrdered
<1>2. CASE OpenToolReceipt(c) /\ toolReceipt' # toolReceipt
  <2>1. /\ receipt # Absent /\ receipt.by = c /\ receipt.status = status[c]
        /\ Len(receipt.lines) = 7
    BY <1>2 DEF OpenToolReceipt, ReceiptAt, Complete, Sealing
  <2>2. /\ toolReceipt'.by = c
        /\ toolReceipt'.input = receipt
        /\ toolReceipt'.outcome =
              IF StatusIsSuccess(status[c]) THEN "success" ELSE "findings"
    <3>1. toolReceipt' =
             [by |-> c, whole |-> FALSE, input |-> receipt,
              outcome |-> IF StatusIsSuccess(status[c]) THEN "success"
                                                        ELSE "findings"]
      BY <1>2, Zenon DEF OpenToolReceipt
    <3> QED
      BY <3>1
  <2> QED
    BY <2>1, <2>2 DEF ToolReceiptBinds, ReceiptLines, StatusIsSuccess
<1>3. CASE CloseToolReceipt(c)
  <2>1. toolReceipt \in ToolReceipts /\ toolReceipt # Absent
    BY <1>3 DEF CloseToolReceipt, TypeInv, TypeOK, FilesOpened
  <2>2. /\ toolReceipt'.by = toolReceipt.by
        /\ toolReceipt'.input = toolReceipt.input
        /\ toolReceipt'.outcome = toolReceipt.outcome
    BY <1>3, <2>1 DEF CloseToolReceipt, ToolReceipts
  <2> QED
    BY <2>1, <2>2 DEF ToolReceiptBinds
<1>4. toolReceipt' # toolReceipt => OpenToolReceipt(c) \/ CloseToolReceipt(c)
  BY ReceiptsKept
     DEF Step, MakeReportPaths, CreateReportDir, OpenCommand, CloseCommand,
         OpenManifest, CloseManifest, CreateResourceLog, CreateCallLog, Spawn,
         WaitCommand, OpenSummary, CloseSummary, OpenReceipt,
         FingerprintArtifact, FingerprintsDone, CloseReceipt, FinishCapture
<1> QED
  BY <1>1, <1>2, <1>3, <1>4

-----------------------------------------------------------------------------
(* The theorems.                                                           *)

\* IInv holds in every reachable state.
THEOREM Invariance == Spec => []IInv
<1>1. Init => IInv
  BY TypeInit
     DEF Init, IInv, TypeInv, FilesOpened, Exclusive, Active, Idle, Files,
         ManifestAt, LogsAt, ChildAt, SummaryAt, Recorded, Logged, Spawned,
         Sealing, OutputsWhole, ReceiptAt, Complete, ReceiptLines, Custodial,
         ToolReceiptBinds, Roles
<1>2. IInv /\ [Next]_vars => IInv'
  <2> SUFFICES ASSUME IInv, [Next]_vars
               PROVE  IInv'
    OBVIOUS
  <2>1. ASSUME NEW c \in Captures, Step(c) \/ Child(c) \/ Crash(c)
        PROVE  IInv'
    <3>1. TypeInv'
      BY <2>1, TypeStep, TypeChild, TypeCrash, FilesStep DEF IInv, TypeInv
    <3>2. Exclusive' /\ Files'
      BY <2>1, ExclusiveStep, FilesKept DEF IInv
    <3>3. OutputsWhole' /\ ReceiptLines'
      BY <2>1, OutputsWholeStep, ReceiptLinesStep DEF IInv
    <3>4. \A d \in Captures : ReceiptAt(d)' /\ Complete(d)'
      BY <2>1, ReceiptAtStep, CompleteStep DEF IInv
    <3>5. Custodial' /\ ToolReceiptBinds'
      BY <2>1, <3>2, CustodialStep, ToolReceiptStep DEF IInv
    <3> QED
      BY <3>1, <3>2, <3>3, <3>4, <3>5 DEF IInv
  <2>2. CASE UNCHANGED vars
    BY <2>2
       DEF vars, IInv, TypeInv, TypeOK, FilesOpened, Exclusive, Active, Idle,
           Files, ManifestAt, LogsAt, ChildAt, SummaryAt, WrittenBy, IsWhole,
           OutputsWhole, ReceiptAt, Complete, ReceiptLines, LinesOrdered,
           Custodial, ToolReceiptBinds
  <2> QED
    BY <2>1, <2>2 DEF Next, Terminating
<1> QED
  BY <1>1, <1>2, PTL DEF Spec

\* Every role has its place in RoleOrder.
LEMMA RolePlaces ==
    /\ \A r \in Roles : \E i \in 1 .. 7 : RoleOrder[i] = r
    /\ \A i \in 1 .. 7 : RoleOrder[i] = "manifest" => i = 1
    /\ \A i \in 1 .. 7 : RoleOrder[i] # "command" => i # 2
BY DEF Roles, RoleOrder

\* An accepted receipt has a line for each role, whose fingerprint is the file's.
LEMMA AcceptedLine ==
    ASSUME TypeInv, ReceiptLines, Accepts(artifact, receipt), NEW r \in Roles
    PROVE  /\ receipt # Absent /\ receipt.lines \in Seq(Lines)
           /\ artifact[r] \in Content /\ artifact[r] # Absent
           /\ \E i \in 1 .. 7 :
                 /\ i <= Len(receipt.lines)
                 /\ RoleOrder[i] = r
                 /\ receipt.lines[i].print = Bytes(r, artifact[r])
<1>1. receipt # Absent /\ receipt \in Receipts
  BY DEF Accepts, TypeInv, TypeOK
<1>2. receipt.lines \in Seq(Lines)
  BY <1>1 DEF Receipts
<1>3. /\ Len(receipt.lines) \in Nat /\ Len(receipt.lines) <= 7
      /\ DOMAIN receipt.lines = 1 .. Len(receipt.lines)
  BY <1>1, <1>2, LenProperties DEF ReceiptLines, LinesOrdered
<1>4. PICK i \in 1 .. Len(receipt.lines) : receipt.lines[i].role = r
  BY <1>3 DEF Accepts
<1>5. /\ artifact[r] # Absent
      /\ receipt.lines[i].print = Bytes(r, artifact[r])
  BY <1>3, <1>4 DEF Accepts, Matches
<1>6. RoleOrder[i] = r
  BY <1>1, <1>4 DEF ReceiptLines, LinesOrdered
<1>7. i \in 1 .. 7 /\ i <= Len(receipt.lines)
  BY <1>3, <1>4
<1> QED
  BY <1>1, <1>2, <1>5, <1>6, <1>7 DEF TypeInv, TypeOK

\* The observed command never runs under a capture whose manifest or event
\* logs are not in place (runner.c 76-90).
THEOREM NeverRunUnrecordedHolds == Spec => []NeverRunUnrecorded
<1>1. IInv => NeverRunUnrecorded
  BY DEF IInv, Files, ManifestAt, LogsAt, Recorded, Logged, Spawned,
         NeverRunUnrecorded, LogRoles
<1> QED
  BY <1>1, Invariance, PTL

\* Evidence that verify_capture accepts holds no torn file but command.txt.
THEOREM AcceptedIsWholeHolds == Spec => []AcceptedIsWhole
<1>1. IInv => AcceptedIsWhole
  <2> SUFFICES ASSUME IInv, Accepts(artifact, receipt),
                      NEW r \in Roles \ {"command"}
               PROVE  IsWhole(r)
    BY DEF AcceptedIsWhole
  <2>1. /\ receipt # Absent /\ receipt.lines \in Seq(Lines) /\ artifact[r] # Absent
        /\ \E i \in 1 .. 7 : /\ i <= Len(receipt.lines)
                             /\ RoleOrder[i] = r
                             /\ receipt.lines[i].print = Bytes(r, artifact[r])
    BY AcceptedLine DEF IInv
  <2>2. PICK i \in 1 .. 7 : /\ i <= Len(receipt.lines)
                            /\ RoleOrder[i] = r
                            /\ receipt.lines[i].print = Bytes(r, artifact[r])
    BY <2>1
  <2>3. i # 2 /\ i \in 1 .. Len(receipt.lines)
    BY <2>1, <2>2, RolePlaces, LenProperties
  <2>4. Bytes(r, artifact[r]).whole
    BY <2>1, <2>2, <2>3 DEF IInv, ReceiptLines
  <2>5. Bytes(r, artifact[r]).whole = artifact[r].whole
    BY DEF Bytes
  <2> QED
    BY <2>1, <2>4, <2>5 DEF IsWhole
<1> QED
  BY <1>1, Invariance, PTL

\* The fingerprint of the manifest ties the receipt to the run, and the
\* manifest's owner to everything observed.
LEMMA AcceptedImpliesOneRun == IInv => AcceptedIsOneRun
<1> SUFFICES ASSUME IInv, Accepts(artifact, receipt)
             PROVE  /\ WrittenBy(receipt.by, "manifest")
                    /\ WrittenBy(receipt.by, "resources")
                    /\ WrittenBy(receipt.by, "calls")
                    /\ WrittenBy(receipt.by, "summary")
                    /\ receipt.status = "exit0" =>
                          /\ WrittenBy(receipt.by, "stdout")
                          /\ WrittenBy(receipt.by, "stderr")
  BY DEF AcceptedIsOneRun
<1>1. "manifest" \in Roles
  BY DEF Roles
<1>2. /\ receipt # Absent /\ receipt.lines \in Seq(Lines)
      /\ artifact["manifest"] # Absent
      /\ \E i \in 1 .. 7 :
            /\ i <= Len(receipt.lines)
            /\ RoleOrder[i] = "manifest"
            /\ receipt.lines[i].print = Bytes("manifest", artifact["manifest"])
  BY <1>1, AcceptedLine DEF IInv
<1>3. /\ 1 <= Len(receipt.lines)
      /\ receipt.lines[1].print = Bytes("manifest", artifact["manifest"])
  BY <1>2, RolePlaces
<1>4. Len(receipt.lines) \in Nat /\ receipt.lines # <<>>
  BY <1>2, <1>3, LenProperties, EmptySeq
<1>5. receipt.lines[1].print.by = receipt.by
  BY <1>2, <1>3, <1>4 DEF IInv, ReceiptLines
<1>6. Bytes("manifest", artifact["manifest"]) = artifact["manifest"]
  BY DEF Bytes, LogRoles
<1>7. WrittenBy(receipt.by, "manifest")
  BY <1>2, <1>3, <1>5, <1>6 DEF WrittenBy
<1> QED
  BY <1>2, <1>4, <1>7 DEF IInv, Custodial

\* Evidence that verify_capture accepts is of one run: the one receipt.txt
\* names, whatever earlier and interrupted captures left in the directory.
THEOREM AcceptedIsOneRunHolds == Spec => []AcceptedIsOneRun
BY AcceptedImpliesOneRun, Invariance, PTL

\* tool-receipt.json is bound to the complete evidence set (report.c 113-118).
THEOREM ToolReceiptBindsEverythingHolds == Spec => []ToolReceiptBindsEverything
<1>1. IInv => ToolReceiptBindsEverything
  <2> SUFFICES ASSUME IInv, toolReceipt # Absent
               PROVE  /\ \A r \in Roles : \E i \in DOMAIN toolReceipt.input.lines :
                             toolReceipt.input.lines[i].role = r
                      /\ toolReceipt.outcome = "success"
                            <=> toolReceipt.input.status = "exit0"
                      /\ toolReceipt.by = toolReceipt.input.by
    BY DEF ToolReceiptBindsEverything
  <2>1. toolReceipt.input.lines \in Seq(Lines)
    BY DEF IInv, TypeInv, TypeOK, ToolReceipts, Receipts
  <2>2. DOMAIN toolReceipt.input.lines = 1 .. 7
    BY <2>1, LenProperties DEF IInv, ToolReceiptBinds
  <2>3. \A i \in 1 .. 7 : toolReceipt.input.lines[i].role = RoleOrder[i]
    BY DEF IInv, ToolReceiptBinds, LinesOrdered
  <2> QED
    BY <2>2, <2>3, RolePlaces DEF IInv, ToolReceiptBinds
<1> QED
  BY <1>1, Invariance, PTL

-----------------------------------------------------------------------------
(* That a capture which exits 0 or 1 leaves its own complete receipts with *)
(* its outcome; and, when a child writes nothing after it was waited for   *)
(* (Lingering = FALSE), that their reader accepts the files, and that      *)
(* Capture implements Custody.  The invariant Sealable says what the       *)
(* receipts describe for as long as they are written.                      *)

\* c is at, or past, the receipt, and no call of it has failed since.
Writing(c) == pc[c] \in Sealing /\ (pc[c] = "finish" => ~err[c])

\* The receipt is c's, and, if nobody writes late, every line there is so far
\* is that of the file as it is now.
PrintsHold(c) ==
    Writing(c) =>
        /\ receipt # Absent
        /\ receipt.by = c
        /\ receipt.status = status[c]
        /\ ~Lingering => \A i \in 1 .. Len(receipt.lines) :
              /\ artifact[RoleOrder[i]] # Absent
              /\ receipt.lines[i].print = Bytes(RoleOrder[i], artifact[RoleOrder[i]])
        /\ pc[c] \in {"open_tool_receipt", "close_tool_receipt", "finish"} =>
              Len(receipt.lines) = 7

\* The shared receipt fingerprints receipt.txt as it is now.
Bound(c) ==
    Writing(c) /\ pc[c] \in {"close_tool_receipt", "finish"} =>
        /\ toolReceipt # Absent
        /\ toolReceipt.input = receipt
        /\ toolReceipt.outcome =
              IF StatusIsSuccess(status[c]) THEN "success" ELSE "findings"
        /\ pc[c] = "finish" => toolReceipt.whole

\* Only a capture that waits has a child running, or one that was killed.
ChildrenReaped ==
    \A c \in Captures :
        child[c] = "running" => pc[c] = "wait" \/ (Lingering /\ pc[c] = "crashed")

\* Only a capture that is done has an exit status.
Unfinished == \A c \in Captures : exit[c] # "none" => pc[c] = "done"

Sealable ==
    /\ IInv
    /\ \A c \in Captures : PrintsHold(c) /\ Bound(c)
    /\ ChildrenReaped
    /\ Unfinished

-----------------------------------------------------------------------------
(* Sealable is inductive.                                                  *)

\* An exit status is given in the step that ends the capture.
LEMMA UnfinishedStep ==
    ASSUME TypeOK, Unfinished, NEW c \in Captures,
           Step(c) \/ Child(c) \/ Crash(c)
    PROVE  Unfinished'
<1>1. \A d \in Captures : /\ d # c => pc'[d] = pc[d] /\ exit'[d] = exit[d]
                          /\ exit'[c] # exit[c] => pc'[c] = "done"
                          /\ pc[c] = "done" => pc'[c] = "done"
  <2> USE DEF TypeOK, Proceed, Checked, GiveUp
  <2>1. CASE MakeReportPaths(c)
    BY <2>1 DEF MakeReportPaths
  <2>2. CASE CreateReportDir(c)
    BY <2>2 DEF CreateReportDir
  <2>3. CASE OpenCommand(c) \/ CloseCommand(c)
    BY <2>3 DEF OpenCommand, CloseCommand
  <2>4. CASE OpenManifest(c)
    <3>1. \/ pc' = [pc EXCEPT ![c] = "close_manifest"] /\ UNCHANGED exit
          \/ Checked(c, "create_resource_log", TRUE)
      BY <2>4, Zenon DEF OpenManifest
    <3> QED
      BY <2>4, <3>1 DEF OpenManifest
  <2>5. CASE CloseManifest(c)
    BY <2>5 DEF CloseManifest
  <2>6. CASE CreateResourceLog(c) \/ CreateCallLog(c)
    BY <2>6 DEF CreateResourceLog, CreateCallLog
  <2>7. CASE Spawn(c) \/ WaitCommand(c)
    BY <2>7 DEF Spawn, WaitCommand
  <2>8. CASE OpenSummary(c) \/ CloseSummary(c)
    BY <2>8 DEF OpenSummary, CloseSummary
  <2>9. CASE OpenReceipt(c) \/ FingerprintArtifact(c) \/ FingerprintsDone(c)
             \/ CloseReceipt(c)
    BY <2>9 DEF OpenReceipt, FingerprintArtifact, FingerprintsDone, CloseReceipt
  <2>10. CASE OpenToolReceipt(c) \/ CloseToolReceipt(c)
    BY <2>10 DEF OpenToolReceipt, CloseToolReceipt
  <2>11. CASE FinishCapture(c)
    BY <2>11 DEF FinishCapture
  <2>12. CASE Child(c)
    BY <2>12 DEF Child, ChildWrites, ChildExits
  <2>13. CASE Crash(c)
    BY <2>13 DEF Crash, Active, Idle
  <2> QED
    BY <2>1, <2>2, <2>3, <2>4, <2>5, <2>6, <2>7, <2>8, <2>9, <2>10, <2>11, <2>12, <2>13
       DEF Step
<1> QED
  BY <1>1 DEF Unfinished

\* A child starts in the step that begins the wait, and is over, or killed
\* with its capture, before the wait ends.
LEMMA ReapedStep ==
    ASSUME TypeOK, ChildrenReaped, NEW c \in Captures,
           Step(c) \/ Child(c) \/ Crash(c)
    PROVE  ChildrenReaped'
<1> USE DEF ChildrenReaped, TypeOK
<1>1. CASE Spawn(c)
  <2>1. \A d \in Captures \ {c} : child'[d] = child[d] /\ pc'[d] = pc[d]
    BY <1>1 DEF Spawn, Proceed, GiveUp
  <2>2. child'[c] = "running" => pc'[c] = "wait"
    BY <1>1 DEF Spawn, Proceed, GiveUp
  <2> QED
    BY <2>1, <2>2
<1>2. CASE WaitCommand(c)
  <2>1. child[c] # "running" /\ child' = child
    BY <1>2 DEF WaitCommand
  <2> QED
    BY <1>2, <2>1, StageFlow
<1>3. CASE Child(c)
  BY <1>3 DEF Child, ChildWrites, ChildExits
<1>4. CASE Crash(c)
  BY <1>4, LingeringAssumption DEF Crash
<1>5. CASE Step(c) /\ ~Spawn(c) /\ ~WaitCommand(c)
  <2>1. pc[c] \notin {"wait", "crashed"} /\ child' = child
    BY <1>5 DEF Step, MakeReportPaths, CreateReportDir, OpenCommand,
       CloseCommand, OpenManifest, CloseManifest, CreateResourceLog,
       CreateCallLog, OpenSummary, CloseSummary, OpenReceipt,
       FingerprintArtifact, FingerprintsDone, CloseReceipt, OpenToolReceipt,
       CloseToolReceipt, FinishCapture
  <2> QED
    BY <1>5, <2>1, StageFlow
<1> QED
  BY <1>1, <1>2, <1>3, <1>4, <1>5

\* While a capture writes its receipts, nobody but a late writer changes what
\* they describe.
LEMMA OthersKeepSealed ==
    ASSUME Sealable, NEW c \in Captures,
           Step(c) \/ Child(c) \/ Crash(c),
           NEW d \in Captures, d # c \/ ~Step(c)
    PROVE  PrintsHold(d)' /\ Bound(d)'
<1> SUFFICES ASSUME Writing(d)'
             PROVE  /\ PrintsHold(d)' /\ Bound(d)'
  BY DEF PrintsHold, Bound
<1>1. CASE Step(c)
  BY <1>1, Alone DEF Sealable, IInv, Idle, Writing, Sealing
<1>2. CASE Child(c)
  <2>1. UNCHANGED <<pc, err, receipt, toolReceipt>> /\ pc[d] \in Sealing
    BY <1>2, ChildKeeps DEF Sealable, IInv, Writing
  <2>2. PrintsHold(d) /\ Bound(d) /\ Writing(d)
    BY <2>1 DEF Sealable, Writing
  <2>3. CASE Lingering
    <3>1. status'[d] = status[d]
      <4>1. CASE ChildExits(c)
        <5>1. d # c
          BY <2>1, <4>1 DEF ChildExits, Sealable, ChildrenReaped, Sealing
        <5> QED
          BY <4>1, <5>1 DEF ChildExits, Sealable, IInv, TypeInv, TypeOK
      <4> QED
        BY <1>2, <4>1 DEF Child, ChildWrites
    <3> QED
      BY <2>1, <2>2, <2>3, <3>1 DEF PrintsHold, Bound, Writing
  <2>4. CASE ~Lingering
    <3>1. child[c] = "running" /\ pc[c] = "wait"
      BY <1>2, <2>4 DEF Child, ChildWrites, ChildExits, Sealable, ChildrenReaped
    <3>2. Active(c) /\ Active(d) /\ pc[d] # "wait"
      BY <2>1, <3>1 DEF Active, Idle, Sealing
    <3> QED
      BY <3>1, <3>2 DEF Sealable, IInv, Exclusive
  <2> QED
    BY <2>3, <2>4
<1>3. CASE Crash(c)
  <2>1. d # c /\ pc'[d] = pc[d]
    BY <1>3 DEF Crash, Writing, Sealing, Sealable, IInv, TypeInv, TypeOK
  <2>2. Active(c) /\ Active(d)
    BY <1>3, <2>1 DEF Crash, Active, Idle, Writing, Sealing
  <2> QED
    BY <2>1, <2>2 DEF Sealable, IInv, Exclusive
<1> QED
  BY <1>1, <1>2, <1>3

\* The calls before the receipt, and the last one, write no receipt.
LEMMA SealedElsewhere ==
    ASSUME TypeOK, NEW c \in Captures, Step(c), Writing(c)'
    PROVE  \/ OpenReceipt(c) \/ FingerprintArtifact(c) \/ FingerprintsDone(c)
           \/ CloseReceipt(c) \/ OpenToolReceipt(c) \/ CloseToolReceipt(c)
<1>1. pc'[c] \in Sealing
  BY DEF Writing
<1>2. pc[c] \in Stages
  BY DEF TypeOK
<1>3. pc[c] \in {"open_receipt"} \cup Sealing
  BY <1>1, <1>2, StageFlow DEF Sealing, Flow, Stages, Step, FinishCapture
<1> QED
  BY <1>1, <1>3 DEF TypeOK, Sealing, Step, MakeReportPaths, CreateReportDir,
       OpenCommand, CloseCommand, OpenManifest, CloseManifest,
       CreateResourceLog, CreateCallLog, Spawn, WaitCommand, OpenSummary,
       CloseSummary, FinishCapture, GiveUp

\* Fingerprinting appends the line of the file as it is.
LEMMA FingerprintSealed ==
    ASSUME Sealable, NEW c \in Captures, FingerprintArtifact(c), Writing(c)'
    PROVE  PrintsHold(c)' /\ Bound(c)'
<1> DEFINE n == Len(receipt.lines)
           role == RoleOrder[n + 1]
<1>1. /\ pc[c] = "fingerprint" /\ pc'[c] = "fingerprint"
      /\ artifact' = artifact /\ status' = status
      /\ receipt # Absent /\ receipt.by = c /\ receipt.status = status[c]
      /\ receipt.lines \in Seq(Lines) /\ n \in Nat
      /\ ~Lingering => \A i \in 1 .. n :
            /\ artifact[RoleOrder[i]] # Absent
            /\ receipt.lines[i].print = Bytes(RoleOrder[i], artifact[RoleOrder[i]])
  BY ReceiptGrows, LenProperties
     DEF FingerprintArtifact, Sealable, IInv, TypeInv, TypeOK, PrintsHold,
         Writing, Sealing, Proceed, Receipts
<1>2. receipt' # Absent /\ receipt'.by = c /\ receipt'.status = status[c]
  BY <1>1, ReceiptGrows DEF Sealable, IInv
<1>3. CASE receipt'.lines = receipt.lines
  BY <1>1, <1>2, <1>3 DEF PrintsHold, Bound
<1>4. CASE /\ role \in Roles /\ artifact[role] \in Content
           /\ receipt'.lines = Append(receipt.lines, Line(role, artifact[role]))
  <2> DEFINE line == Line(role, artifact[role])
  <2>1. line \in Lines /\ line.print = Bytes(role, artifact[role])
    BY <1>4, LineType DEF Line
  <2>2. artifact[role] # Absent
    BY <1>4, AbsentAssumption
  <2> HIDE DEF line
  <2>3. receipt'.lines = Append(receipt.lines, line)
    BY <1>4 DEF line
  <2>4. /\ Len(receipt'.lines) = n + 1
        /\ \A i \in 1 .. n : receipt'.lines[i] = receipt.lines[i]
        /\ receipt'.lines[n + 1] = line
    BY <1>1, <2>1, <2>3, AppendedLines
  <2>5. \A i \in 1 .. n + 1 : i \in 1 .. n \/ i = n + 1
    BY <1>1
  <2> HIDE DEF n
  <2> QED
    BY <1>1, <1>2, <2>1, <2>2, <2>4, <2>5 DEF PrintsHold, Bound
<1> QED
  BY <1>3, <1>4, ReceiptGrows DEF Sealable, IInv

\* Each of the other calls keeps what the receipts say.
LEMMA OwnSealed ==
    ASSUME Sealable, NEW c \in Captures, Step(c)
    PROVE  PrintsHold(c)' /\ Bound(c)'
<1> SUFFICES ASSUME Writing(c)'
             PROVE  PrintsHold(c)' /\ Bound(c)'
  BY DEF PrintsHold, Bound
<1> USE DEF Sealable, IInv, TypeInv, TypeOK, PrintsHold, Bound, Writing, Sealing
<1>1. CASE OpenReceipt(c)
  <2> DEFINE new == [by |-> c, status |-> status[c], lines |-> <<>>]
  <2>1. receipt' = new /\ pc'[c] = "fingerprint" /\ status' = status
    BY <1>1 DEF OpenReceipt, Proceed
  <2>2. new \in Receipts
    BY DEF Receipts
  <2>3. /\ receipt' # Absent /\ receipt'.by = c /\ receipt'.status = status[c]
        /\ Len(receipt'.lines) = 0
    BY <2>1, <2>2, AbsentReceiptAssumption
  <2> QED
    BY <2>1, <2>3
<1>2. CASE FingerprintArtifact(c)
  BY <1>2, FingerprintSealed
<1>3. CASE FingerprintsDone(c)
  BY <1>3 DEF FingerprintsDone, Proceed
<1>4. CASE CloseReceipt(c)
  <2>1. receipt' = receipt /\ ~err[c] /\ pc'[c] = "open_tool_receipt"
    BY <1>4 DEF CloseReceipt, Proceed
  <2>2. Len(receipt.lines) = 7
    BY <1>4, <2>1 DEF CloseReceipt, Complete
  <2> QED
    BY <1>4, <2>1, <2>2 DEF CloseReceipt
<1>5. CASE OpenToolReceipt(c)
  <2> DEFINE code == IF StatusIsSuccess(status[c]) THEN "success" ELSE "findings"
             new  == [by |-> c, whole |-> FALSE, input |-> receipt, outcome |-> code]
  <2> HIDE DEF code
  <2>1. /\ toolReceipt' = new /\ pc'[c] = "close_tool_receipt"
        /\ UNCHANGED <<artifact, receipt, status>>
    BY <1>5 DEF OpenToolReceipt, Proceed, code
  <2>2. toolReceipt' # Absent
    BY <1>5, <2>1, ToolReceiptType, AbsentReceiptAssumption
  <2>3. toolReceipt'.input = receipt /\ toolReceipt'.outcome = code
    BY <2>1
  <2>4. PrintsHold(c)'
    BY <1>5, <2>1 DEF OpenToolReceipt
  <2>5. Bound(c)'
    BY <2>1, <2>2, <2>3 DEF code
  <2> QED
    BY <2>4, <2>5
<1>6. CASE CloseToolReceipt(c)
  <2>1. /\ toolReceipt \in ToolReceipts /\ toolReceipt # Absent
        /\ pc[c] = "close_tool_receipt" /\ pc'[c] = "finish"
        /\ UNCHANGED <<artifact, receipt, status>>
    BY <1>6 DEF CloseToolReceipt, Proceed
  <2>2. toolReceipt' = [toolReceipt EXCEPT !.whole = TRUE]
    BY <1>6 DEF CloseToolReceipt, Proceed
  <2>3. /\ toolReceipt' # Absent /\ toolReceipt'.whole
        /\ toolReceipt'.input = toolReceipt.input
        /\ toolReceipt'.outcome = toolReceipt.outcome
    <3>1. toolReceipt' \in ToolReceipts
      BY <2>1, <2>2 DEF ToolReceipts
    <3> QED
      BY <2>1, <2>2, <3>1, AbsentReceiptAssumption DEF ToolReceipts
  <2> QED
    BY <2>1, <2>3
<1> QED
  BY <1>1, <1>2, <1>3, <1>4, <1>5, <1>6, SealedElsewhere

\* Sealable holds in every reachable state.
THEOREM SealableInvariance == Spec => []Sealable
<1>1. Init /\ IInv => Sealable
  BY DEF Init, Sealable, PrintsHold, Bound, Writing, Sealing, ChildrenReaped,
         Unfinished
<1>2. Sealable /\ IInv' /\ [Next]_vars => Sealable'
  <2> SUFFICES ASSUME Sealable, IInv', [Next]_vars
               PROVE  Sealable'
    OBVIOUS
  <2>1. ASSUME NEW c \in Captures, Step(c) \/ Child(c) \/ Crash(c)
        PROVE  Sealable'
    <3>1. ChildrenReaped' /\ Unfinished'
      BY <2>1, ReapedStep, UnfinishedStep DEF Sealable, IInv, TypeInv
    <3>2. ASSUME NEW d \in Captures
          PROVE  PrintsHold(d)' /\ Bound(d)'
      BY <2>1, OthersKeepSealed, OwnSealed
    <3> QED
      BY <3>1, <3>2 DEF Sealable
  <2>2. CASE UNCHANGED vars
    BY <2>2 DEF vars, Sealable, PrintsHold, Bound, Writing, ChildrenReaped, Unfinished
  <2> QED
    BY <2>1, <2>2 DEF Next, Terminating
<1> QED
  BY <1>1, <1>2, Invariance, PTL DEF Spec

-----------------------------------------------------------------------------
(* How a capture ends.                                                     *)

\* An exit status of 2 changes no file a reader looks at; any other is given
\* by FinishCapture only.
LEMMA HowItExits ==
    ASSUME TypeOK, Unfinished, NEW c \in Captures, Step(c)
    PROVE  /\ exit[c] = "none"
           /\ \/ UNCHANGED exit /\ pc'[c] # "done"
              \/ /\ exit' = [exit EXCEPT ![c] = "trouble"]
                 /\ UNCHANGED receipt
                 /\ UNCHANGED artifact \/ CloseManifest(c) \/ CreateCallLog(c)
              \/ /\ FinishCapture(c) /\ ~err[c]
                 /\ exit' = [exit EXCEPT ![c] =
                        IF StatusIsSuccess(status[c]) THEN "success" ELSE "findings"]
<1> USE DEF TypeOK, Unfinished, Proceed, Checked, GiveUp
<1>1. CASE MakeReportPaths(c)
  BY <1>1 DEF MakeReportPaths
<1>2. CASE CreateReportDir(c)
  BY <1>2 DEF CreateReportDir
<1>3. CASE OpenCommand(c) \/ CloseCommand(c)
  BY <1>3 DEF OpenCommand, CloseCommand
<1>4. CASE OpenManifest(c)
  <2>1. \/ UNCHANGED exit /\ pc' = [pc EXCEPT ![c] = "close_manifest"]
        \/ /\ exit' = [exit EXCEPT ![c] = "trouble"]
           /\ UNCHANGED <<artifact, receipt>>
    BY <1>4, Zenon DEF OpenManifest, Truncated
  <2> QED
    BY <1>4, <2>1 DEF OpenManifest
<1>5. CASE CloseManifest(c)
  BY <1>5 DEF CloseManifest
<1>6. CASE CreateResourceLog(c) \/ CreateCallLog(c)
  BY <1>6 DEF CreateResourceLog, CreateCallLog
<1>7. CASE Spawn(c) \/ WaitCommand(c)
  BY <1>7 DEF Spawn, WaitCommand
<1>8. CASE OpenSummary(c) \/ CloseSummary(c)
  BY <1>8 DEF OpenSummary, CloseSummary
<1>9. CASE OpenReceipt(c) \/ FingerprintArtifact(c) \/ FingerprintsDone(c)
           \/ CloseReceipt(c)
  BY <1>9 DEF OpenReceipt, FingerprintArtifact, FingerprintsDone, CloseReceipt
<1>10. CASE OpenToolReceipt(c) \/ CloseToolReceipt(c)
  BY <1>10 DEF OpenToolReceipt, CloseToolReceipt
<1>11. CASE FinishCapture(c)
  BY <1>11 DEF FinishCapture
<1> QED
  BY <1>1, <1>2, <1>3, <1>4, <1>5, <1>6, <1>7, <1>8, <1>9, <1>10, <1>11 DEF Step

\* A receipt with the seven lines of the files as they are is accepted.
LEMMA SevenLinesAccepted ==
    ASSUME receipt # Absent, receipt.lines \in Seq(Lines), ReceiptLines,
           Len(receipt.lines) = 7,
           \A i \in 1 .. Len(receipt.lines) :
              /\ artifact[RoleOrder[i]] # Absent
              /\ receipt.lines[i].print = Bytes(RoleOrder[i], artifact[RoleOrder[i]])
    PROVE  Accepts(artifact, receipt)
<1>1. DOMAIN receipt.lines = 1 .. 7
  BY LenProperties
<1>2. \A i \in 1 .. 7 : receipt.lines[i].role = RoleOrder[i]
  BY DEF ReceiptLines, LinesOrdered
<1>3. \A i, j \in 1 .. 7 : RoleOrder[i] = RoleOrder[j] => i = j
  BY DEF RoleOrder
<1> QED
  BY <1>1, <1>2, <1>3, RolePlaces DEF Accepts, Matches

\* What FinishCapture finds when no call has failed.
LEMMA FinishSealed ==
    ASSUME Sealable, NEW c \in Captures, pc[c] = "finish", ~err[c]
    PROVE  /\ ~Lingering => Accepts(artifact, receipt)
           /\ receipt # Absent /\ receipt.by = c /\ receipt.status = status[c]
           /\ toolReceipt # Absent /\ toolReceipt.whole
           /\ toolReceipt.input = receipt
           /\ toolReceipt.outcome =
                 IF StatusIsSuccess(status[c]) THEN "success" ELSE "findings"
<1>1. PrintsHold(c) /\ Bound(c) /\ Writing(c)
  BY DEF Sealable, Writing, Sealing
<1>2. receipt.lines \in Seq(Lines)
  BY <1>1 DEF PrintsHold, Sealable, IInv, TypeInv, TypeOK, Receipts
<1> QED
  BY <1>1, <1>2, SevenLinesAccepted DEF PrintsHold, Bound, Sealable, IInv

\* What Sealed says of the receipts alone, whatever the files hold.
Signed(c) ==
    /\ receipt # Absent
    /\ receipt.by = c
    /\ exit[c] = "success" <=> CommandStatus(receipt.status) = "success"
    /\ toolReceipt # Absent
    /\ toolReceipt.whole
    /\ toolReceipt.input = receipt
    /\ toolReceipt.outcome = exit[c]

LEMMA SealedIsSigned ==
    ASSUME NEW c PROVE Sealed(c) <=> Signed(c) /\ Accepts(artifact, receipt)
BY DEF Sealed, Signed, Accepts

\* A capture is done by giving up or with its receipts signed, and these are
\* of the files as they are if nobody writes late.
LEMMA EndsSealed ==
    ASSUME Sealable, NEW c \in Captures, Step(c),
           pc'[c] = "done" \/ exit'[c] # exit[c]
    PROVE  \/ exit'[c] = "trouble"
           \/ Signed(c)' /\ (~Lingering => Accepts(artifact, receipt)')
<1>1. CASE exit' = [exit EXCEPT ![c] = "trouble"]
  BY <1>1 DEF Sealable, IInv, TypeInv, TypeOK
<1>2. CASE /\ FinishCapture(c) /\ ~err[c]
           /\ exit' = [exit EXCEPT ![c] =
                  IF StatusIsSuccess(status[c]) THEN "success" ELSE "findings"]
  <2>1. /\ pc[c] = "finish" /\ UNCHANGED <<artifact, receipt, toolReceipt, status>>
        /\ exit'[c] = IF StatusIsSuccess(status[c]) THEN "success" ELSE "findings"
    BY <1>2 DEF FinishCapture, Sealable, IInv, TypeInv, TypeOK
  <2>2. /\ ~Lingering => Accepts(artifact, receipt)
        /\ receipt # Absent /\ receipt.by = c /\ receipt.status = status[c]
        /\ toolReceipt # Absent /\ toolReceipt.whole
        /\ toolReceipt.input = receipt
        /\ toolReceipt.outcome = exit'[c]
    BY <1>2, <2>1, FinishSealed
  <2>3. exit'[c] = "success" <=> CommandStatus(status[c]) = "success"
    BY <2>1 DEF StatusIsSuccess, CommandStatus, Sealable, IInv, TypeInv, TypeOK,
                Statuses
  <2> QED
    BY <2>1, <2>2, <2>3 DEF Signed
<1> QED
  BY <1>1, <1>2, HowItExits DEF Sealable, IInv, TypeInv

\* So is one that exits 0 or 1, and nobody else's step makes it exit so.
LEMMA ExitIsSigned ==
    ASSUME Sealable, Next, NEW c \in Captures, exit[c] = "none",
           exit'[c] \in {"success", "findings"}
    PROVE  Signed(c)' /\ (~Lingering => Accepts(artifact, receipt)')
<1>1. Step(c)
  <2>1. ASSUME NEW d \in Captures, Step(d) \/ Child(d) \/ Crash(d), d # c \/ ~Step(d)
        PROVE  exit'[c] = exit[c]
    <3>1. CASE Step(d)
      BY <2>1, <3>1, HowItExits DEF Sealable, IInv, TypeInv, TypeOK, FinishCapture
    <3>2. CASE Child(d) \/ Crash(d)
      BY <3>2 DEF Child, ChildWrites, ChildExits, Crash
    <3> QED
      BY <2>1, <3>1, <3>2
  <2> QED
    BY <2>1 DEF Next, Terminating, vars
<1>2. exit'[c] # exit[c] /\ exit'[c] # "trouble"
  OBVIOUS
<1> QED
  BY <1>1, <1>2, EndsSealed

\* A capture that exits 0 or 1 leaves the evidence of its own run, complete,
\* unchanged since it was fingerprinted and with the outcome it returns, and
\* a shared receipt bound to it (report.c, finish_capture in runner.c).
THEOREM ExitSealsEvidenceHolds ==
    ASSUME Lingering = FALSE PROVE Spec => ExitSealsEvidence
<1>1. Sealable /\ [Next]_vars =>
         [\A c \in Captures :
             exit[c] = "none" /\ exit'[c] \in {"success", "findings"} => Sealed(c)']_vars
  <2> SUFFICES ASSUME Sealable, Next, NEW c \in Captures, exit[c] = "none",
                      exit'[c] \in {"success", "findings"}
               PROVE  Sealed(c)'
    OBVIOUS
  <2>1. Signed(c)' /\ Accepts(artifact, receipt)'
    BY ExitIsSigned
  <2> QED
    BY <2>1 DEF Sealed, Signed
<1> QED
  BY <1>1, SealableInvariance, PTL DEF Spec, ExitSealsEvidence

\* The receipts are as good when a child outlives its capture and still writes
\* to the logs: whatever becomes of the files, they are this capture's, of this
\* status and bound to each other.  Only what they fingerprint may move on.
ExitSigns ==
    [][\A c \in Captures :
          exit[c] = "none" /\ exit'[c] \in {"success", "findings"} => Signed(c)']_vars

THEOREM ExitSignsHolds == Spec => ExitSigns
<1>1. Sealable /\ [Next]_vars =>
         [\A c \in Captures :
             exit[c] = "none" /\ exit'[c] \in {"success", "findings"} => Signed(c)']_vars
  BY ExitIsSigned
<1> QED
  BY <1>1, SealableInvariance, PTL DEF Spec, ExitSigns

-----------------------------------------------------------------------------
(* Capture implements Custody, step by step.                               *)

\* What a reader accepts is the custodian's, and is one of its outcomes.
AcceptedIsCustodians ==
    Accepts(artifact, receipt) =>
        /\ receipt # Absent
        /\ custodian = receipt.by /\ custodian # Absent
        /\ accepted = [by |-> receipt.by, outcome |-> CommandStatus(receipt.status)]
        /\ accepted # Absent
        /\ CommandStatus(receipt.status) \in Promise!Outcomes

\* It follows from what is accepted being of one run.
LEMMA IInvCustodians == IInv => AcceptedIsCustodians
<1> SUFFICES ASSUME IInv, Accepts(artifact, receipt)
             PROVE  AcceptedIsCustodians
  BY DEF AcceptedIsCustodians
<1>1. receipt # Absent /\ receipt.by \in Captures /\ receipt.status \in Statuses
  BY DEF Accepts, IInv, TypeInv, TypeOK, Receipts
<1>2. CommandStatus(receipt.status) \in {"success", "findings", "trouble"}
  BY <1>1 DEF CommandStatus, Statuses
<1>3. WrittenBy(receipt.by, "manifest")
  BY AcceptedImpliesOneRun DEF AcceptedIsOneRun
<1>4. custodian = receipt.by /\ custodian # Absent
  BY <1>1, <1>3, AbsentAssumption DEF custodian, WrittenBy
<1>5. accepted = [by |-> receipt.by, outcome |-> CommandStatus(receipt.status)]
  BY DEF accepted
<1>6. accepted \in Evidences
  BY <1>1, <1>2, <1>5 DEF Evidences
<1> QED
  BY <1>1, <1>2, <1>4, <1>5, <1>6, AbsentEvidenceAssumption
     DEF Promise!Outcomes, AcceptedIsCustodians

\* A capture whose manifest is in place and which has not begun its receipt
\* has taken the evidence of the others away.
NothingAccepted ==
    \A c \in Captures :
        WrittenBy(c, "manifest") /\ pc[c] \notin Sealing \cup {"done", "crashed"}
            => accepted = Absent

\* It follows from the receipt not being its own.
LEMMA IInvNothingAccepted == IInv => NothingAccepted
<1> SUFFICES ASSUME IInv, NEW c \in Captures, WrittenBy(c, "manifest"),
                    pc[c] \notin Sealing \cup {"done", "crashed"},
                    Accepts(artifact, receipt)
             PROVE  FALSE
  BY DEF NothingAccepted, accepted
<1>1. receipt # Absent /\ receipt.by = c
  BY IInvCustodians DEF AcceptedIsCustodians, custodian, WrittenBy
<1> QED
  BY <1>1 DEF IInv, ReceiptAt

\* What the refinement needs of a state, and of the state after it.
Refinable == Sealable /\ AcceptedIsCustodians /\ NothingAccepted

\* A step that leaves the custodian, and the owner and the status of the
\* receipt, makes evidence acceptable, or no longer so, or does neither.
LEMMA SameCustodian ==
    ASSUME Refinable, Refinable', UNCHANGED <<custodian, exit>>,
           \/ UNCHANGED receipt
           \/ receipt'.by = receipt.by /\ receipt'.status = receipt.status
           \/ ~Accepts(artifact, receipt)'
    PROVE  [Promise!Next]_(Promise!vars)
<1> USE DEF Refinable, AcceptedIsCustodians
<1>1. CASE Accepts(artifact, receipt)'
  <2> DEFINE outcome == CommandStatus(receipt'.status)
  <2>1. /\ custodian' = receipt'.by /\ custodian' # Absent
        /\ accepted' = [by |-> receipt'.by, outcome |-> outcome]
        /\ outcome \in Promise!Outcomes
    BY <1>1
  <2>2. CASE Accepts(artifact, receipt)
    <3>1. receipt'.by = receipt.by /\ receipt'.status = receipt.status
      BY <1>1
    <3>2. accepted' = accepted
      BY <2>1, <2>2, <3>1
    <3> QED
      BY <3>2 DEF Promise!vars
  <2>3. CASE ~Accepts(artifact, receipt)
    <3>1. accepted = Absent
      BY <2>3 DEF accepted
    <3> HIDE DEF outcome
    <3>2. Promise!Seal(outcome)
      BY <2>1, <3>1 DEF Promise!Seal
    <3> QED
      BY <2>1, <3>2 DEF Promise!Next
  <2> QED
    BY <2>2, <2>3
<1>2. CASE ~Accepts(artifact, receipt)'
  <2>1. accepted' = Absent
    BY <1>2 DEF accepted
  <2>2. CASE accepted = Absent
    BY <2>1, <2>2 DEF Promise!vars
  <2>3. CASE accepted # Absent
    BY <2>1, <2>3 DEF Promise!Unseal, Promise!Next
  <2> QED
    BY <2>2, <2>3
<1> QED
  BY <1>1, <1>2

\* The manifest changes hands when it is opened, and only then.
LEMMA CustodianChanges ==
    ASSUME IInv, NEW c \in Captures, Step(c)
    PROVE  \/ UNCHANGED custodian
           \/ /\ OpenManifest(c)
              /\ custodian' = c /\ WrittenBy(c, "manifest")'
              /\ pc'[c] = "close_manifest"
              /\ UNCHANGED <<receipt, exit>>
<1> USE NewContents DEF IInv, TypeInv, TypeOK, Roles
<1>1. CASE OpenManifest(c)
  <2>1. CASE UNCHANGED artifact
    BY <2>1 DEF custodian
  <2>2. CASE artifact' # artifact
    <3>1. /\ Truncated(c, "manifest", FALSE)
          /\ pc' = [pc EXCEPT ![c] = "close_manifest"]
          /\ UNCHANGED <<receipt, exit>>
      BY <1>1, <2>2, Zenon DEF OpenManifest, Truncated
    <3>2. artifact'["manifest"] = Torn(c)
      BY <3>1 DEF Truncated
    <3> QED
      BY <1>1, <3>1, <3>2 DEF custodian, WrittenBy
  <2> QED
    BY <2>1, <2>2
<1>2. CASE CloseManifest(c)
  <2>1. WrittenBy(c, "manifest")
    BY <1>2 DEF CloseManifest, Files, ManifestAt
  <2>2. artifact' = artifact \/ artifact'["manifest"] = Whole(c)
    BY <1>2 DEF CloseManifest, Flushed
  <2> QED
    BY <2>1, <2>2 DEF custodian, WrittenBy
<1>3. CASE artifact'["manifest"] = artifact["manifest"]
  BY <1>3 DEF custodian
<1>4. CASE OpenCommand(c) \/ CloseCommand(c) \/ OpenSummary(c) \/ CloseSummary(c)
  BY <1>3, <1>4 DEF OpenCommand, CloseCommand, OpenSummary, CloseSummary,
                    Truncated, Flushed
<1>5. CASE CreateResourceLog(c) \/ CreateCallLog(c)
  BY <1>3, <1>5 DEF CreateResourceLog, CreateCallLog, CreateEmptyFile
<1>6. CASE Spawn(c)
  <2>1. ASSUME NEW roles \in {{}, {"stdout"}, {"stdout", "stderr"}},
               Redirected(c, roles)
        PROVE  artifact'["manifest"] = artifact["manifest"]
    BY <2>1 DEF Redirected
  <2> QED
    BY <1>3, <1>6, <2>1 DEF Spawn
<1>7. CASE UNCHANGED artifact
  BY <1>3, <1>7
<1> QED
  BY <1>1, <1>2, <1>4, <1>5, <1>6, <1>7
     DEF Step, MakeReportPaths, CreateReportDir, WaitCommand, OpenReceipt,
         FingerprintArtifact, FingerprintsDone, CloseReceipt, OpenToolReceipt,
         CloseToolReceipt, FinishCapture

\* Opening the manifest takes the directory over.
LEMMA TakeRefined ==
    ASSUME Refinable, Refinable', NEW c \in Captures, exit[c] = "none",
           custodian' = c, WrittenBy(c, "manifest")', pc'[c] = "close_manifest",
           UNCHANGED exit
    PROVE  Promise!Take(c)
<1>1. accepted' = Absent
  BY DEF Refinable, NothingAccepted, Sealing
<1> QED
  BY <1>1 DEF Promise!Take

\* A capture that exits 2 leaves what a reader accepts as it was.
LEMMA TroubleRefined ==
    ASSUME Refinable, Refinable', NEW c \in Captures, Step(c), exit[c] = "none",
           exit' = [exit EXCEPT ![c] = "trouble"],
           UNCHANGED <<custodian, receipt>>,
           UNCHANGED artifact \/ CloseManifest(c) \/ CreateCallLog(c)
    PROVE  Promise!ExitTrouble(c)
<1>1. accepted' = accepted
  <2>1. CASE UNCHANGED artifact
    BY <2>1 DEF accepted
  <2>2. CASE CloseManifest(c) \/ CreateCallLog(c)
    <3>1. /\ pc[c] \in {"close_manifest", "create_call_log"}
          /\ WrittenBy(c, "manifest")
      BY <2>2 DEF CloseManifest, CreateCallLog, Refinable, Sealable, IInv, Files,
                  ManifestAt, Recorded
    <3>2. accepted = Absent
      BY <3>1 DEF Refinable, NothingAccepted, Sealing
    <3>3. ~(receipt # Absent /\ receipt.by = c)
      BY <3>1 DEF Refinable, Sealable, IInv, ReceiptAt, Sealing
    <3>4. custodian' = c
      BY <3>1 DEF custodian, WrittenBy
    <3>5. ~Accepts(artifact, receipt)'
      BY <3>3, <3>4 DEF Refinable, AcceptedIsCustodians
    <3>6. accepted' = Absent
      BY <3>5 DEF accepted
    <3> QED
      BY <3>2, <3>6
  <2> QED
    BY <2>1, <2>2
<1> QED
  BY <1>1 DEF Promise!ExitTrouble

\* A capture that exits 0 or 1 does so while its own evidence, with that
\* outcome, is what a reader accepts.
LEMMA ExitRefined ==
    ASSUME Refinable, Lingering = FALSE, NEW c \in Captures, exit[c] = "none",
           FinishCapture(c), ~err[c],
           exit' = [exit EXCEPT ![c] =
                       IF StatusIsSuccess(status[c]) THEN "success" ELSE "findings"]
    PROVE  \E code \in Promise!Outcomes : Promise!ExitSealed(c, code)
<1> DEFINE code == IF StatusIsSuccess(status[c]) THEN "success" ELSE "findings"
<1>1. pc[c] = "finish" /\ UNCHANGED <<artifact, receipt>>
  BY DEF FinishCapture
<1>2. Accepts(artifact, receipt) /\ receipt.by = c /\ receipt.status = status[c]
  BY <1>1, FinishSealed DEF Refinable
<1>3. /\ accepted = [by |-> c, outcome |-> CommandStatus(status[c])]
      /\ accepted # Absent
  BY <1>2 DEF Refinable, AcceptedIsCustodians
<1>4. accepted.by = c /\ accepted.outcome = CommandStatus(status[c])
  BY <1>3
<1>5. Promise!Agrees(code, accepted.outcome)
  <2>1. status[c] \in Statuses
    BY DEF Refinable, Sealable, IInv, TypeInv, TypeOK
  <2>2. CommandStatus(status[c]) = "success" <=> status[c] = "exit0"
    BY <2>1 DEF CommandStatus, Statuses
  <2> QED
    BY <1>4, <2>2 DEF Promise!Agrees, StatusIsSuccess
<1>6. custodian' = custodian /\ accepted' = accepted
  BY <1>1 DEF custodian, accepted
<1>7. code \in {"success", "findings"} /\ code \in Promise!Outcomes
  BY DEF Promise!Outcomes
<1>8. exit' = [exit EXCEPT ![c] = code]
  OBVIOUS
<1> HIDE DEF code
<1>9. Promise!ExitSealed(c, code)
  BY <1>3, <1>4, <1>5, <1>6, <1>7, <1>8 DEF Promise!ExitSealed
<1> QED
  BY <1>7, <1>9

\* Every step of a capture's process is a step of Custody, or none.
LEMMA StepRefined ==
    ASSUME Refinable, Lingering = FALSE, Refinable', NEW c \in Captures, Step(c)
    PROVE  [Promise!Next]_(Promise!vars)
<1>1. exit[c] = "none"
  BY HowItExits DEF Refinable, Sealable, IInv, TypeInv
<1>2. CASE /\ custodian' = c /\ WrittenBy(c, "manifest")'
           /\ pc'[c] = "close_manifest" /\ UNCHANGED exit
  BY <1>1, <1>2, TakeRefined DEF Promise!Next
<1>3. CASE UNCHANGED <<custodian, exit>>
  <2>1. CASE UNCHANGED receipt
    BY <1>3, <2>1, SameCustodian
  <2>2. CASE receipt' = [by |-> c, status |-> status[c], lines |-> <<>>]
    <3>1. DOMAIN receipt'.lines = {}
      BY <2>2
    <3>2. "manifest" \in Roles
      BY DEF Roles
    <3>3. ~Accepts(artifact, receipt)'
      BY <3>1, <3>2 DEF Accepts
    <3> QED
      BY <1>3, <3>3, SameCustodian
  <2>3. CASE FingerprintArtifact(c) \/ CloseReceipt(c)
    <3>1. receipt'.by = receipt.by /\ receipt'.status = receipt.status
      BY <2>3, ReceiptGrows, ReceiptCut DEF Refinable, Sealable, IInv
    <3> QED
      BY <1>3, <3>1, SameCustodian
  <2> QED
    BY <2>1, <2>2, <2>3, ReceiptChanges DEF Refinable, Sealable, IInv
<1>4. CASE /\ exit' = [exit EXCEPT ![c] = "trouble"]
           /\ UNCHANGED <<custodian, receipt>>
           /\ UNCHANGED artifact \/ CloseManifest(c) \/ CreateCallLog(c)
  BY <1>1, <1>4, TroubleRefined DEF Promise!Next
<1>5. CASE /\ FinishCapture(c) /\ ~err[c]
           /\ exit' = [exit EXCEPT ![c] =
                  IF StatusIsSuccess(status[c]) THEN "success" ELSE "findings"]
  BY <1>1, <1>5, ExitRefined DEF Promise!Next
<1>6. \/ UNCHANGED custodian
      \/ /\ custodian' = c /\ WrittenBy(c, "manifest")'
         /\ pc'[c] = "close_manifest" /\ UNCHANGED exit
  BY CustodianChanges DEF Refinable, Sealable
<1> QED
  BY <1>2, <1>3, <1>4, <1>5, <1>6, HowItExits DEF Refinable, Sealable, IInv, TypeInv

\* What a child writes, and a kill, at most make evidence unacceptable.
LEMMA ElseRefined ==
    ASSUME Refinable, Refinable', NEW c \in Captures, Child(c) \/ Crash(c)
    PROVE  [Promise!Next]_(Promise!vars)
<1>1. UNCHANGED <<receipt, exit>>
  BY DEF Child, ChildWrites, ChildExits, Crash
<1>2. UNCHANGED custodian
  <2>1. CASE Child(c)
    BY <2>1, ChildKeeps DEF Refinable, Sealable, IInv, Roles, custodian
  <2>2. CASE Crash(c)
    BY <2>2 DEF Crash, custodian
  <2> QED
    BY <2>1, <2>2
<1> QED
  BY <1>1, <1>2, SameCustodian

\* Captures of one directory, one after another, with failing calls and kills
\* at any point, keep the promise of Custody.
THEOREM CaptureImplementsCustody ==
    ASSUME Lingering = FALSE PROVE Spec => ImplementsCustody
<1>1. Init => Promise!Init
  <2> SUFFICES ASSUME Init PROVE Promise!Init
    OBVIOUS
  <2>1. custodian = Absent
    BY DEF Init, custodian, Roles
  <2>2. accepted = Absent
    BY DEF Init, accepted, Accepts
  <2> QED
    BY <2>1, <2>2 DEF Init, Promise!Init
<1>2. Refinable /\ Refinable' /\ [Next]_vars => [Promise!Next]_(Promise!vars)
  <2> SUFFICES ASSUME Refinable, Refinable', [Next]_vars
               PROVE  [Promise!Next]_(Promise!vars)
    OBVIOUS
  <2>1. CASE UNCHANGED vars
    BY <2>1 DEF vars, Promise!vars, custodian, accepted
  <2> QED
    BY <2>1, StepRefined, ElseRefined DEF Next, Terminating
<1>3. Sealable => Refinable
  BY IInvCustodians, IInvNothingAccepted DEF Sealable, Refinable
<1> QED
  BY <1>1, <1>2, <1>3, SealableInvariance, PTL DEF Spec, ImplementsCustody, Promise!Spec
=============================================================================
