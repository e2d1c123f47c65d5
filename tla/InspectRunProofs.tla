--------------------------- MODULE InspectRunProofs ---------------------------
(***************************************************************************)
(* That p101-inspect run uses its directory once, for any number of runs   *)
(* of one path, whatever fails, is killed or is started again; and what    *)
(* the exit status of run promises of the evidence, that it goes on doing  *)
(* so and that the evidence stays, with and without a late writer.  The    *)
(* invariants of Capture and Analyze are used as they are proved for these *)
(* alone.                                                                  *)
(***************************************************************************)
EXTENDS InspectRun, CaptureProofs

\* What is proved of Analyze, of the invocation in each run.
AP == INSTANCE AnalyzeProofs
      WITH Analyzers <- Captures, pc <- analyzePc, exit <- analyzeExit

-----------------------------------------------------------------------------
(* A and AP are instances of one module.                                   *)

\* The assumptions of Analyze hold of this instance.
LEMMA AnalyzeAssumed ==
    /\ Outputs \subseteq AP!Inputs \cup {"stdout"}
    /\ Flagged \subseteq AP!Inputs
    /\ Lingering \in BOOLEAN
    /\ Absent \notin AP!Files
    /\ Absent \notin AP!Content /\ Absent \notin AP!Prints /\ Absent \notin Captures
BY OutputsAssumption, FlaggedAssumption, LingeringAssumption, AbsentAssumption,
   AbsentFileAssumption
   DEF LogRoles, A!Inputs, AP!Inputs, A!Files, AP!Files, A!Content, AP!Content,
       A!Analyses, AP!Analyses, A!Summaries, AP!Summaries, A!Manifests,
       AP!Manifests, A!OutcomeReceipts, AP!OutcomeReceipts, A!Listed, AP!Listed,
       Content, Prints, AP!Prints

LEMMA SameData ==
    /\ A!Names = AP!Names /\ A!Inputs = AP!Inputs /\ A!Copies = AP!Copies
    /\ A!Nothing = AP!Nothing
    /\ A!AnalysisResult <=> AP!AnalysisResult
    /\ A!Outcome = AP!Outcome /\ A!Replayed = AP!Replayed
    /\ \A inputs : A!Verdict(inputs) = AP!Verdict(inputs)
BY DEF A!Names, AP!Names, A!Listed, AP!Listed, A!Inputs, AP!Inputs, A!Copies,
       AP!Copies, A!Nothing, AP!Nothing, A!AnalysisResult, AP!AnalysisResult,
       A!IsWhole, AP!IsWhole, A!Fingerprint, AP!Fingerprint, A!Outcome,
       AP!Outcome, A!Replayed, AP!Replayed, A!Verdict, AP!Verdict

LEMMA SameStep ==
    ASSUME NEW r, A!Step(r)
    PROVE  AP!Step(r)
<1> USE DEF A!Goto, AP!Goto, A!Trouble, AP!Trouble, A!VerifyFails,
            AP!VerifyFails, A!setting, AP!setting, A!captureVars,
            AP!captureVars, A!admission, AP!admission
<1>1. CASE A!Start(r)
  BY <1>1 DEF A!Start, AP!Start, A!GoOn, AP!GoOn, A!AtWork, AP!AtWork, AP!Step
<1>2. CASE A!VerifyCapture(r)
  BY <1>2 DEF A!VerifyCapture, AP!VerifyCapture, AP!Step, A!CommandStatus,
              AP!CommandStatus
<1>3. CASE A!VerifyArtifact(r)
  BY <1>3 DEF A!VerifyArtifact, AP!VerifyArtifact, AP!Step, A!Matches,
              AP!Matches, A!Bytes, AP!Bytes, A!LogRoles, AP!LogRoles
<1>4. CASE A!VerifyDone(r)
  BY <1>4 DEF A!VerifyDone, AP!VerifyDone, AP!Step, A!Roles, AP!Roles
<1>5. CASE A!IngestResources(r) \/ A!IngestCalls(r) \/ A!RunAnalysis(r)
  BY <1>5 DEF A!IngestResources, AP!IngestResources, A!IngestCalls,
     AP!IngestCalls, A!RunAnalysis, AP!RunAnalysis, A!Reads, AP!Reads, AP!Step
<1>6. CASE A!WriteBundle(r)
  BY <1>6 DEF A!WriteBundle, AP!WriteBundle, AP!Step, A!Written, AP!Written,
              A!Ragged, AP!Ragged, A!Mixed, AP!Mixed
<1>7. ASSUME NEW name, NEW readable, NEW data, NEW next,
             A!Writes(r, name, readable, data, next)
      PROVE  AP!Writes(r, name, readable, data, next)
  BY <1>7 DEF A!Writes, AP!Writes, A!Opens, AP!Opens, A!Closes, AP!Closes,
              A!Written, AP!Written, A!Ragged, AP!Ragged, A!Mixed, AP!Mixed
<1>8. CASE A!WriteModelFile(r) \/ A!CopyAnalysisInputs(r)
  BY <1>7, <1>8 DEF A!WriteModelFile, AP!WriteModelFile, A!CopyAnalysisInputs,
     AP!CopyAnalysisInputs, A!CopyInput, AP!CopyInput, A!Copies, AP!Copies,
     AP!Step
<1>9. CASE A!WriteFindingIndex(r) \/ A!WriteAnalysisSummary(r)
  BY <1>7, <1>9, SameData DEF A!WriteFindingIndex, AP!WriteFindingIndex,
     A!WriteAnalysisSummary, AP!WriteAnalysisSummary, AP!Step
<1>10. CASE A!WriteAnalysisManifest(r)
  BY <1>7, <1>10 DEF A!WriteAnalysisManifest, AP!WriteAnalysisManifest,
     A!Fingerprint, AP!Fingerprint, A!Listed, AP!Listed, AP!Step
<1>11. CASE A!WriteAnalysisReceipt(r)
  BY <1>7, <1>11, SameData DEF A!WriteAnalysisReceipt, AP!WriteAnalysisReceipt,
     A!Fingerprint, AP!Fingerprint, AP!Step
<1>12. CASE A!FinishAnalyze(r)
  BY <1>12, SameData DEF A!FinishAnalyze, AP!FinishAnalyze, AP!Step
<1>13. CASE A!Flush(r)
  BY <1>13 DEF A!Flush, AP!Flush, A!AtWork, AP!AtWork, A!Ragged, AP!Ragged,
     A!Mixed, AP!Mixed, AP!Step
<1> QED
  BY <1>1, <1>2, <1>3, <1>4, <1>5, <1>6, <1>8, <1>9, <1>10, <1>11, <1>12, <1>13
     DEF A!Step

-----------------------------------------------------------------------------
(* The directory.                                                          *)

\* The run that the directory is for: it made it, or its capture was started.
Holder(r) == runPc[r] \in {"spawn", "wait", "analyze"} \/ r \in spawned

RunInv ==
    /\ runPc \in [Captures -> RunStages]
    /\ ~dir => \A r \in Captures : ~Holder(r)
    /\ \A r, s \in Captures : Holder(r) /\ Holder(s) => r = s
    /\ spawned \subseteq Captures
    /\ \A r \in Captures : runPc[r] \in {"wait", "analyze"} => r \in spawned
    /\ \A r \in Captures : analyzePc[r] # "start" => r \in spawned
    /\ overlapped \in BOOLEAN /\ ~overlapped
    /\ \A n \in A!Names : product[n] # Absent => product[n].by \in spawned

\* One run at most gets past mkdir, and only it starts a capture.
LEMMA RunInvNext == RunInv /\ AP!IInv /\ [RunNext]_allVars => RunInv'
<1> SUFFICES ASSUME RunInv, AP!IInv, [RunNext]_allVars PROVE RunInv'
  OBVIOUS
<1>1. ASSUME NEW r \in Captures, NEW stage \in {"mkdir", "done", "crashed"},
             runPc' = [runPc EXCEPT ![r] = stage],
             UNCHANGED <<spawned, dir, product, overlapped>>,
             \A s \in Captures : analyzePc'[s] # "start" => analyzePc[s] # "start"
      PROVE  RunInv'
  <2>1. stage \in RunStages
    BY DEF RunStages
  <2>2. \A s \in Captures : Holder(s)' => Holder(s)
    BY <1>1 DEF Holder, RunInv
  <2> QED
    BY <1>1, <2>1, <2>2 DEF RunInv
<1>2. ASSUME NEW r \in Captures, NEW code, RunReturns(r, code),
             UNCHANGED <<dir, spawned, product, overlapped, analyzePc>>
      PROVE  RunInv'
  <2>1. /\ "done" \in RunStages /\ runPc' = [runPc EXCEPT ![r] = "done"]
        /\ UNCHANGED <<spawned, dir, product, overlapped>>
    BY <1>2 DEF RunReturns, RunStages
  <2> QED
    BY <1>1, <1>2, <2>1
<1>3. ASSUME NEW r \in Captures, Lstat(r) \/ Mkdir(r) \/ SpawnCapture(r)
             \/ WaitCapture(r) \/ FinishRun(r)
      PROVE  RunInv'
  <2>1. UNCHANGED <<product, overlapped, analyzePc>>
    BY <1>3 DEF Lstat, Mkdir, SpawnCapture, WaitCapture, FinishRun, analyzeVars
  <2>2. CASE Lstat(r)
    <3>1. CASE RunGoto(r, "mkdir")
      <4>1. /\ "mkdir" \in RunStages
            /\ runPc' = [runPc EXCEPT ![r] = "mkdir"]
            /\ UNCHANGED <<spawned, dir, product, overlapped>>
        BY <2>1, <2>2, <3>1 DEF Lstat, RunGoto, RunStages
      <4> QED
        BY <1>1, <2>1, <4>1
    <3> QED
      BY <1>2, <2>1, <2>2, <3>1 DEF Lstat
  <2>3. CASE Mkdir(r)
    <3>1. CASE ~dir /\ dir' = TRUE /\ RunGoto(r, "spawn")
      <4>1. \A s \in Captures : Holder(s)' => s = r
        BY <2>3, <3>1 DEF Mkdir, RunGoto, RunInv, Holder
      <4> QED
        BY <2>1, <2>3, <3>1, <4>1 DEF Mkdir, RunGoto, RunInv, RunStages
    <3> QED
      BY <1>2, <2>1, <2>3, <3>1 DEF Mkdir
  <2>4. CASE SpawnCapture(r)
    <3>1. CASE RunGoto(r, "wait") /\ spawned' = spawned \cup {r}
      <4>1. "wait" \in RunStages /\ UNCHANGED dir /\ runPc[r] = "spawn"
        BY <2>4 DEF SpawnCapture, RunStages
      <4> QED
        BY <2>1, <3>1, <4>1 DEF RunGoto, RunInv, Holder
    <3> QED
      BY <1>2, <2>1, <2>4, <3>1 DEF SpawnCapture
  <2>5. CASE WaitCapture(r)
    <3>1. CASE RunGoto(r, "analyze")
      <4>1. "analyze" \in RunStages /\ UNCHANGED <<dir, spawned>> /\ r \in spawned
        BY <2>5 DEF WaitCapture, RunStages, RunInv
      <4> QED
        BY <2>1, <2>5, <3>1, <4>1 DEF RunGoto, RunInv, Holder, WaitCapture
    <3> QED
      BY <1>2, <2>1, <2>5, <3>1 DEF WaitCapture
  <2>6. CASE FinishRun(r)
    BY <1>2, <2>1, <2>6 DEF FinishRun
  <2> QED
    BY <1>3, <2>2, <2>3, <2>4, <2>5, <2>6
<1>4. ASSUME NEW r \in Captures, AnalyzeStep(r) PROVE RunInv'
  <2>1. AP!Step(r)
    BY <1>4, SameStep DEF AnalyzeStep
  <2>2. \A n \in A!Names : product'[n] = product[n] \/ product'[n].by = r
    BY <2>1, SameData, AnalyzeAssumed, AP!WritesOwn
  <2>3. UNCHANGED <<dir, runPc, spawned>> /\ r \in spawned
    BY <1>4 DEF AnalyzeStep, runVars, RunInv
  <2>4. \A s \in Captures \ {r} : analyzePc'[s] = analyzePc[s]
    BY <2>1, AnalyzeAssumed, AP!StepActs DEF AP!IInv
  <2>5. overlapped' \in BOOLEAN /\ ~overlapped'
    <3>1. \A b \in Captures : AP!AtWork(b) => b = r /\ analyzePc[b] # "start"
      BY <2>3 DEF AP!AtWork, RunInv, Holder
    <3> QED
      BY <2>1, <3>1, AnalyzeAssumed, AP!OverlapBegins DEF RunInv
  <2> QED
    BY <2>2, <2>3, <2>4, <2>5 DEF Holder, RunInv
<1>5. ASSUME NEW r \in Captures, CaptureStep(r) \/ CaptureCrash(r) PROVE RunInv'
  BY <1>5 DEF CaptureStep, CaptureCrash, runVars, analyzeVars, Holder, RunInv
<1>6. ASSUME NEW r \in Captures, RunCrash(r) PROVE RunInv'
  <2>1. /\ "crashed" \in RunStages
        /\ runPc' = [runPc EXCEPT ![r] = "crashed"]
        /\ UNCHANGED <<spawned, dir, product, overlapped>>
    BY <1>6 DEF RunCrash, RunGoto, RunStages
  <2>2. \A s \in Captures : analyzePc'[s] # "start" => analyzePc[s] # "start"
    BY <1>6 DEF RunCrash, AP!IInv, AP!ProgramTypeOK
  <2> QED
    BY <1>1, <2>1, <2>2
<1>7. CASE UNCHANGED allVars
  BY <1>7 DEF allVars, runVars, analyzeVars, Holder, RunInv
<1> QED
  BY <1>3, <1>4, <1>5, <1>6, <1>7 DEF RunNext, RunStep, RunTerminating

-----------------------------------------------------------------------------
(* The capture and the analysis of a run, joined.                          *)

\* Only a started inspect-capture does anything; once it is done, it has given
\* up or its receipts are signed, and hold if nobody writes late.
CaptureOf(r) ==
    /\ r \notin spawned => pc[r] = "make_report_paths"
    /\ r \in spawned /\ pc[r] = "done" =>
          \/ exit[r] = "trouble"
          \/ Signed(r) /\ (~Lingering => Accepts(artifact, receipt))
    /\ runPc[r] = "analyze" => pc[r] = "done" /\ exit[r] # "trouble"

\* The analysis begins when that is over, is not forced, and what it returns
\* is of the evidence.
AnalysisOf(r) ==
    /\ force[r] = FALSE
    /\ analyzePc[r] # "start" => r \in spawned /\ pc[r] = "done"
    /\ runPc[r] \in {"lstat", "mkdir", "spawn", "wait"} => analyzePc[r] = "start"
    /\ analyzeExit[r] # "none" => analyzePc[r] = "done"
    /\ analyzeExit[r] \in {"success", "findings"} =>
          /\ AP!AnalysisResult
          /\ verified[r]
          /\ analyzeExit[r] = "findings" <=>
                AP!Outcome = "findings" \/ receipt.status = "exitN"

\* Zero and one are returned of a capture and an analysis that returned these.
Combined(r, code) ==
    code \in {"success", "findings"} =>
        /\ r \in spawned /\ pc[r] = "done" /\ exit[r] # "trouble"
        /\ analyzeExit[r] \in {"success", "findings"}
        /\ code = "success" <=> exit[r] # "findings" /\ analyzeExit[r] = "success"

\* A run has a status when it is done.
ReturnOf(r) ==
    /\ runExit[r] # "none" => runPc[r] = "done"
    /\ Combined(r, runExit[r])

Joined ==
    /\ AP!IInv /\ AP!Unforced
    /\ (\A r \in Captures : analyzePc[r] = "start") => AP!Untried
    /\ \A r \in Captures : CaptureOf(r) /\ AnalysisOf(r) /\ ReturnOf(r)
    /\ dir \in BOOLEAN
    /\ runExit \in [Captures -> ExitCodes]

\* Analyze's invariant in a state where no analysis has begun.
LEMMA UntriedJoined ==
    AP!Untried /\ TypeOK /\ ReceiptLines => AP!IInv
<1>1. SUFFICES ASSUME AP!Untried, TypeOK, ReceiptLines
               PROVE  AP!IInv
  OBVIOUS
<1>2. AP!Roles = Roles /\ AP!Content = Content /\ AP!Statuses = Statuses
  BY DEF AP!Roles, Roles, AP!Content, Content, AP!Statuses, Statuses
<1>3. AP!Lines = Lines
  BY <1>2 DEF AP!Lines, Lines, AP!Prints, Prints
<1>4. AP!Receipts = Receipts
  BY <1>2, <1>3 DEF AP!Receipts, Receipts
<1>5. /\ artifact \in [AP!Roles -> AP!Content \cup {Absent}]
      /\ receipt \in AP!Receipts \cup {Absent}
      /\ receipt # Absent => Len(receipt.lines) <= 7
  BY <1>1, <1>2, <1>4 DEF TypeOK, ReceiptLines, LinesOrdered
<1> QED
  BY <1>1, <1>5, AnalyzeAssumed, AP!UntriedHolds

LEMMA UntriedJoinedNext ==
    (AP!Untried /\ TypeOK /\ ReceiptLines)' => AP!IInv'
BY UntriedJoined, PTL

\* The invariants of Analyze when it stands still.
LEMMA AnalyzeStands ==
    ASSUME AP!IInv, AP!Unforced, ~overlapped,
           UNCHANGED <<artifact, receipt, analyzeVars>>
    PROVE  /\ AP!IInv' /\ AP!Unforced'
           /\ AP!Untried' <=> AP!Untried
           /\ AP!AnalysisResult' <=> AP!AnalysisResult
           /\ AP!Outcome' = AP!Outcome
<1>1. UNCHANGED <<artifact, receipt, product, exists, analyzePc, force, observed,
                  verified, command, analysis, open, analyzeExit, overlapped>>
  BY DEF analyzeVars
<1>2. UNCHANGED AP!vars
  BY <1>1 DEF AP!vars, AP!captureVars, AP!admission
<1>3. AP!IInv'
  BY <1>1, <1>2, AnalyzeAssumed, AP!NextKeeps
<1>4. AP!Unforced'
  BY <1>1 DEF AP!Unforced
<1> QED
  BY <1>1, <1>3, <1>4 DEF AP!Untried, AP!AnalysisResult, AP!IsWhole, AP!Outcome

\* What a capture signed stays while its receipts and its status do.
LEMMA SignedStands ==
    ASSUME NEW r, UNCHANGED <<receipt, toolReceipt, exit>>
    PROVE  Signed(r)' <=> Signed(r)
BY DEF Signed

LEMMA JoinedInit == RunInit => Joined
<1> SUFFICES ASSUME RunInit PROVE Joined
  OBVIOUS
<1>1. Init /\ TypeOK /\ receipt = Absent
  BY TypeInit DEF RunInit, Init
<1>2. AP!Untried
  BY SameData DEF RunInit, AP!Untried
<1>3. AP!IInv
  BY <1>1, <1>2, UntriedJoined DEF ReceiptLines
<1>4. AP!Unforced
  BY <1>2 DEF AP!Unforced, AP!Untried
<1> QED
  BY <1>1, <1>2, <1>3, <1>4
     DEF RunInit, Init, Joined, CaptureOf, AnalysisOf, ReturnOf, Combined, ExitCodes

\* run_command's own steps leave the evidence alone.
LEMMA OwnJoined ==
    ASSUME Joined, RunInv, NEW r \in Captures, UNCHANGED <<vars, analyzeVars>>,
           \A s \in Captures \ {r} : runPc'[s] = runPc[s] /\ runExit'[s] = runExit[s],
           spawned' \in {spawned, spawned \cup {r}},
           runPc'[r] = "analyze" => pc[r] = "done" /\ exit[r] # "trouble",
           runPc'[r] \in {"lstat", "mkdir", "spawn", "wait"} =>
               runPc[r] \in {"lstat", "mkdir", "spawn", "wait"},
           runExit'[r] # "none" => runPc'[r] = "done",
           Combined(r, runExit'[r]),
           dir' \in BOOLEAN, runExit' \in [Captures -> ExitCodes]
    PROVE  Joined'
<1>1. UNCHANGED <<artifact, receipt, toolReceipt, pc, exit>>
      /\ UNCHANGED <<analyzePc, force, verified, analyzeExit>>
  BY DEF vars, analyzeVars
<1>2. /\ AP!IInv' /\ AP!Unforced'
      /\ AP!Untried' <=> AP!Untried
      /\ AP!AnalysisResult' <=> AP!AnalysisResult
      /\ AP!Outcome' = AP!Outcome
  BY <1>1, AnalyzeStands DEF Joined, RunInv
<1>3. ASSUME NEW s \in Captures PROVE CaptureOf(s)' /\ AnalysisOf(s)' /\ ReturnOf(s)'
  <2>1. CaptureOf(s) /\ AnalysisOf(s) /\ ReturnOf(s)
    BY DEF Joined
  <2>2. Signed(s)' <=> Signed(s)
    BY <1>1, SignedStands
  <2>3. CaptureOf(s)'
    BY <1>1, <2>1, <2>2 DEF CaptureOf
  <2>4. AnalysisOf(s)'
    BY <1>1, <1>2, <2>1 DEF AnalysisOf
  <2>5. ReturnOf(s)'
    BY <1>1, <2>1 DEF ReturnOf, Combined
  <2> QED
    BY <2>3, <2>4, <2>5
<1> QED
  BY <1>1, <1>2, <1>3 DEF Joined

\* An analysis is of the run that has the directory, and returns what it found.
LEMMA AnalyzeJoined ==
    ASSUME Joined, RunInv, RunInv', NEW r \in Captures, AnalyzeStep(r)
    PROVE  Joined'
<1>1. /\ runPc[r] = "analyze" /\ r \in spawned
      /\ UNCHANGED <<toolReceipt, pc, err, child, status, exit>>
      /\ UNCHANGED <<dir, runPc, runExit, spawned>>
      /\ ~force'[r]
  BY DEF AnalyzeStep, runVars, RunInv
<1>2. AP!Step(r)
  BY SameStep DEF AnalyzeStep
<1>3. UNCHANGED <<artifact, receipt>>
  BY DEF AnalyzeStep, A!Step, A!Start, A!VerifyCapture, A!VerifyArtifact,
     A!VerifyDone, A!IngestResources, A!IngestCalls, A!RunAnalysis, A!Reads,
     A!WriteBundle, A!WriteModelFile, A!CopyAnalysisInputs, A!CopyInput,
     A!WriteFindingIndex, A!WriteAnalysisSummary, A!WriteAnalysisManifest,
     A!WriteAnalysisReceipt, A!Flush, A!FinishAnalyze, A!Writes,
     A!setting, A!captureVars
<1>4. [AP!Next]_(AP!vars)
  BY <1>2 DEF AP!Next
<1>5. AP!IInv /\ AP!Unforced /\ AP!ProgramTypeOK
  BY DEF Joined, AP!IInv
<1>6. AP!IInv'
  BY <1>4, <1>5, AnalyzeAssumed, AP!NextKeeps DEF RunInv
<1>7. AP!Unforced'
  BY <1>2, <1>5, AnalyzeAssumed, AP!UnforcedKept
<1>8. /\ analyzePc[r] \notin {"done", "crashed"} /\ analyzePc'[r] # "start"
      /\ analyzeExit'[r] # analyzeExit[r] => analyzePc'[r] = "done"
      /\ \A s \in Captures \ {r} :
            /\ analyzePc'[s] = analyzePc[s] /\ analyzeExit'[s] = analyzeExit[s]
            /\ force'[s] = force[s]
  BY <1>2, <1>5, AnalyzeAssumed, AP!StepActs
<1>9. ASSUME NEW s \in Captures PROVE CaptureOf(s)' /\ ReturnOf(s)'
  <2>1. Signed(s)' <=> Signed(s)
    BY <1>1, <1>3, SignedStands
  <2>2. CaptureOf(s)'
    BY <1>1, <1>3, <2>1 DEF Joined, CaptureOf
  <2>3. ReturnOf(s)'
    <3>1. ReturnOf(s) /\ runExit'[s] = runExit[s] /\ runPc'[s] = runPc[s]
      BY <1>1 DEF Joined
    <3>2. CASE s = r
      BY <1>1, <3>1, <3>2 DEF ReturnOf, Combined
    <3>3. CASE s # r
      BY <1>1, <1>8, <3>1, <3>3 DEF ReturnOf, Combined
    <3> QED
      BY <3>2, <3>3
  <2> QED
    BY <2>2, <2>3
<1>10. AnalysisOf(r) /\ CaptureOf(r)
  BY DEF Joined
<1>11. analyzeExit[r] = "none"
  BY <1>8, <1>10 DEF AnalysisOf
<1>12. ASSUME analyzeExit'[r] \in {"success", "findings"}
       PROVE  /\ AP!AnalysisResult' /\ verified'[r]
              /\ analyzeExit'[r] = "findings" <=>
                    AP!Outcome' = "findings" \/ receipt'.status = "exitN"
  <2>1. AP!FinishAnalyze(r)
    BY <1>4, <1>5, <1>11, <1>12, AnalyzeAssumed, AP!OnlyFinishReturns
  <2>2. analyzePc[r] = "finish"
    BY <2>1 DEF AP!FinishAnalyze
  <2>3. verified[r] /\ verified' = verified
    BY <1>5, <1>10, <2>1, <2>2
       DEF AP!Unforced, AP!Verifying, AnalysisOf, AP!FinishAnalyze, AP!admission
  <2>4. /\ AP!AnalysisResult'
        /\ verified[r] =>
              (analyzeExit'[r] = "findings" <=>
                  AP!Outcome' = "findings" \/ receipt.status = "exitN")
    BY <1>4, <1>5, <1>11, <1>12, AnalyzeAssumed, AP!ExitsMatch
  <2> QED
    BY <1>3, <2>3, <2>4
<1>13. AnalysisOf(r)'
  <2>1. force'[r] = FALSE
    BY <1>1, <1>6 DEF AP!IInv, AP!ProgramTypeOK
  <2>2. r \in spawned' /\ pc'[r] = "done" /\ runPc'[r] = "analyze"
    BY <1>1, <1>10 DEF CaptureOf
  <2> QED
    BY <1>8, <1>11, <1>12, <2>1, <2>2 DEF AnalysisOf
<1>14. ASSUME NEW s \in Captures, s # r PROVE AnalysisOf(s)'
  <2>1. AnalysisOf(s) /\ s \notin spawned
    BY <1>1, <1>14 DEF Joined, RunInv, Holder
  <2>2. analyzePc[s] = "start" /\ analyzeExit[s] = "none"
    BY <2>1 DEF AnalysisOf
  <2>3. /\ analyzePc'[s] = "start" /\ analyzeExit'[s] = "none" /\ force'[s] = FALSE
    BY <1>8, <1>14, <2>1, <2>2 DEF AnalysisOf
  <2> QED
    BY <2>3 DEF AnalysisOf
<1> QED
  BY <1>1, <1>6, <1>7, <1>8, <1>9, <1>13, <1>14 DEF Joined

\* Whatever a child does, it only appends.
LEMMA ChildAppends ==
    ASSUME TypeInv, NEW c \in Captures, Child(c), NEW role \in Roles
    PROVE  /\ OnlyAppended(role)
           /\ artifact[role] # Absent => artifact'[role] # Absent
<1>1. artifact[role].chunks \subseteq artifact'[role].chunks
  <2>1. CASE ChildExits(c)
    BY <2>1 DEF ChildExits
  <2>2. CASE \E written \in Outputs : ChildWrites(c, written)
    <3>1. PICK written \in Outputs : ChildWrites(c, written)
      BY <2>2
    <3>2. artifact' = [artifact EXCEPT ![written].chunks = @ \cup {c}]
          /\ artifact[written] \in Content
          /\ written \in Roles
      BY <3>1, OutputsAssumption DEF ChildWrites, LogRoles, Roles, TypeInv, TypeOK
    <3>3. CASE role = written
      <4>1. artifact'[role] = [artifact[role] EXCEPT !.chunks = @ \cup {c}]
        BY <3>2, <3>3 DEF TypeInv, TypeOK
      <4>2. artifact'[role].chunks = artifact[role].chunks \cup {c}
        BY <3>2, <3>3, <4>1 DEF Content
      <4> QED
        BY <4>2
    <3>4. CASE role # written
      BY <3>2, <3>4 DEF TypeInv, TypeOK
    <3> QED
      BY <3>3, <3>4
  <2> QED
    BY <2>1, <2>2 DEF Child
<1> QED
  BY <1>1, ChildKeeps DEF OnlyAppended

\* A process left behind by a capture that is done writes to its files.
LEMMA LateJoined ==
    ASSUME Joined, Sealable, Sealable', NEW c \in Captures, Child(c),
           pc[c] = "done", UNCHANGED <<runVars, analyzeVars>>
    PROVE  Joined'
<1>1. /\ UNCHANGED <<dir, runPc, runExit, spawned>>
      /\ UNCHANGED <<product, exists, analyzePc, force, observed, verified,
                     command, analysis, open, analyzeExit>>
  BY DEF runVars, analyzeVars
<1>2. Lingering
  BY DEF Child, ChildWrites, ChildExits, Sealable, ChildrenReaped
<1>3. UNCHANGED <<pc, exit, receipt, toolReceipt>>
  BY ChildKeeps DEF Sealable, IInv
<1>4. AP!Roles = Roles /\ AP!Content = Content
  BY DEF AP!Roles, Roles, AP!Content, Content
<1>5. artifact' \in [AP!Roles -> AP!Content \cup {Absent}]
  BY <1>4 DEF Sealable, IInv, TypeInv, TypeOK
<1>6. \A role \in AP!Roles : artifact[role] # Absent =>
         artifact'[role] # Absent /\ AP!Grown(artifact[role], artifact'[role])
  <2> SUFFICES ASSUME NEW role \in Roles, artifact[role] # Absent
               PROVE  artifact'[role] # Absent /\ AP!Grown(artifact[role], artifact'[role])
    BY <1>4
  <2>1. artifact'[role] # Absent /\ OnlyAppended(role)
    BY ChildAppends DEF Sealable, IInv
  <2> QED
    BY <2>1 DEF OnlyAppended, AP!Grown
<1>7. AP!IInv'
  BY <1>1, <1>2, <1>3, <1>5, <1>6, AnalyzeAssumed, AP!GrowthKeeps DEF Joined
<1>8. AP!Unforced' /\ (AP!Untried' <=> AP!Untried)
  BY <1>1 DEF AP!Unforced, AP!Untried, Joined
<1>9. (AP!AnalysisResult' <=> AP!AnalysisResult) /\ AP!Outcome' = AP!Outcome
  BY <1>1 DEF AP!AnalysisResult, AP!IsWhole, AP!Outcome
<1>10. ASSUME NEW r \in Captures PROVE CaptureOf(r)' /\ AnalysisOf(r)' /\ ReturnOf(r)'
  <2>1. CaptureOf(r) /\ AnalysisOf(r) /\ ReturnOf(r)
    BY DEF Joined
  <2>2. Signed(r)' <=> Signed(r)
    BY <1>3, SignedStands
  <2>3. CaptureOf(r)'
    BY <1>1, <1>2, <1>3, <2>1, <2>2 DEF CaptureOf
  <2>4. AnalysisOf(r)'
    BY <1>1, <1>3, <1>9, <2>1 DEF AnalysisOf
  <2>5. ReturnOf(r)'
    BY <1>1, <1>3, <2>1 DEF ReturnOf, Combined
  <2> QED
    BY <2>3, <2>4, <2>5
<1> QED
  BY <1>1, <1>7, <1>8, <1>10 DEF Joined

\* While inspect-capture works, no analysis has begun; when it is done, it has
\* given up or left its receipts signed.
LEMMA CaptureJoined ==
    ASSUME Joined, RunInv, Sealable, Sealable',
           NEW c \in Captures, CaptureStep(c) \/ CaptureCrash(c),
           ~Child(c) \/ pc[c] # "done"
    PROVE  Joined'
<1>1. /\ c \in spawned
      /\ Step(c) \/ Child(c) \/ Crash(c)
      /\ UNCHANGED <<runVars, analyzeVars>>
  BY DEF CaptureStep, CaptureCrash
<1>2. /\ UNCHANGED <<dir, runPc, runExit, spawned>>
      /\ UNCHANGED <<product, exists, analyzePc, force, observed, verified,
                     command, analysis, open, analyzeExit>>
  BY <1>1 DEF runVars, analyzeVars
<1>3. TypeOK /\ pc[c] \in Stages
  BY DEF Sealable, IInv, TypeInv, TypeOK
<1>4. /\ \A d \in Captures \ {c} : pc'[d] = pc[d]
      /\ pc[c] # "done"
      /\ pc'[c] # "make_report_paths" \/ pc[c] = "make_report_paths"
  <2>1. CASE Step(c)
    <3>1. exit[c] = "none"
      BY <1>3, <2>1, HowItExits DEF Sealable
    <3>2. pc[c] # "done"
      BY <2>1 DEF Step, MakeReportPaths, CreateReportDir, OpenCommand,
       CloseCommand, OpenManifest, CloseManifest, CreateResourceLog,
       CreateCallLog, Spawn, WaitCommand, OpenSummary, CloseSummary, OpenReceipt,
       FingerprintArtifact, FingerprintsDone, CloseReceipt, OpenToolReceipt,
       CloseToolReceipt, FinishCapture
    <3> QED
      BY <1>3, <2>1, <3>2, StageFlow DEF Flow, Stages
  <2>2. CASE Child(c)
    BY <2>2 DEF Child, ChildWrites, ChildExits
  <2>3. CASE Crash(c)
    BY <1>3, <2>3 DEF Crash, Active, Idle, TypeOK
  <2> QED
    BY <1>1, <2>1, <2>2, <2>3
<1>5. \A r \in Captures : analyzePc[r] = "start"
  <2> SUFFICES ASSUME NEW r \in Captures, analyzePc[r] # "start" PROVE FALSE
    OBVIOUS
  <2>1. r \in spawned /\ pc[r] = "done"
    BY DEF Joined, AnalysisOf
  <2>2. r = c
    BY <1>1, <2>1 DEF RunInv, Holder
  <2> QED
    BY <1>4, <2>1, <2>2
<1>6. AP!Untried
  BY <1>5 DEF Joined
<1>7. AP!Untried'
  BY <1>2, <1>6 DEF AP!Untried
<1>8. AP!IInv'
  BY <1>7, UntriedJoinedNext DEF Sealable, IInv, TypeInv
<1>9. AP!Unforced'
  BY <1>2 DEF Joined, AP!Unforced
<1>10. \A r \in Captures : analyzeExit[r] = "none"
  BY <1>6 DEF AP!Untried
<1>11. ASSUME NEW r \in Captures PROVE AnalysisOf(r)'
  BY <1>2, <1>5, <1>10 DEF Joined, AnalysisOf
<1>12. ASSUME NEW r \in Captures PROVE CaptureOf(r)' /\ ReturnOf(r)'
  <2>1. CASE r # c
    <3>1. r \notin spawned /\ CaptureOf(r) /\ ReturnOf(r)
      BY <1>1, <2>1 DEF Joined, RunInv, Holder
    <3>2. runPc[r] # "analyze"
      BY <3>1 DEF RunInv
    <3> QED
      BY <1>2, <1>4, <2>1, <3>1, <3>2 DEF CaptureOf, ReturnOf, Combined
  <2>2. CASE r = c
    <3>1. runPc[c] # "analyze" /\ runExit[c] \notin {"success", "findings"}
      BY <1>4 DEF Joined, CaptureOf, ReturnOf, Combined
    <3>2. pc'[c] = "done" =>
             \/ exit'[c] = "trouble"
             \/ Signed(c)' /\ (~Lingering => Accepts(artifact, receipt)')
      <4>1. CASE Step(c)
        BY <4>1, EndsSealed
      <4>2. CASE Child(c) \/ Crash(c)
        <5>1. pc'[c] # "done"
          BY <1>3, <1>4, <4>2 DEF Child, ChildWrites, ChildExits, Crash, TypeOK
        <5> QED
          BY <5>1
      <4> QED
        BY <1>1, <4>1, <4>2
    <3> QED
      BY <1>1, <1>2, <2>2, <3>1, <3>2 DEF Joined, CaptureOf, ReturnOf, Combined
  <2> QED
    BY <2>1, <2>2
<1> QED
  BY <1>2, <1>7, <1>8, <1>9, <1>11, <1>12 DEF Joined

\* A run that is killed leaves the analysis where it was.
LEMMA CrashJoined ==
    ASSUME Joined, RunInv, NEW r \in Captures, RunCrash(r)
    PROVE  Joined'
<1>1. /\ runPc[r] \notin {"done", "crashed"}
      /\ runPc' = [runPc EXCEPT ![r] = "crashed"] /\ runExit' = runExit
      /\ analyzePc' = [analyzePc EXCEPT ![r] = IF @ \in {"start", "done"}
                                              THEN @ ELSE "crashed"]
      /\ UNCHANGED <<vars, dir, spawned, product, exists, force, observed,
                     verified, command, analysis, open, analyzeExit, overlapped>>
  BY DEF RunCrash, RunGoto
<1>2. UNCHANGED <<artifact, receipt, toolReceipt, pc, exit>>
  BY <1>1 DEF vars
<1>3. AP!IInv /\ AP!Unforced /\ AP!ProgramTypeOK
  BY DEF Joined, AP!IInv
<1>4. analyzePc \in [Captures -> AP!Stages]
  BY <1>3 DEF AP!ProgramTypeOK
<1>5. analyzePc' = analyzePc \/ AP!Crash(r)
  <2>1. CASE analyzePc[r] \in {"start", "done"}
    BY <1>1, <1>4, <2>1
  <2>2. CASE analyzePc[r] = "crashed"
    BY <1>1, <1>4, <2>2
  <2>3. CASE analyzePc[r] \notin {"start", "done", "crashed"}
    BY <1>1, <1>2, <1>4, <2>3 DEF AP!Crash, AP!AtWork, AP!setting, AP!captureVars,
       AP!admission
  <2> QED
    BY <2>1, <2>2, <2>3
<1>6. AP!IInv'
  <2>1. [AP!Next]_(AP!vars)
    BY <1>1, <1>2, <1>5 DEF AP!Next, AP!vars, AP!captureVars, AP!admission
  <2> QED
    BY <1>1, <1>3, <2>1, AnalyzeAssumed, AP!NextKeeps DEF RunInv
<1>7. AP!Unforced'
  <2>1. CASE analyzePc' = analyzePc
    BY <1>1, <1>3, <2>1 DEF AP!Unforced
  <2>2. CASE AP!Crash(r)
    BY <1>3, <2>2, AnalyzeAssumed, AP!UnforcedKept
  <2> QED
    BY <1>5, <2>1, <2>2
<1>8. ASSUME NEW s \in Captures
      PROVE  /\ analyzePc[s] = "start" <=> analyzePc'[s] = "start"
             /\ analyzePc[s] = "done" => analyzePc'[s] = "done"
             /\ runPc'[s] = runPc[s] \/ runPc'[s] = "crashed"
  BY <1>1, <1>4 DEF RunInv
<1>9. (\A s \in Captures : analyzePc'[s] = "start") => AP!Untried'
  <2> SUFFICES ASSUME \A s \in Captures : analyzePc'[s] = "start"
               PROVE  AP!Untried'
    OBVIOUS
  <2>1. AP!Untried
    BY <1>8 DEF Joined
  <2>2. analyzePc' = analyzePc
    BY <1>1, <1>4, <1>8
  <2> QED
    BY <1>1, <2>1, <2>2 DEF AP!Untried
<1>10. ASSUME NEW s \in Captures PROVE CaptureOf(s)' /\ AnalysisOf(s)' /\ ReturnOf(s)'
  <2>1. CaptureOf(s) /\ AnalysisOf(s) /\ ReturnOf(s)
    BY DEF Joined
  <2>2. Signed(s)' <=> Signed(s)
    BY <1>2, SignedStands
  <2>3. /\ AP!AnalysisResult' <=> AP!AnalysisResult
        /\ AP!Outcome' = AP!Outcome
    BY <1>1 DEF AP!AnalysisResult, AP!IsWhole, AP!Outcome
  <2>4. CaptureOf(s)'
    BY <1>1, <1>2, <1>8, <2>1, <2>2 DEF CaptureOf
  <2>5. AnalysisOf(s)'
    BY <1>1, <1>2, <1>8, <2>1, <2>3 DEF AnalysisOf
  <2>6. runExit[s] # "none" => s # r
    BY <1>1, <2>1 DEF ReturnOf
  <2>7. ReturnOf(s)'
    BY <1>1, <1>2, <2>1, <2>6 DEF ReturnOf, Combined, RunInv
  <2> QED
    BY <2>4, <2>5, <2>7
<1> QED
  BY <1>1, <1>6, <1>7, <1>9, <1>10 DEF Joined

LEMMA JoinedNext ==
    Joined /\ RunInv /\ RunInv' /\ Sealable /\ Sealable' /\ [RunNext]_allVars
        => Joined'
<1> SUFFICES ASSUME Joined, RunInv, RunInv', Sealable, Sealable', [RunNext]_allVars
             PROVE  Joined'
  OBVIOUS
<1> USE DEF Joined
<1>1. ASSUME NEW r \in Captures, Lstat(r) \/ Mkdir(r) \/ SpawnCapture(r)
             \/ WaitCapture(r) \/ FinishRun(r)
      PROVE  Joined'
  <2>1. /\ UNCHANGED <<vars, analyzeVars>>
        /\ dir' \in BOOLEAN
        /\ spawned' \in {spawned, spawned \cup {r}}
    BY <1>1 DEF Lstat, Mkdir, SpawnCapture, WaitCapture, FinishRun
  <2>2. /\ runPc \in [Captures -> RunStages]
        /\ runPc[r] \in {"lstat", "mkdir", "spawn", "wait", "analyze"}
        /\ runExit[r] = "none"
    BY <1>1 DEF Lstat, Mkdir, SpawnCapture, WaitCapture, FinishRun, RunInv, ReturnOf
  <2>3. analyzeExit[r] \in ExitCodes
    BY DEF AP!IInv, AP!ProgramTypeOK, ExitCodes
  <2>4. CASE FinishRun(r)
    <3> DEFINE code == IF exit[r] = "findings" /\ analyzeExit[r] = "success"
                       THEN "findings" ELSE analyzeExit[r]
    <3>1. /\ runPc[r] = "analyze" /\ spawned' = spawned
          /\ runPc' = [runPc EXCEPT ![r] = "done"]
          /\ runExit' = [runExit EXCEPT ![r] = code]
      BY <2>4 DEF FinishRun, RunReturns
    <3>2. r \in spawned /\ pc[r] = "done" /\ exit[r] # "trouble"
      BY <3>1 DEF RunInv, CaptureOf
    <3>3. code \in ExitCodes /\ Combined(r, code)
      BY <2>3, <3>2 DEF ExitCodes, Combined
    <3> HIDE DEF code
    <3>4. /\ \A s \in Captures \ {r} : runPc'[s] = runPc[s] /\ runExit'[s] = runExit[s]
          /\ runPc'[r] = "done" /\ runExit'[r] = code
          /\ runExit' \in [Captures -> ExitCodes]
      BY <2>2, <3>1, <3>3
    <3> QED
      BY <2>1, <3>3, <3>4, OwnJoined
  <2>5. CASE RunReturns(r, "trouble")
    <3>1. /\ \A s \in Captures \ {r} : runPc'[s] = runPc[s] /\ runExit'[s] = runExit[s]
          /\ runPc'[r] = "done" /\ runExit' \in [Captures -> ExitCodes]
          /\ Combined(r, runExit'[r])
      BY <2>2, <2>5 DEF RunReturns, ExitCodes, Combined
    <3> QED
      BY <2>1, <3>1, OwnJoined
  <2>6. ASSUME NEW stage, RunGoto(r, stage),
               \/ stage \in {"mkdir", "spawn", "wait"}
                  /\ runPc[r] \in {"lstat", "mkdir", "spawn"}
               \/ stage = "analyze" /\ pc[r] = "done" /\ exit[r] # "trouble"
        PROVE  Joined'
    <3>1. /\ \A s \in Captures \ {r} : runPc'[s] = runPc[s] /\ runExit'[s] = runExit[s]
          /\ runPc'[r] = stage /\ runExit' \in [Captures -> ExitCodes]
          /\ runExit'[r] = "none" /\ Combined(r, runExit'[r])
      BY <2>2, <2>6 DEF RunGoto, Combined
    <3>2. /\ runPc'[r] = "analyze" => pc[r] = "done" /\ exit[r] # "trouble"
          /\ runPc'[r] \in {"lstat", "mkdir", "spawn", "wait"} =>
                runPc[r] \in {"lstat", "mkdir", "spawn", "wait"}
      BY <2>6, <3>1
    <3> QED
      BY <2>1, <3>1, <3>2, OwnJoined
  <2> QED
    BY <1>1, <2>4, <2>5, <2>6 DEF Lstat, Mkdir, SpawnCapture, WaitCapture
<1>2. ASSUME NEW r \in Captures, RunStep(r) PROVE Joined'
  BY <1>1, <1>2, AnalyzeJoined DEF RunStep
<1>3. CASE UNCHANGED allVars
  <2>1. UNCHANGED <<vars, analyzeVars, dir, runPc, runExit, spawned>>
    BY <1>3 DEF allVars, runVars
  <2>2. UNCHANGED <<artifact, receipt, toolReceipt, pc, exit>>
        /\ UNCHANGED <<analyzePc, force, verified, analyzeExit>>
    BY <2>1 DEF vars, analyzeVars
  <2>3. /\ AP!IInv' /\ AP!Unforced'
        /\ AP!Untried' <=> AP!Untried
        /\ AP!AnalysisResult' <=> AP!AnalysisResult
        /\ AP!Outcome' = AP!Outcome
    BY <2>1, <2>2, AnalyzeStands DEF RunInv
  <2>4. \A s \in Captures : CaptureOf(s)' /\ AnalysisOf(s)' /\ ReturnOf(s)'
    BY <2>1, <2>2, <2>3, SignedStands DEF CaptureOf, AnalysisOf, ReturnOf, Combined
  <2> QED
    BY <2>1, <2>2, <2>3, <2>4
<1>4. ASSUME NEW r \in Captures, CaptureStep(r) \/ CaptureCrash(r) PROVE Joined'
  <2>1. CASE Child(r) /\ pc[r] = "done"
    <3>1. UNCHANGED <<runVars, analyzeVars>>
      BY <1>4 DEF CaptureStep, CaptureCrash
    <3> QED
      BY <2>1, <3>1, LateJoined
  <2> QED
    BY <1>4, <2>1, CaptureJoined
<1> QED
  BY <1>2, <1>3, <1>4, CrashJoined DEF RunNext, RunTerminating

\* What inspect-capture does in a run it also does alone.
THEOREM RunIsCapture == RunSpec => Spec
<1>1. RunInit => Init
  BY DEF RunInit
<1>2. [RunNext]_allVars => [Next]_vars
  <2> SUFFICES ASSUME [RunNext]_allVars PROVE [Next]_vars
    OBVIOUS
  <2>1. ASSUME NEW r \in Captures, AnalyzeStep(r) PROVE UNCHANGED vars
    <3>1. UNCHANGED <<artifact, receipt>>
      BY <2>1 DEF AnalyzeStep, A!Step, A!Start, A!VerifyCapture, A!VerifyArtifact,
     A!VerifyDone, A!IngestResources, A!IngestCalls, A!RunAnalysis, A!Reads,
     A!WriteBundle, A!WriteModelFile, A!CopyAnalysisInputs, A!CopyInput,
     A!WriteFindingIndex, A!WriteAnalysisSummary, A!WriteAnalysisManifest,
     A!WriteAnalysisReceipt, A!Flush, A!FinishAnalyze, A!Writes,
     A!setting, A!captureVars
    <3> QED
      BY <2>1, <3>1 DEF AnalyzeStep, vars
  <2>2. ASSUME NEW r \in Captures, RunStep(r) \/ RunCrash(r) PROVE UNCHANGED vars
    BY <2>1, <2>2 DEF RunStep, RunCrash, Lstat, Mkdir, SpawnCapture, WaitCapture,
                      FinishRun
  <2>3. ASSUME NEW r \in Captures, CaptureStep(r) \/ CaptureCrash(r) PROVE Next
    BY <2>3 DEF CaptureStep, CaptureCrash, Next
  <2>4. CASE UNCHANGED allVars
    BY <2>4 DEF allVars
  <2> QED
    BY <2>2, <2>3, <2>4 DEF RunNext, RunTerminating
<1> QED
  BY <1>1, <1>2, PTL DEF RunSpec, Spec

\* So what is accepted in a run's directory is one capture's, also while the
\* analyses of all runs read and copy it.
THEOREM RunAcceptedIsOneRun == RunSpec => []AcceptedIsOneRun
BY RunIsCapture, AcceptedIsOneRunHolds

\* And a run's captures keep what Custody promises, any number of them.
THEOREM RunImplementsCustody ==
    ASSUME Lingering = FALSE PROVE RunSpec => ImplementsCustody
BY RunIsCapture, CaptureImplementsCustody

\* The joined invariant holds always.
THEOREM RunInvariance == RunSpec => [](RunInv /\ Joined /\ Sealable)
<1>1. RunInit => RunInv
  <2> SUFFICES ASSUME RunInit PROVE RunInv
    OBVIOUS
  <2>1. overlapped \in BOOLEAN /\ ~overlapped
    BY DEF RunInit
  <2> QED
    BY <2>1 DEF RunInit, RunInv, Holder, RunStages
<1>2. Joined => AP!IInv
  BY DEF Joined
<1> QED
  BY <1>1, <1>2, JoinedInit, JoinedNext, RunInvNext, RunIsCapture, SealableInvariance,
     PTL DEF RunSpec

\* One directory is given to one inspect-capture, everything in the analysis
\* directory below it is of the run that started that one, and the analyses of
\* runs never overlap.
THEOREM OneCapturePerDirectoryHolds == RunSpec => []OneCapturePerDirectory
<1>1. RunInv => OneCapturePerDirectory
  BY DEF RunInv, Holder, OneCapturePerDirectory
<1> QED
  BY <1>1, RunInvariance, PTL

\* Every variable of a run, its capture and its analysis keeps its type.
THEOREM RunTypeCorrect == RunSpec => []RunTypeOK
<1>1. RunInv /\ Joined /\ Sealable => RunTypeOK
  <2> SUFFICES ASSUME RunInv, Joined, Sealable PROVE RunTypeOK
    OBVIOUS
  <2>1. TypeOK
    BY DEF Sealable, IInv, TypeInv
  <2>2. AP!ProgramTypeOK
    BY DEF Joined, AP!IInv
  <2>3. A!ProgramTypeOK
    BY <2>2 DEF A!ProgramTypeOK, AP!ProgramTypeOK, A!Roles, AP!Roles, A!Content, AP!Content,
       A!Receipts, AP!Receipts, A!Lines, AP!Lines, A!Prints, AP!Prints,
       A!Statuses, AP!Statuses, A!Names, AP!Names, A!Listed, AP!Listed, A!Files,
       AP!Files, A!Holds, AP!Holds, A!Shown, AP!Shown, A!Analyses, AP!Analyses,
       A!Inputs, AP!Inputs, A!Summaries, AP!Summaries, A!Manifests,
       AP!Manifests, A!OutcomeReceipts, AP!OutcomeReceipts, A!Stages, AP!Stages,
       A!RoleOrder, AP!RoleOrder
  <2> QED
    BY <2>1, <2>3 DEF RunInv, Joined, RunTypeOK, A!TypeOK
<1> QED
  BY <1>1, RunInvariance, PTL

\* What analyze promises alone it promises in a run, where the capture that it
\* verifies, reads and copies may be another run's, may start while it works and
\* may leave a process behind: a directory its reader believes is one complete
\* analysis, and a verified one is of the sealed bytes, or the evidence no longer
\* matches its receipt.
THEOREM RunAnalysesKeep ==
    RunSpec => [](~overlapped /\ A!AcceptedIsOneAnalysis /\ A!VerifiedMeansSealed)
<1>1. RunInv /\ Joined /\ Sealable =>
         ~overlapped /\ A!AcceptedIsOneAnalysis /\ A!VerifiedMeansSealed
  <2> SUFFICES ASSUME AP!IInv
               PROVE  A!AcceptedIsOneAnalysis /\ A!VerifiedMeansSealed
    BY DEF Joined, RunInv
  <2>0. AP!AcceptedIsOneAnalysis
    BY AnalyzeAssumed, AP!AcceptedOne DEF AP!AcceptedIsOneAnalysis
  <2>1. AP!AcceptedIsOneAnalysis /\ AP!VerifiedMeansSealed
    BY <2>0, AnalyzeAssumed, AP!VerifiedSealed DEF AP!VerifiedMeansSealed
  <2>2. A!AcceptedIsOneAnalysis
    BY <2>1, SameData DEF A!AcceptedIsOneAnalysis, AP!AcceptedIsOneAnalysis,
       A!IsWhole, AP!IsWhole, A!Shown, AP!Shown
  <2>3. A!VerifiedMeansSealed
    <3>1. /\ \A line : A!Matches(artifact, line) <=> AP!Matches(artifact, line)
          /\ \A role, content : A!Bytes(role, content) = AP!Bytes(role, content)
      BY DEF A!Matches, AP!Matches, A!Bytes, AP!Bytes, A!LogRoles, AP!LogRoles
    <3>2. A!Inputs = AP!Inputs /\ A!Copies = AP!Copies
          /\ (A!AnalysisResult <=> AP!AnalysisResult)
      BY SameData
    <3>3. AP!VerifiedMeansSealed
      BY <2>1
    <3> QED
      BY ONLY <3>1, <3>2, <3>3 DEF A!VerifiedMeansSealed, AP!VerifiedMeansSealed
  <2> QED
    BY <2>2, <2>3
<1> QED
  BY <1>1, RunInvariance, PTL

-----------------------------------------------------------------------------
(* What the status of a run promises.                                      *)

\* An analysis that ended with zero or one, of a capture that did, tells with
\* it what the receipts tell.
LEMMA StatusTells ==
    ASSUME Joined, RunInv, TypeOK, NEW r \in Captures,
           r \in spawned, pc[r] = "done", exit[r] # "trouble",
           analyzeExit[r] \in {"success", "findings"}
    PROVE  /\ Signed(r) /\ (~Lingering => Accepts(artifact, receipt))
           /\ AP!AnalysisResult /\ verified[r]
           /\ \A n \in AP!Names : AP!IsWhole(n) /\ product[n].by = r
           /\ exit[r] # "findings" /\ analyzeExit[r] = "success" <=>
                 receipt.status = "exit0" /\ A!Outcome = "success"
<1>1. CaptureOf(r) /\ AnalysisOf(r) /\ AP!IInv
  BY DEF Joined
<1>2. /\ AP!AnalysisResult /\ verified[r]
      /\ analyzeExit[r] = "findings" <=>
            AP!Outcome = "findings" \/ receipt.status = "exitN"
  BY <1>1 DEF AnalysisOf
<1>3. Signed(r) /\ (~Lingering => Accepts(artifact, receipt))
  BY <1>1 DEF CaptureOf
<1>4. /\ exit[r] \in {"success", "findings"}
      /\ exit[r] = "success" <=> receipt.status = "exit0"
  <2>1. toolReceipt \in ToolReceipts /\ receipt \in Receipts
    BY <1>3 DEF Signed, TypeOK
  <2>2. receipt.status \in Statuses
    BY <2>1 DEF Receipts
  <2> QED
    BY <1>3, <2>1, <2>2 DEF Signed, ToolReceipts, Statuses, CommandStatus
<1>5. PICK a \in Captures :
         /\ \A n \in AP!Names : AP!IsWhole(n) /\ product[n].by = a
         /\ AP!Outcome = AP!Verdict(analysis[a])
  BY <1>1, <1>2, AnalyzeAssumed, AP!AcceptedOne
<1>6. AP!Outcome \in {"success", "findings"}
  BY <1>5, AnalyzeAssumed, AP!VerdictType
<1>7. a = r
  <2>1. "summary.md" \in AP!Names /\ AP!Names = A!Names
    BY SameData DEF AP!Names, AP!Listed
  <2>2. product["summary.md"] # Absent /\ product["summary.md"].by = a
    BY <1>5, <2>1 DEF AP!IsWhole
  <2>3. a \in spawned
    BY <2>1, <2>2 DEF RunInv
  <2> QED
    BY <2>3 DEF RunInv, Holder
<1>8. exit[r] # "findings" /\ analyzeExit[r] = "success" <=>
         receipt.status = "exit0" /\ A!Outcome = "success"
  BY <1>2, <1>4, <1>6, SameData
<1> QED
  BY <1>2, <1>3, <1>5, <1>7, <1>8

\* Without a late writer the evidence is complete, and as it was read.
LEMMA EvidenceEstablished ==
    ASSUME Joined, RunInv, TypeOK, Lingering = FALSE, NEW r \in Captures,
           r \in spawned, pc[r] = "done", exit[r] # "trouble",
           analyzeExit[r] \in {"success", "findings"}
    PROVE  Established(r)
<1>1. AP!IInv
  BY DEF Joined
<1>2. /\ Signed(r) /\ Accepts(artifact, receipt) /\ AP!AnalysisResult
      /\ \A n \in AP!Names : AP!IsWhole(n)
  BY StatusTells
<1>3. \A role \in AP!Inputs : product[AP!Copies[role]].holds = artifact[role]
  <2>1. \A role \in AP!Inputs : AP!Copies[role] \in AP!Names
    BY DEF AP!Inputs, AP!Copies, AP!Names, AP!Listed
  <2> QED
    BY <1>1, <1>2, <2>1 DEF AP!IInv, AP!Quiet
<1>4. AP!Verdict(AP!Replayed) = AP!Outcome
  BY <1>1, <1>2, AnalyzeAssumed, AP!ReplayedAgrees
<1> QED
  BY <1>2, <1>3, <1>4, SameData, SealedIsSigned DEF Established

\* With one, the evidence says the same or does not pass its verification.
LEMMA EvidenceStands ==
    ASSUME Joined, RunInv, TypeOK, Accepts(artifact, receipt), NEW r \in Captures,
           r \in spawned, pc[r] = "done", exit[r] # "trouble",
           analyzeExit[r] \in {"success", "findings"}
    PROVE  /\ Sealed(r)
           /\ \A role \in A!Inputs :
                 Bytes(role, product[A!Copies[role]].holds)
                    = Bytes(role, artifact[role])
           /\ A!Verdict(A!Replayed) = A!Outcome
<1>1. AP!IInv
  BY DEF Joined
<1>2. /\ Signed(r) /\ AP!AnalysisResult /\ verified[r]
      /\ \A n \in AP!Names : product[n].by = r
  BY StatusTells
<1>3. "summary.md" \in AP!Names
  BY DEF AP!Names, AP!Listed
<1>4. \A role, content : AP!Bytes(role, content) = Bytes(role, content)
  BY DEF AP!Bytes, Bytes, AP!LogRoles, LogRoles
<1>5. AP!Accepts(artifact, receipt)
  BY <1>4 DEF Accepts, AP!Accepts, Matches, AP!Matches, Roles, AP!Roles
<1>6. /\ \A role \in AP!Inputs :
            AP!Bytes(role, product[AP!Copies[role]].holds)
               = AP!Bytes(role, artifact[role])
      /\ AP!Verdict(AP!Replayed) = AP!Outcome
  BY <1>1, <1>2, <1>3, <1>5, AnalyzeAssumed, AP!AcceptedReplays
<1> QED
  BY <1>2, <1>4, <1>6, SameData, SealedIsSigned

\* A status of zero or one is never refuted by what a late writer does: the
\* receipts and the analysis say what it says, and the capture's files agree
\* with them for as long as they pass verify_capture.
THEOREM ExitStandsHolds == RunSpec => []ExitStands
<1>1. RunInv /\ Joined /\ Sealable => ExitStands
  <2> SUFFICES ASSUME RunInv, Joined, Sealable, NEW r \in Captures,
                      runExit[r] \in {"success", "findings"}
               PROVE  /\ A!AnalysisResult
                      /\ runExit[r] = "success" <=>
                            receipt.status = "exit0" /\ A!Outcome = "success"
                      /\ Accepts(artifact, receipt) =>
                            /\ Sealed(r)
                            /\ \A role \in A!Inputs :
                                  Bytes(role, product[A!Copies[role]].holds)
                                     = Bytes(role, artifact[role])
                            /\ A!Verdict(A!Replayed) = A!Outcome
    BY DEF ExitStands
  <2>1. TypeOK
    BY DEF Sealable, IInv, TypeInv
  <2>2. /\ r \in spawned /\ pc[r] = "done" /\ exit[r] # "trouble"
        /\ analyzeExit[r] \in {"success", "findings"}
        /\ runExit[r] = "success" <=> exit[r] # "findings" /\ analyzeExit[r] = "success"
    BY DEF Joined, ReturnOf, Combined
  <2>3. /\ A!AnalysisResult
        /\ runExit[r] = "success" <=> receipt.status = "exit0" /\ A!Outcome = "success"
    BY <2>1, <2>2, StatusTells, SameData
  <2> QED
    BY <2>1, <2>2, <2>3, EvidenceStands
<1> QED
  BY <1>1, RunInvariance, PTL

\* Only finish_run returns zero or one.
LEMMA OnlyFinishRunReturns ==
    ASSUME Joined, RunInv, [RunNext]_allVars, NEW r \in Captures,
           runExit[r] = "none", runExit'[r] \in {"success", "findings"}
    PROVE  FinishRun(r)
<1>1. runExit \in [Captures -> ExitCodes]
  BY DEF Joined
<1>2. ASSUME NEW s \in Captures,
             \/ UNCHANGED runExit
             \/ runExit' = [runExit EXCEPT ![s] = "trouble"]
      PROVE  FALSE
  BY <1>1, <1>2
<1>3. ASSUME NEW s \in Captures, RunStep(s), ~FinishRun(s)
      PROVE  FALSE
  <2>1. \/ UNCHANGED runExit
        \/ runExit' = [runExit EXCEPT ![s] = "trouble"]
    BY <1>3 DEF RunStep, Lstat, Mkdir, SpawnCapture, WaitCapture, AnalyzeStep,
                RunGoto, RunReturns, runVars
  <2> QED
    BY <1>2, <2>1
<1>4. ASSUME NEW s \in Captures, CaptureStep(s) \/ CaptureCrash(s) \/ RunCrash(s)
      PROVE  FALSE
  BY <1>2, <1>4 DEF CaptureStep, CaptureCrash, RunCrash, RunGoto, runVars
<1>5. CASE UNCHANGED allVars
  BY <1>2, <1>5 DEF allVars, runVars
<1>6. PICK s \in Captures : FinishRun(s)
  BY <1>3, <1>4, <1>5 DEF RunNext, RunTerminating
<1>7. s = r
  BY <1>1, <1>6 DEF FinishRun, RunReturns
<1> QED
  BY <1>6, <1>7

\* Zero and one promise complete evidence, and zero that nothing was found,
\* unless a process outlives the capture: finish_run's status, the receipt of
\* the capture, what analysis_result accepts and what a replay finds agree.
THEOREM ExitContractHolds == ASSUME Lingering = FALSE PROVE RunSpec => ExitContract
<1>1. ASSUME Joined, RunInv, Sealable, [RunNext]_allVars, NEW r \in Captures,
             runExit[r] = "none", runExit'[r] \in {"success", "findings"}
      PROVE  /\ Established(r)'
             /\ runExit'[r] = "success" <=>
                   receipt'.status = "exit0" /\ A!Outcome' = "success"
  <2>1. FinishRun(r)
    BY <1>1, OnlyFinishRunReturns
  <2>2. /\ runPc[r] = "analyze"
        /\ runExit' = [runExit EXCEPT ![r] =
              IF exit[r] = "findings" /\ analyzeExit[r] = "success"
              THEN "findings" ELSE analyzeExit[r]]
        /\ UNCHANGED <<vars, analyzeVars>>
    BY <2>1 DEF FinishRun, RunReturns
  <2>3. /\ runExit'[r] = IF exit[r] = "findings" /\ analyzeExit[r] = "success"
                         THEN "findings" ELSE analyzeExit[r]
        /\ TypeOK
    BY <1>1, <2>2 DEF Joined, Sealable, IInv, TypeInv
  <2>4. analyzeExit[r] \in {"success", "findings"}
    BY <1>1, <2>3
  <2>5. /\ Established(r)
        /\ exit[r] # "findings" /\ analyzeExit[r] = "success" <=>
              receipt.status = "exit0" /\ A!Outcome = "success"
    <3>1. r \in spawned /\ pc[r] = "done" /\ exit[r] # "trouble"
      BY <1>1, <2>2 DEF RunInv, Joined, CaptureOf
    <3> QED
      BY <1>1, <2>3, <2>4, <3>1, EvidenceEstablished, StatusTells
  <2>6. UNCHANGED <<artifact, receipt, toolReceipt, exit, product>>
    BY <2>2 DEF vars, analyzeVars
  <2>7. /\ A!Outcome' = A!Outcome
        /\ A!AnalysisResult' <=> A!AnalysisResult
        /\ A!Replayed' = A!Replayed
    BY <2>6 DEF A!Outcome, A!AnalysisResult, A!IsWhole, A!Replayed
  <2>8. Established(r)'
    BY <2>5, <2>6, <2>7 DEF Established, Sealed
  <2> QED
    BY <2>3, <2>4, <2>5, <2>6, <2>7, <2>8
<1>2. Joined /\ RunInv /\ Sealable /\ [RunNext]_allVars =>
        [\A r \in Captures :
            runExit[r] = "none" /\ runExit'[r] \in {"success", "findings"} =>
              /\ Established(r)'
              /\ runExit'[r] = "success" <=>
                    receipt'.status = "exit0" /\ A!Outcome' = "success"]_allVars
  BY <1>1
<1> QED
  BY <1>2, RunInvariance, PTL DEF RunSpec, ExitContract

\* The evidence of a run that returned zero or one stays as it is, whatever
\* the others, its own capture or its analysis still do; only a late writer
\* appends to the files of the capture.
THEOREM EvidenceStaysHolds == RunSpec => EvidenceStays
<1> DEFINE Stays == /\ UNCHANGED <<receipt, toolReceipt, product>>
                    /\ IF Lingering THEN \A role \in Roles : OnlyAppended(role)
                                    ELSE UNCHANGED artifact
<1>1. ASSUME Joined, RunInv, Sealable, RunNext, NEW r \in Captures,
             runExit[r] \in {"success", "findings"}
      PROVE  Stays
  <2>1. r \in spawned /\ pc[r] = "done" /\ runPc[r] = "done"
    BY <1>1 DEF Joined, ReturnOf, Combined
  <2>2. \A s \in Captures : Holder(s) => s = r
    BY <1>1, <2>1 DEF RunInv, Holder
  <2>3. ASSUME UNCHANGED <<artifact, receipt, toolReceipt, product>>
        PROVE  Stays
    BY <2>3 DEF OnlyAppended
  <2>4. ASSUME NEW s \in Captures, CaptureStep(s) \/ CaptureCrash(s) \/ AnalyzeStep(s)
        PROVE  Stays
    <3>1. s = r
      BY <2>2, <2>4 DEF Holder, CaptureStep, CaptureCrash, AnalyzeStep
    <3>2. ~AnalyzeStep(r)
      BY <2>1 DEF AnalyzeStep
    <3>3. ~Step(r)
      BY <2>1 DEF Step, MakeReportPaths, CreateReportDir, OpenCommand,
       CloseCommand, OpenManifest, CloseManifest, CreateResourceLog,
       CreateCallLog, Spawn, WaitCommand, OpenSummary, CloseSummary, OpenReceipt,
       FingerprintArtifact, FingerprintsDone, CloseReceipt, OpenToolReceipt,
       CloseToolReceipt, FinishCapture
    <3>4. ~Crash(r)
      BY <2>1 DEF Crash, Active, Idle
    <3>5. Child(r) /\ UNCHANGED product
      BY <2>4, <3>1, <3>2, <3>3, <3>4 DEF CaptureStep, CaptureCrash, analyzeVars
    <3>6. Lingering
      BY <1>1, <2>1, <3>5 DEF Sealable, ChildrenReaped, Child, ChildWrites, ChildExits
    <3>7. UNCHANGED <<receipt, toolReceipt>> /\ \A role \in Roles : OnlyAppended(role)
      BY <1>1, <3>5, ChildKeeps, ChildAppends DEF Sealable, IInv
    <3> QED
      BY <3>5, <3>6, <3>7
  <2>5. ASSUME NEW s \in Captures,
               \/ Lstat(s) \/ Mkdir(s) \/ SpawnCapture(s) \/ WaitCapture(s)
               \/ FinishRun(s) \/ RunCrash(s)
        PROVE  UNCHANGED <<artifact, receipt, toolReceipt, product>>
    BY <2>5 DEF Lstat, Mkdir, SpawnCapture, WaitCapture, FinishRun, RunCrash,
                vars, analyzeVars
  <2>6. CASE RunTerminating
    <3>1. UNCHANGED <<artifact, receipt, toolReceipt, product>>
      BY <2>6 DEF RunTerminating, allVars, vars, analyzeVars
    <3> QED
      BY <2>3, <3>1
  <2> HIDE DEF Stays
  <2> QED
    BY <1>1, <2>3, <2>4, <2>5, <2>6 DEF RunNext, RunStep
<1>2. Joined /\ RunInv /\ Sealable /\ [RunNext]_allVars =>
        [(\E r \in Captures : runExit[r] \in {"success", "findings"}) => Stays]_allVars
  BY <1>1
<1> QED
  BY <1>2, RunInvariance, PTL DEF RunSpec, EvidenceStays
=============================================================================
