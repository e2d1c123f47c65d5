------------------------------ MODULE InspectRun ------------------------------
(***************************************************************************)
(* p101-inspect run: run_command makes the output directory, runs          *)
(* inspect-capture in it as a child process and then analyzes what the     *)
(* child left.  Composes Capture (the child, one for each run) and Analyze *)
(* (called in run's own process) over one capture directory.               *)
(*                                                                         *)
(* Several runs may be given the same -o, at the same time.  A run and its *)
(* inspect-capture can be killed independently; the child outlives run.    *)
(***************************************************************************)
EXTENDS Capture

CONSTANT Flagged  \* the inputs a record of which is a finding to the policy

VARIABLES
    dir,        \* the path given to -o names a directory
    runPc,      \* run -> what run_command is about to do
    runExit,    \* run -> the status it returned
    spawned,    \* the runs whose inspect-capture was started
    product, exists, analyzePc, force, observed, verified, command, analysis,
    open, analyzeExit, overlapped      \* the state of Analyze

runVars     == <<dir, runPc, runExit, spawned>>
analyzeVars == <<product, exists, analyzePc, force, observed, verified,
                 command, analysis, open, analyzeExit, overlapped>>
allVars     == <<vars, runVars, analyzeVars>>

\* Run r calls analyze_command in its own process, as analyzer r.
A == INSTANCE Analyze
     WITH Analyzers <- Captures, pc <- analyzePc, exit <- analyzeExit

ASSUME FlaggedAssumption == Flagged \subseteq A!Inputs
ASSUME AbsentFileAssumption == Absent \notin A!Files

RunStages == {"lstat", "mkdir", "spawn", "wait", "analyze", "done", "crashed"}

RunInit ==
    /\ Init
    /\ dir = FALSE
    /\ runPc = [r \in Captures |-> "lstat"]
    /\ runExit = [r \in Captures |-> "none"]
    /\ spawned = {}
    /\ product = [n \in A!Names |-> Absent]
    /\ exists = FALSE
    /\ analyzePc = [r \in Captures |-> "start"]
    /\ force = [r \in Captures |-> FALSE]
    /\ observed = [r \in Captures |-> 0]
    /\ verified = [r \in Captures |-> FALSE]
    /\ command = [r \in Captures |-> "success"]
    /\ analysis = [r \in Captures |-> A!Nothing]
    /\ open = [r \in Captures |-> FALSE]
    /\ analyzeExit = [r \in Captures |-> "none"]
    /\ overlapped = FALSE

-----------------------------------------------------------------------------
RunGoto(r, stage) ==
    /\ runPc' = [runPc EXCEPT ![r] = stage]
    /\ UNCHANGED runExit

RunReturns(r, code) ==
    /\ runPc' = [runPc EXCEPT ![r] = "done"]
    /\ runExit' = [runExit EXCEPT ![r] = code]

\* The arguments, then lstat: anything but ENOENT is trouble.
Lstat(r) ==
    /\ runPc[r] = "lstat"
    /\ \/ ~dir /\ RunGoto(r, "mkdir")
       \/ RunReturns(r, "trouble")
    /\ UNCHANGED <<vars, dir, spawned, analyzeVars>>

\* Mutation: a directory that exists will do, as for create_report_dir.
MutantMkdir(r) ==
    /\ runPc[r] = "mkdir"
    /\ dir' = TRUE
    /\ RunGoto(r, "spawn")
    /\ UNCHANGED <<vars, spawned, analyzeVars>>

\* mkdir fails on a path that exists, also one that was made after lstat.
Mkdir(r) ==
    /\ runPc[r] = "mkdir"
    /\ \/ /\ ~dir
          /\ dir' = TRUE
          /\ RunGoto(r, "spawn")
       \/ /\ RunReturns(r, "trouble")
          /\ UNCHANGED dir
    /\ UNCHANGED <<vars, spawned, analyzeVars>>

\* The two paths, the argument vector and posix_spawnp.
SpawnCapture(r) ==
    /\ runPc[r] = "spawn"
    /\ \/ /\ spawned' = spawned \cup {r}
          /\ RunGoto(r, "wait")
       \/ /\ RunReturns(r, "trouble")
          /\ UNCHANGED spawned
    /\ UNCHANGED <<vars, dir, analyzeVars>>

\* Mutation: only a child that exits ends the wait.
MutantWaitCapture(r) ==
    /\ runPc[r] = "wait"
    /\ pc[r] = "done"
    /\ IF exit[r] = "trouble" THEN RunReturns(r, "trouble")
                              ELSE RunGoto(r, "analyze")
    /\ UNCHANGED <<vars, dir, spawned, analyzeVars>>

\* Mutation: an interrupted wait counts as a clean exit of the child.
MutantInterruptedWait(r) ==
    /\ runPc[r] = "wait"
    /\ \/ RunGoto(r, "analyze")
       \/ pc[r] \in {"done", "crashed"} /\ RunReturns(r, "trouble")
    /\ UNCHANGED <<vars, dir, spawned, analyzeVars>>

\* spawn_and_wait: an interrupted waitpid is repeated; another failure of it
\* (ECHILD, which also waits for the child), or a child that was killed, is
\* trouble, and so is a child that says so.
WaitCapture(r) ==
    /\ runPc[r] = "wait"
    /\ pc[r] \in {"done", "crashed"}
    /\ \/ RunReturns(r, "trouble")
       \/ /\ pc[r] = "done" /\ exit[r] # "trouble"
          /\ RunGoto(r, "analyze")
    /\ UNCHANGED <<vars, dir, spawned, analyzeVars>>

\* analyze_command, which is not given --force here.
AnalyzeStep(r) ==
    /\ runPc[r] = "analyze"
    /\ A!Step(r)
    /\ ~force'[r]
    /\ UNCHANGED <<toolReceipt, pc, err, child, status, exit, runVars>>

\* Mutation: the status of the command that was run is forgotten.
MutantFinishRun(r) ==
    /\ runPc[r] = "analyze"
    /\ analyzeExit[r] # "none"
    /\ RunReturns(r, analyzeExit[r])
    /\ UNCHANGED <<vars, dir, spawned, analyzeVars>>

\* A clean analysis does not hide that the capture reported findings.
FinishRun(r) ==
    /\ runPc[r] = "analyze"
    /\ analyzeExit[r] # "none"
    /\ RunReturns(r, IF exit[r] = "findings" /\ analyzeExit[r] = "success"
                     THEN "findings" ELSE analyzeExit[r])
    /\ UNCHANGED <<vars, dir, spawned, analyzeVars>>

\* The child process.
CaptureStep(r) ==
    /\ r \in spawned
    /\ Step(r) \/ Child(r)
    /\ UNCHANGED <<runVars, analyzeVars>>

CaptureCrash(r) ==
    /\ r \in spawned
    /\ Crash(r)
    /\ UNCHANGED <<runVars, analyzeVars>>

RunCrash(r) ==
    /\ runPc[r] \notin {"done", "crashed"}
    /\ RunGoto(r, "crashed")
    /\ analyzePc' = [analyzePc EXCEPT ![r] = IF @ \in {"start", "done"}
                                              THEN @ ELSE "crashed"]
    /\ UNCHANGED <<vars, dir, spawned, product, exists, force, observed,
                   verified, command, analysis, open, analyzeExit, overlapped>>

RunTerminating ==
    /\ \A r \in Captures : runPc[r] \in {"done", "crashed"}
    /\ \A r \in spawned : pc[r] \in {"done", "crashed"}
    /\ UNCHANGED allVars

RunStep(r) ==
    \/ Lstat(r) \/ Mkdir(r) \/ SpawnCapture(r) \/ WaitCapture(r)
    \/ AnalyzeStep(r) \/ FinishRun(r)

RunNext ==
    \/ \E r \in Captures :
          RunStep(r) \/ CaptureStep(r) \/ CaptureCrash(r) \/ RunCrash(r)
    \/ RunTerminating

RunSpec == RunInit /\ [][RunNext]_allVars

\* A run and its inspect-capture are ordinary processes that the system goes
\* on scheduling.  Nothing makes the observed command end.
OwnStep(r) == r \in spawned /\ Step(r) /\ UNCHANGED <<runVars, analyzeVars>>

FairRunSpec ==
    /\ RunSpec
    /\ \A r \in Captures : WF_allVars(RunStep(r)) /\ WF_allVars(OwnStep(r))

-----------------------------------------------------------------------------
(* Properties.                                                             *)

RunTypeOK ==
    /\ TypeOK
    /\ A!TypeOK
    /\ dir \in BOOLEAN
    /\ runPc \in [Captures -> RunStages]
    /\ runExit \in [Captures -> ExitCodes]
    /\ spawned \subseteq Captures

\* One directory is only ever given to one inspect-capture, and so to one
\* analysis, however many runs name it and whatever is killed and started
\* again; inspect-capture by itself relies on this.  The overlap analyze by
\* itself does not exclude never happens to the analyses of runs.
OneCapturePerDirectory ==
    /\ \A r, s \in spawned : r = s
    /\ ~overlapped
    /\ \A n \in A!Names : product[n] # Absent => product[n].by \in spawned

\* The exit status of run.  Zero and one promise complete evidence: what the
\* capture sealed, an analysis of it a reader accepts, and a replay that
\* agrees with it.  Zero also promises a command that exited zero and an
\* analysis without findings; one, that either is not so.
Established(r) ==
    /\ Sealed(r)
    /\ A!AnalysisResult
    /\ \A role \in A!Inputs : product[A!Copies[role]].holds = artifact[role]
    /\ A!Verdict(A!Replayed) = A!Outcome

ExitContract ==
    [][\A r \in Captures :
          runExit[r] = "none" /\ runExit'[r] \in {"success", "findings"} =>
              /\ Established(r)'
              /\ runExit'[r] = "success" <=>
                    receipt'.status = "exit0" /\ A!Outcome' = "success"]_allVars

\* A process the command left behind may go on writing, and the run's two
\* readings of the logs may differ for it.  Still no status of zero or one
\* becomes wrong: the analysis a reader accepts and the receipt say what the
\* status says, and as long as the capture passes its verification, what was
\* copied has the sealed bytes and replays to that outcome.  A late writer can
\* make evidence fail its verification, never make it say something else.
ExitStands ==
    \A r \in Captures : runExit[r] \in {"success", "findings"} =>
        /\ A!AnalysisResult
        /\ runExit[r] = "success" <=>
              receipt.status = "exit0" /\ A!Outcome = "success"
        /\ Accepts(artifact, receipt) =>
              /\ Sealed(r)
              /\ \A role \in A!Inputs :
                    Bytes(role, product[A!Copies[role]].holds)
                       = Bytes(role, artifact[role])
              /\ A!Verdict(A!Replayed) = A!Outcome

\* What a late writer does to a file: nothing written before it is lost.
OnlyAppended(role) ==
    /\ artifact'[role].by = artifact[role].by
    /\ artifact'[role].whole = artifact[role].whole
    /\ artifact[role].chunks \subseteq artifact'[role].chunks

\* The evidence of a run that exited zero or one is never changed again, also
\* when the same command line is run again: what commands.md calls immutable.
\* A late writer can append to the capture's files, and that is all.
EvidenceStays ==
    [][(\E r \in Captures : runExit[r] \in {"success", "findings"}) =>
          /\ UNCHANGED <<receipt, toolReceipt, product>>
          /\ IF Lingering THEN \A role \in Roles : OnlyAppended(role)
                          ELSE UNCHANGED artifact]_allVars

\* A run ends unless its command runs for ever: a capture that gives up or is
\* killed at any point does not leave run waiting.
RunEnds ==
    \A r \in Captures :
        []<>(child[r] # "running") => <>(runPc[r] \in {"done", "crashed"})
=============================================================================
