# Verification of p101-inspect

TLA+ models of `p101-inspect` and `inspect-capture`: how the evidence of a run
is captured, sealed, verified and analyzed, what a reader may conclude from
it, and machine-checked proofs of the main results. Source paths below are
relative to the repository (`src/runner.c`, `docs/`, ...); `PROJECT.json` maps
each definition to the lines it stands for.

## The system

`inspect-capture -o dir -- cmd` runs a command with two event logs in its
environment and leaves a directory of evidence sealed by a receipt.
`p101-inspect analyze dir` verifies the receipt, builds a causal model from the
logs and writes an analysis directory with its own manifest and receipt.
`p101-inspect run` does both in a fresh directory. `model verify`,
`model compare`, `model check`, `model explain`, `interleaving` and `view` read
an analysis directory. There are no threads and no locks: processes meet only
through files, argument vectors, exit statuses and the environment. Everything
in `lib_tool_event` (`p101_tool_*`) and the `p101_*` wrappers is outside the
repository and is modelled from how it is used.

| Component | State | Operations | What makes it hard |
| --- | --- | --- | --- |
| capture orchestration (`runner.c`, `paths.c`, `report.c`, `main.c`) | ten files of one directory, the pending error, the child's status | `p101_observe_run`: paths, directory, command.txt, manifest.txt, two logs, child, summary.txt, receipt.txt, tool-receipt.json | errors are looked at only at some points and reset at two; the directory may hold an earlier capture; kills |
| observed child (`child_execution.c`) | its environment, the logs | redirect, clear and set variables, exec | its descendants outlive the wait and keep the log paths |
| capture verification (`inspect_main.c` 475-776) | roles observed so far | `verify_capture`, `verify_artifact`, line parsing | files may change while they are read |
| analyze (272-473, 778-1160) | model, analysis, the output directory | verify, ingest, run, bundle, seven writers | the logs are read three times; failures half way; retries; `--force`; nothing locks the output path between the look at it and the first write |
| analysis verification (1852-2106) | none | `analysis_result`, `verify_analysis_manifest`, `load_analysis_directory` | half-written directories |
| run (1162-1355, 1677-1715) | the directory, the child | lstat, mkdir, spawn, wait, analyze | races on the path, independent kills, combining exit statuses |
| report paths (`paths.c` 73-290) | path buffers, the directory tree | strncpy, joins, mkdir of every ancestor | lengths around PATH_LEN; several makers of one tree |
| model verify/compare, rule packs (2108-2928) | counts and findings | expectations, rule evidence, file comparison | number parsing, read errors, files that change meanwhile |
| presentation (`view`, `lesson`, finding index) | the destination of a copy | selecting, copying and sorting | output is truncated before it is known to be readable; qsort is not stable |
| interleaving (1625-1658), explain (2718-2818) | the loaded analysis | load, explore or look up, unload | half-made objects; the exploration itself is external |
| command lines (`cli.c`, `main.c`, `inspect_main.c` 127-239, 1162-1340, 2021-2050) | parsed arguments, the vector run builds, the path of inspect-capture | parse, check, usage, locate | getopt's permutation, sizing of buffers and vectors |

What each promises, and what the properties below are taken from:

- capture: accepted evidence is of one run and complete; the exit status tells
  whether there is such evidence (`README.md` 8-10); the shared receipt binds
  all of it (comment in `report.c` 113-118); evidence is immutable
  (`commands.md` 11).
- analyze: a directory the reader accepts is the complete result of one
  analysis; what was analyzed is what was sealed.
- run: its exit status establishes both, and its directory is used once; what
  follows `--` reaches the observed command as it is.
- the child's environment: own logs, only what was asked for, no fault request
  of the tool's own (`child_execution.c`).
- the readers: zero and one are verdicts on a whole directory and on all that
  was asked; everything else is trouble.

The hazards, each at its line and with the properties that cover it, are listed
in `PROJECT.json` under `hazards`.

## Modules

| Module | What it is | Kind |
| --- | --- | --- |
| `Evidence` | the contents of a capture directory, fingerprints, `verify_capture` as a predicate (`Accepts`) | shared definitions |
| `Capture` | `p101_observe_run`, one action per call that changes a file, the error state or the child | component |
| `Custody` | what a capture promises through its reader: evidence changes owner only while nothing is sealed, an exit reports what is sealed | abstract specification |
| `Analyze` | `analyze_command`, the analysis directory and `analysis_result` | component |
| `MCCapture`, `MCAnalyze` | the same with the symmetry of captures, of analyses | TLC instances |
| `InspectRun` | `run_command`, with `Capture` as its child process and an instance of `Analyze` in its own | composition |
| `ReportPaths` | `p101_observe_make_report_paths` and `p101_observe_create_report_dir`, any number of makers | component |
| `ChildEnv` | the environment of an observed child and of a helper, for nested captures | component |
| `Cli` | `p101_observe_parse_arguments`, `p101_observe_check_arguments` and `main` of inspect-capture, over getopt | component |
| `RunArguments` | `run_command` from its arguments to the spawn, composed with `Cli` as the reader of the vector | composition |
| `Commands` | `main` and `model_command` of p101-inspect, `locate_capture_program`, `lesson`, `interleaving`, `explain`, the life of a loaded analysis | component |
| `FindingIndex` | `write_finding_index` and its comparison, for two analyses | component |
| `Facts` | what `model verify` and `model check` ask of a loaded analysis | shared definitions |
| `Expectations` | `model_verify` with a file of expectations | component |
| `RulePacks` | `model_check` and the catalog | component |
| `View` | `view_command` and `copy_file_to_stream` | component |
| `Readers` | `analysis_result` and `model_compare`, composed with a concurrent `View` | composition |
| `MCLaunch` | `RunArguments` with `Cli`, `ReportPaths` and `ChildEnv`, with their sets of inputs | TLC instance |
| `MCCommands` | `Commands`, `Expectations` and `RulePacks`, with their sets of inputs | TLC instance |
| `MCReaders` | `Readers` with `View`, and `FindingIndex`, with their sets of inputs | TLC instance |
| `EvidenceProofs` | types of `Evidence`; that logs only grow, and what fingerprints then tell | proofs |
| `CaptureProofs` | type correctness of `Capture`, the flow of its stages; its inductive invariant and safety properties; what its exits promise, and that it implements `Custody` | proofs |
| `AnalyzeProofs` | the inductive invariant of `Analyze`, its type correctness and five properties | proofs |
| `InspectRunProofs` | one directory for one capture; the exit contract of run, and what stands of it under late writers, from the invariants of `Capture` and of `Analyze` | proofs |
| `LaunchProofs` | `ReportPaths` and `ChildEnv`, and the types of `MCLaunch` | proofs |
| `CommandLineProofs` | `Cli` and `RunArguments`: how a vector of any length is read, and what run passes through | proofs |
| `CommandsProofs` | `Commands`, `RulePacks` and `Expectations` | proofs |
| `ReadersProofs` | `FindingIndex`, `View` and `Readers` | proofs |

How they relate: `Capture` and `Analyze` extend `Evidence`; `InspectRun`
extends `Capture` and instantiates `Analyze`; `Capture` implements `Custody`;
`RunArguments` extends `Cli`; `Readers` extends `View`; `Expectations` and
`RulePacks` extend `Facts`.

`Capture`, `Analyze` and `InspectRun` use only model values and finite
records, so their cfg files give the constants directly and their MC modules are
for the symmetry sets. `MCLaunch`, `MCCommands` and `MCReaders` each check
several components in one run. Where these share no state, a variable
`component`, fixed in the initial state, names the one a behaviour is of; the
others stand still in one of their initial states. The set of states is then the
union, not the product, of those of the components, and no interleaving is
left out, since steps of one could not tell those of another. Components that
do meet (run and inspect-capture's parser, makers of one directory tree, a
reader and a view that writes) are composed and interleave.

### Capture

`artifact` maps a role to the content of its file: who created or truncated it,
whether its writer closed it without an error, and whose children wrote into
it. A fingerprint is abstracted to the bytes: two files of one role match when
the same records are in them. The manifest holds the run id and the logs hold
records of the run, so these bytes tell captures apart; command.txt,
stdout.txt, stderr.txt and summary.txt of two captures may be equal, and then
match. `pc` is the next call; `err` the pending error. A buffered file takes
two steps, `Open...` (fopen truncates) and `Close...` (the data arrive or part
of it is lost, an error is raised or not). A `p101_` wrapper acts even when an
error is pending and adds its own. What is left in receipt.txt by a kill is a
prefix of what was written: the model shows the line just written, and the
kills one step earlier show the shorter ones.

Captures of one directory follow one another: `inspect-capture` takes no lock,
and two at once could produce anything. This is the guard of `MakeReportPaths`
(an assumption on the users of `inspect-capture`), and `InspectRun` shows that
`run` guarantees it.

### Analyze

`product` maps each name in the output directory to its file: which invocation
opened it, whether it was closed without an error, and what it shows (the
inputs analyzed, a copied log, the lines of the manifest, the receipt's
outcome). "reports" stands for the eleven files of
`p101_tool_analysis_write_bundle`. `analysis[a]` is what its model and its
analysis were fed. The policy is a constant, `Flagged`: a record in one of
these inputs is a finding. `verify_capture` runs line by line so that the late
writer can come between. `Init` is every directory a capture can leave: sealed,
with a receipt that lost its end, without one, or from before the command ran.

Any number of invocations may name one output path, and nothing in the code
keeps them apart: `lstat` (`inspect_main.c` 351) and the first write (417) are
far apart, nothing is locked, and each file is opened with `"we"`. The model
allows this: `Start` looks only at whether the directory is there. A file that
two have open holds `Mixed` contents when it is written (`Closes`), or partly
written (`Flush`). The history variable `overlapped`, which no action's guard
reads, becomes true when an invocation passes lstat while another is between
its own lstat and its return (`AtWork`). Properties that an overlap ends say
`~overlapped`; `AcceptedIsFinal` says what of it survives. One interleaving is
left out: a fingerprint of another file is taken in the step that closes the
file it is written to, so an overlapping invocation does not come between these
two. It makes a difference only after an overlap.

### InspectRun

The variables of `Capture`, those of `Analyze` (as instance `A`, over the same
capture directory) and those of `run_command`. `spawned` are the captures that
were started; a capture lives on when its run is killed. `waitpid` interrupted
by a signal stutters; that it fails otherwise is allowed once the child is over
(ECHILD). The analyses of runs never overlap, because mkdir gives the directory
to one run; `OneCapturePerDirectory` has that as a conjunct.

### ReportPaths

A path is a sequence of characters, because lengths and slashes are what
counts. `dir` is the buffer after strncpy, `JoinFails` the check of each join,
`reached` where `create_report_dir` has come to; `tree` and `plain` are the
file system. Makers share the tree, so mkdir meets a directory that another
just made. `DirectoryMade` says what success does not mean as well: the last
component may be a file, since EEXIST is accepted without a look.

### ChildEnv

One action per setenv or unsetenv, in the order of `child_execution.c`, in the
child between fork and exec. `environment[k]` is what the command of capture
`k` got, and the next capture starts from it when the observed command is
itself inspect-capture. The order of the calls is a sequence of operations,
because a later one overwrites an earlier. Taken as given: `p101_tool_run_capture`
and its relatives, which are external, do not exec a child whose setup left an
error. `p101_observe_run_tool_capture`, which sets up helpers, has no caller in
this repository; it is modelled as what it would do.

### Cli and RunArguments

`Letters` gives the option letters of an argument, `Attached` the value that
ends it; getopt is modelled from its manual as an external, in both of its
orders (`posix`). `Cli` has the loop, the checks behind it and the exits of
`main`. `RunArguments` reads the command line of `run`, fills `capture_argv`
and starts `Cli` with it, so that `RunPassesThrough` compares what a user wrote
with what inspect-capture will do. In `RunArguments` CAPTURE_ARGUMENT_OVERHEAD
is a constant, 7, by assumption. The letters have two: `-o` takes the rest of
its argument as its value, and `-A`, `-R` and `-o`, as `run` writes them, are
arguments of one letter each (`LettersAssumption`, `CaptureAssumption`).

### Commands

`capture_program` is the buffer, character by character: a copy that left it
would enlarge its domain (`CopiedTo`). `loaded` are the members of
`struct loaded_analysis` that are not NULL, `made` and `destroyed` count the
objects. What `view`, `model verify` and `model check` do with the analysis is
left open here; all their returns lead through `unload_analysis`.

### FindingIndex, Expectations, RulePacks

Data are abstracted to what is compared: a finding is the tuple of its six
compared fields and a message; an expectation line is its key and value, a
number is its sign, digits and tail, with strtoul's reading of it
(`Modulus` is ULONG_MAX + 1); fnmatch is a relation, `Matching`. qsort is any
permutation that is sorted by the comparison.

### View and Readers

`disk` maps a path to its blocks. A copy moves block by block; the last block
may be lost in fclose. `Readers` adds `analysis_result` (manifest line by line,
each opened when its turn comes) and `compare_file_pair`, which opens the files
again, while `view -o` of another process truncates and fills a file of the
directory. `sealed` is what the manifests have fingerprints of, and `damage`
remembers which files differed from it when the reader began.

## Runs

| Run | Question | Bounds |
| --- | --- | --- |
| `CaptureSafety` | Is what the reader accepts one run's complete evidence, do exits leave it, does a capture implement `Custody`? | two captures of one directory; the command writes stdout and one log |
| `AnalyzeSafety` | Is what `model verify` believes one complete analysis; do exits, replays and retries agree with it; what is left of that when invocations overlap? | two invocations, one log; after an overlap, one sealed capture without `--force` (`OverlapBound`) |
| `AnalyzeLateWriter` | What can a late writer do to a verified analysis? | one invocation, all three inputs and stdout |
| `RunSafety` | Do concurrent runs exclude each other, is the exit contract kept, does a run end? | two runs of one path |
| `RunLateWriter` | What can a late writer do to a run, and to what its status said? | two runs of one path, writers to stderr and the call log |
| `Launch`: `Cli`, `RunArguments` | Do options, operands and mistakes end where they should, and does inspect-capture do what was asked of run? | inspect-capture: all vectors of up to four of ten arguments, both orders of getopt; run: up to four words before the command, which has up to two |
| `Launch`: `ReportPaths` | Is any path cut, any directory made that nobody asked for? | two makers, all paths up to three characters and six longer ones around PATH_LEN = 9 |
| `Launch`: `ChildEnv` | What does a child inherit? | two nested captures, two fault fields, one failing call in a setup |
| `Commands`: `Commands` | Which program is spawned, what is leaked, which failures become verdicts? | all names up to seven characters in a buffer of six; every command |
| `Commands`: `Expectations` | Is the verdict that of the lines? | all files of up to two lines, numbers beyond an unsigned long of three bits |
| `Commands`: `RulePacks` | Is the status that of all packs? | up to six arguments, up to two findings |
| `Readers`: `View` | Is a report that is not trouble whole? | up to two options, every view, new, old and own targets |
| `Readers`: `Readers` | Is damage or a difference missed? | two directories of seventeen files, four variants, one damaged file, one writer with five targets, the damaged file among them |
| `Readers`: `FindingIndex` | Does the index depend on the order of findings? | two analyses with up to three of six findings |
| `CaptureReuse`, `CaptureMaskedError`, `AnalyzeForced`, `AnalyzeSignal` | statements of the repository that the code does not keep | as small as shows it |

Why the bounds are enough to be interesting. Every hazard of a reused
directory is between an earlier user and the present one, so two captures show
it: whatever a third finds is what a second could have found. One log
suffices where the two are treated alike, and the proofs below have no bound.
Every call may fail and every process may be killed at each step, in all runs.
The bounds on inputs are sets of the MC modules and two constants: `MaxDepth`
(nesting: what a third capture inherits is what a second could) and
`MaxFailures` of `ChildEnv`, `MaxFindings` of `FindingIndex` (three show an
intransitive order). Buffers are shortened, PATH_LEN to 9 and PATH_SIZE to 6,
so that every length on either side of them occurs; the proofs hold for any.
Vectors of four arguments have a value, an option behind an operand, a
terminator and something after it at once. Deadlock is checked everywhere; when
all processes are over the specification stutters explicitly (`Terminating`).

### What the runs show

- **Accepted evidence is of one run** (`AcceptedIsOneRun`), also after any
  sequence of failed, killed and repeated captures, and with late writers: the
  manifest carries the run id, so a stale receipt stops matching as soon as a
  new manifest is there. What is not guaranteed is in the property:
  command.txt may be older, and stdout.txt and stderr.txt may be when the
  command did not succeed. `CaptureSafety` is without late writers; with them
  this property and the next two are proved, and hold of the captures of
  concurrent runs (`RunIsCapture`, `RunAcceptedIsOneRun`).
- **A torn file is never accepted**, command.txt apart (`AcceptedIsWhole`).
- **The command never runs unrecorded** (`NeverRunUnrecorded`).
- **A zero or one exit leaves evidence its reader accepts** with the status the
  capture returned (`ExitSealsEvidence`). This needs `Lingering = FALSE`: a
  descendant that writes between the fingerprint and the exit makes the sealed
  evidence fail verification. The failure is visible to the reader; the exit
  status does not tell it. What holds with late writers is that the receipts
  are of this capture, of its status and bound to each other
  (`ExitSignsHolds`).
- **Analyses** (`AcceptedIsOneAnalysis`, `ExitMatchesEvidence`,
  `AcceptedIsFinal`, `ReplayAgrees`): a failure or kill at any point leaves a
  directory that `analysis_result` rejects and that a retry refuses to touch.
  This is so unless two invocations with that path overlapped, which the code
  does not exclude: both may then find no directory, and the second may
  truncate or mix what the first has had accepted. What `AcceptedIsFinal` says
  with overlaps is that only an invocation which looked before the directory
  was there can do so: from a moment on when none is at work, an accepted
  directory stays as it is, whoever tries. Users of `analyze` have to keep two
  from overlapping; `run` does it by mkdir (`OneCapturePerDirectory`).
- **A late writer is detectable** (`VerifiedMeansSealed`): what a verified
  analysis read and copied is either what the capture sealed, or the capture
  no longer verifies. `analyze` itself does not look again.
- **run** (`OneCapturePerDirectory`, `ExitContract`, `EvidenceStays`): mkdir
  decides a race, a killed run's directory is not reused, and the evidence of
  a run that exited zero or one stays as it is; a late writer appends to the
  capture's files and changes nothing else. The analyses of runs do not overlap.
- **A status stands** (`ExitStands`): the contract says that the logs copied are
  the logs there are, which a late writer ends. What remains is that zero and
  one agree with the receipt and the accepted analysis for ever, and that a
  capture which still passes its verification is, in bytes, what was copied,
  and replays to the outcome. So late output can make evidence fail, never
  make it say something else.
- **Paths** (`NothingCut`, `NoStrayDirectory`): strncpy cuts a long `-o`
  silently, but the joins behind it refuse every path that was cut, before a
  directory is made.
- **The child's environment** (`OwnObservation`, `FaultsAsRequested`,
  `HelperSeesNothing`): nested captures do not mix logs or options. A fault
  request is passed on by field, so one that lacks a field is completed from
  the fault meant for the tools themselves; the property says so.
- **Command lines** (`ParsedAsMeant`, `MistakesAreTrouble`,
  `VectorFits`, `RunPassesThrough`): the `--` that `run` inserts is what keeps
  a command's options its own, in both orders of getopt.
- **Commands** (`CaptureProgramWhole`, `NothingLeaks`): the
  second unload of `interleaving` after a failed load is harmless only because
  `unload_analysis` clears the members. Nothing is said of the statuses of
  `lesson`, `explain` and `interleaving`: zero and one do not mean that the
  text arrived. lesson returns one for an unknown id whether or not its message
  could be written, and what a buffer loses when the process ends goes
  unnoticed. The model has these returns, and no property of them.
- **The index** (`IndexIsOfTheFindings`) is a function of the bag of findings:
  findings that compare equal print equal lines.
- **model verify and check** (`VerdictIsOfTheLines`,
  `DiagnosticsNameTheirLines`, `CheckedAgainstAll`): no read
  error, malformed line or unknown argument behind a verdict. Numbers without
  digits or with a sign, to which strtoul gives a value nobody meant, are
  outside the property.
- **Readers** (`DamageIsTrouble`, `CompareTruthful`, `ViewDelivers`): a verdict
  is only on directories that were whole when the command began, but for a
  file that a view overwrites meanwhile, perhaps with what was sealed. compare
  can be deceived by a read error, which it takes for the end of a file, and
  by a view that writes to one of the four files it compares; by nothing else.
- **Paths are made in full** (`DirectoryMade`): whatever slashes a path has and
  whoever else makes directories, a maker that goes on has all the ancestors of
  its path; only the last component may turn out to be a file.

### Where the code departs from what the repository says

- `CaptureMaskedError`: `write_manifest_file` resets every pending error, also
  one that `write_command_file` left (`paths.c` 232-239, `runner.c` 76-78). A
  command.txt that could not be written does not prevent exit 0.
- `CaptureReuse`: with the same `-o` a capture overwrites sealed evidence
  (`paths.c` 49), which `commands.md` 11 calls immutable.
- `AnalyzeForced`: under `--force` summary.md says VERIFIED of a capture that
  failed verification (`inspect_main.c` 842).
- `AnalyzeSignal`: `analyze` exits zero on a capture whose command was killed
  by a signal (`inspect_main.c` 448), against `README.md` 8-9. `run` does not:
  it combines the capture's exit status.

## Fairness

Only `RunEnds`, in the run `RunSafety` (`FairRunSpec`), needs any: weak fairness of the steps of run and of those
of its inspect-capture, which are ordinary single-threaded processes that the
system schedules and whose calls return. The observed command is not assumed to
end; `RunEnds` speaks of runs whose command does.

## Proofs

TLAPS checks the following for all values of the constants that satisfy the
named assumptions of each module. TLC evaluates these assumptions in the runs.

### Capture

From `AbsentAssumption`, `AbsentReceiptAssumption` (no path that names nothing
looks like a file), `OutputsAssumption`, `LingeringAssumption` (what the
children write and when), for any number of captures, with or without late
writers:

- `TypeCorrect`: `Spec => []TypeOK`. `TypeInv` adds `FilesOpened`, that a file
  being written is there, without which an append to a receipt has no type.
- `Invariance`: `Spec => []IInv`.
- `NeverRunUnrecordedHolds`, `AcceptedIsOneRunHolds`, `AcceptedIsWholeHolds`,
  `ToolReceiptBindsEverythingHolds`, each from `IInv`.

The invariant is needed because acceptance is about a receipt written by one
capture and files that others may have touched since. Its parts:

- `Exclusive`: at most one capture is under way.
- `Files`: by each stage, which files its capture has written, and that they
  are whole if no error is pending.
- `OutputsWhole`: files created empty are whole.
- `ReceiptAt`, `Complete`: how far the receipt of the capture under way has
  come, with a line for each role passed.
- `ReceiptLines`: a line of a receipt is of a whole file (command.txt apart),
  and its manifest line is of its own capture's manifest.
- `Custodial`: if the manifest on disk is the receipt owner's, so is everything
  that records what was observed. This is the heart: a later capture replaces
  the manifest before any other file it shares with the receipt, so it can only
  disturb evidence that no longer verifies.
- `ToolReceiptBinds`: the shared receipt names a complete receipt.

`StageFlow` and `FilesStep` say, once for all actions, where a step may lead
and which files it can change; the preservation lemmas use them. TLC checked
`IInv` before it was proved.

### Analyze

From the assumptions of `Evidence` and `AbsentFileAssumption` (no file of an
analysis looks like one that is missing), for any number of invocations, any
policy, with or without late writers: `TypeCorrect`,
`AcceptedIsOneAnalysisHolds`, `VerifiedMeansSealedHolds`,
`AcceptedIsFinalHolds`, `ExitMatchesEvidenceHolds`, and `ReplayAgreesHolds`
for `Lingering = FALSE`. `OutputsAssumption` says what
the late writer can reach: the inputs of an analysis and stdout.txt.

Types are kept whatever overlaps: `TypeInvariance` is `Spec => []TypeInv`. All
else rests on `Invariance`, `Spec => [](~overlapped => IInv)`. It is inductive
because `overlapped` never becomes false again (`OverlapStays`), and the step
that makes it true writes nothing (`OverlapBegins`). `AcceptedIsFinal` has its
first half from there, and its second from `TypeInv` alone: who starts finds
the directory, and who is not at work does not write. The invariant `IInv`:

- `Exclusive`, `Untouched`: without overlap, one analysis at most is past the
  lstat, and until it writes there is no file.
- `Progress`, by `Rank`: files are written in one order; those before the
  present stage are whole, those behind it are not there. So a whole receipt
  means that everything is there and nobody writes any more.
- `OneAuthor`, `Products`, `Bound`: all files are by one analysis, show what it
  read, and the manifest and receipt have the fingerprints of what is on disk.
- `ReceiptRead`, `Seals`, `Quiet`: what `verify_artifact` compared. With late
  writers, a log on disk only grows (`Grown`), so what was verified is before
  what was read, which is before what was copied, which is before what is
  there now. If the first and the last have one fingerprint, so have those
  between (`FingerprintBetween`): hence `VerifiedMeansSealed`. And if the
  capture passes verification at any later time, the copies replay to the
  outcome (`AcceptedReplays`): the policy asks which inputs have records, and a
  fingerprint tells that of each file (`FingerprintShowsWhetherEmpty`).
  `GrowthKeeps` is the fact about writers: whatever only grows the files of the
  capture keeps all of this, whoever does it.

### Exits of a capture, and Custody

`ExitSealsEvidenceHolds` and `CaptureImplementsCustody` assume
`Lingering = FALSE`. That is the condition under which the promise can be kept
at all: a descendant that writes after its file was fingerprinted makes the
evidence fail verification although the capture then exits zero.
`ExitSignsHolds` is the half that needs no such condition. Beyond `IInv`,
`Sealable`, which is proved with and without late writers, says:

- `PrintsHold`: the receipt under way is this capture's, of its status, and
  without late writers (`ChildrenReaped`) its lines are still the fingerprints
  of what is on disk.
- `Bound`: when tool-receipt.json is whole, it names this receipt and the
  outcome the capture is about to return.
- `Unfinished`: a status is set in the last step only (`HowItExits`).

For the refinement, `sealed` of `Custody` is the owner and status of the receipt
if `verify_capture` accepts the directory, and each step of a capture is one
there or none: it takes the directory over, seals, unseals, or exits.

### InspectRun

- `OneCapturePerDirectoryHolds` (`RunInv`), with or without late writers: any
  number of runs of one path have one holder at most, and only the holder
  starts a capture, analyzes or writes. `RunInv` has that an analysis is only of
  a run that spawned its capture, hence that analyses never overlap, and what is
  proved of `Analyze` without overlap holds in runs.
- `RunTypeCorrect`, `EvidenceStaysHolds` and `ExitStandsHolds`, with or without
  late writers, from `RunInvariance`.
- `ExitContractHolds` for `Lingering = FALSE`, from the same. It cannot hold
  otherwise: a writer between the fingerprints and the return of run makes
  evidence that its reader rejects, and run does not look again.
- `RunIsCapture`, `RunAcceptedIsOneRun`, `RunImplementsCustody` (the latter for
  `Lingering = FALSE`) and `RunAnalysesKeep`: the parts keep in a run what they
  promise alone, where the directory that an analysis verifies, reads and copies
  is written by captures of several runs and by what their commands left behind.

The composition reuses what is proved of its parts. A behaviour of `RunSpec` is
one of `Capture` (`RunIsCapture`), so `Sealable` holds. It is not one of
`Analyze`, whose initial states have a capture that is over; but each of its
steps keeps the invariant of `Analyze` once that holds (`AP!NextKeeps`, through
an instance of `AnalyzeProofs`), and in a state where no analysis has begun it
holds of whatever a capture left (`UntriedHolds`). `Joined` ties the two: while
a capture works no analysis has begun (`AnalysisOf`), an analysis begins when
its capture is done and its evidence signed (`CaptureOf`), and a status is
given when both are over (`ReturnOf`, which has how the two are combined). The
contract is then the conjunction of what is known of the parts in the state in
which `FinishRun` returns (`EvidenceEstablished`), and `ExitStands` what is known
of them in every state after it (`StatusTells`, `EvidenceStands`). A late writer
is a step of `Capture`, not one of `Analyze`; that it keeps the invariant of
the latter is `GrowthKeeps`, since a child only appends (`ChildAppends`).

### Paths and environment

- `TypeCorrect`, `NothingCutHolds`, `NoStrayDirectoryHolds` of `ReportPaths`,
  for any PATH_LEN, names and arguments, any number of makers, from
  `PathLenAssumption`, `ArgumentsAssumption`, `NamesAssumption`.
- `DirectoryMadeHolds`, from these and `OccupiedAssumption` (files that are
  there have paths of the same characters). The invariant `MadeInv` says that
  what exists has its ancestors (`Closed`) and that what a maker has gone
  through exists (`WayMade`). The lemmas in front of it are about canonical
  paths: a prefix that ends a component has a prefix of the canonical path
  (`PrefixIs`), a path and its canonical form have the same ancestors
  (`AncestorsOfCanonical`), and those of such a prefix are the ones that are
  no longer (`AncestorsOfPrefix`).
- `EnvTypeCorrect`, `OwnObservationHolds`, `FaultsAsRequestedHolds`,
  `HelperSeesNothingHolds`, for any depth of nesting, any fields of a fault
  request and any number of failing calls, from the assumptions of `ChildEnv`
  (its values differ). The invariant says of the child under setup what each
  call made so far has left in it, whichever of them failed.

### Commands, expectations, rule packs

- `CaptureProgramWholeHolds`: for any PATH_SIZE that holds the bare name and
  any argv[0].
- `NothingLeaksHolds`: for any analyses and arguments.
- `CheckedAgainstAllHolds`: for any number of arguments and any facts. That
  `secure-c` is the strictest pack is a fact about the catalog, by cases.
- `VerdictIsOfTheLinesHolds`, `DiagnosticsNameTheirLinesHolds`: for files of
  any length, any relation `Matching` and any width of the numbers, from
  `AmountsAssumption` and `FilesAssumption`. The invariant counts: `Missed` are
  the lines read so far whose condition fails, `failures` is their number.

### Command lines

For vectors and commands of any length and any words, from `WordsAssumption`,
`LettersAssumption`, `RunAssumption` and `CaptureAssumption`:

- `ParsedAsMeantHolds`, `MistakesAreTroubleHolds`, from `CliInvariance`. The
  property compares the loop over getopt with a reading of the vector from left
  to right. `CliInv` says where the one is relative to the other: `Passed` and
  `Between`, what getopt has behind it and that it stands between two elements
  or in a cluster of letters; `Understood`, that options and operands so far
  are those the reading gives; `Stopped` and `Blamed`, that where the loop ends
  the reading ends, and that an error has a cause in the vector.
- `RunPassesThroughHolds`, from `PassInvariance`. `PassInv` has `CliInv` for
  the vector that `run` made. `VectorLayout` says where in it each element of
  the command is, hence the reading of that vector: nothing in it is a mistake,
  and its operands are the command as written.
- `VectorFitsHolds`: the vector of `run` is at most six longer than the
  command.

The reading is by recursive functions of a position (`IsValue`, `OperandsTo`,
`IsRunValue`). They are unfolded by induction over a set of positions, from the
well-foundedness of `<` (`LeastNumber`), which no operator parameter is needed
for.

`CliTypeCorrect` gives the types, and that getopt stays within any vector, and
`RunCliTypeCorrect` the same for a vector that `run` hands over while the rest
of the parser's state is what it was. `LaunchTypeCorrect` has the types of
command lines, paths and environments together, as `MCLaunch` runs them
(`LaunchInv`: the invariant of the part that moves, the types of all). It
assumes that `<<"a">>` is a path, which a maker of `MCLaunch` that stands still
is given.

### Readers

- `IndexIsOfTheFindingsHolds`: for any number of findings of any analyses, from
  `FindingsAssumption` and `MaxFindingsAssumption`. Two sorted arrangements of
  one bag are compared where they first part: the key that comes first there
  would occur more often in the one than in the other (`PartingCounts`), so
  they do not part.
- `ViewDeliversHolds`: for any command line, any contents and any output path,
  from `ContentsAssumption`. `ViewInv` says which artifacts are left to render
  (`Renders`), and that the target has so far the beginning of its source, or
  all of it when nothing is left (`Delivered`), unless it is its source.
- `DamageIsTroubleHolds`, `CompareTruthfulHolds`: for any two directories and
  any view beside them, from `ContentsAssumption` and `OrderAssumption`.
  `ReadersInv` adds to `ViewInv`: `Verification`, how far the lines of the
  manifests have been passed; `Undisturbed`, that a file no view writes to is
  as it was, damaged, or as sealed if its line has been passed; `Comparison`,
  what the positions and files passed say of what was sealed.

Their exceptions are needed: a view can overwrite a damaged file with what was
sealed, after which the reader rightly finds nothing, and a view can write to
one of the four compared files between the two times they are read. The run
has both cases.

### Only model-checked

- Liveness and fairness (`RunEnds`), which are out of the prover's reach. Every
  other property of a passing run is a theorem.

## Not modelled

- The fuzz harness, which is test code around the parser that `Cli` models.
- The exploration of interleavings, the policies and the reports themselves:
  in `lib_tool_event`, outside the repository.
- The wording of reports, diagnostics, lessons and usage. What is lost of
  standard output when the process ends is not noticed by the code either.
- Lines longer than a buffer: fgets splits them, the models have whole lines.
- `view`, `check`, `explain` and `interleaving` of a directory that
  `analysis_result` would reject: they do not ask it, and nothing in the
  repository says that they should.
- A relative `-o` under a command that changes its directory: the log paths in
  its environment are then relative to the new one.
- The arguments of `analyze`, which are read as those of `run` are.
- Formatting and parsing of the text files: a line is the record it yields.
- Fingerprint collisions: FNV-1a is taken to tell contents apart, within the
  receipts' own disclaimer (`fingerprint_security=change-detection-only`).
- Loss of power: the code makes no attempt to sync, and a kill loses at most
  what is in the process.

## Plan

Done: all modules above; proofs of every safety property the runs check, on
each component or composition. What is left:

- The hazards that no property covers yet (`PROJECT.json`, those with a note):
  readers that load inputs without asking `analysis_result`, inputs that change
  between verification and loading, expectations longer than a line buffer.
