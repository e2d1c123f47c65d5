------------------------------- MODULE MCReaders -------------------------------
(***************************************************************************)
(* The readers of analysis directories for TLC: view alone, model verify   *)
(* and model compare beside a view (Readers), and, as a component that     *)
(* shares no state with them, the writing of the finding indexes that      *)
(* model compare reads (FindingIndex): each behaviour is of one of the two *)
(* while the other stands still.                                           *)
(***************************************************************************)
EXTENDS Readers, FindingIndex, TLC

VARIABLE component

-----------------------------------------------------------------------------
(* Two analyses that differ in nothing, in the last block of the model, in *)
(* its length, or in the finding index; one of their files may be damaged  *)
(* before, and a view writes to one of them or elsewhere, perhaps what was *)
(* there before the damage.                                                *)

ManifestOrder ==
    <<"resource-report.txt", "resource-report.json", "concurrency-report.txt",
      "concurrency-report.json", "trace-tree.txt", "trace-summary.txt",
      "sanitizer-report.txt", "sanitizer-report.json", "correlated-report.txt",
      "correlated-report.json", "resource-lifetimes.md", "run-model.json",
      "summary.md", "finding-index.tsv", "input-resources.log",
      "input-calls.log", "input-stderr.txt">>

Same == [path \in {Path(d, n) : d \in {Before, After}, n \in Listed} |->
            CASE path \in {Path(d, "run-model.json") : d \in {Before, After}} ->
                    <<"model 1", "model 2">>
              [] path \in {Path(d, "finding-index.tsv") : d \in {Before, After}} ->
                    <<"index 1">>
              [] path \in {Path(d, "resource-report.txt") : d \in {Before, After}} ->
                    <<"report 1", "report 2">>
              [] OTHER -> <<path, path>>]
Variants ==
    {Same,
     [Same EXCEPT !["after/run-model.json"] = <<"model 1", "model 3">>],
     [Same EXCEPT !["after/run-model.json"] = <<"model 1">>],
     [Same EXCEPT !["after/finding-index.tsv"] = <<"index 2">>]}
Damaged == {[Same EXCEPT ![path] = <<path>>] :
               path \in {"before/resource-report.txt", "before/input-stderr.txt",
                         "after/resource-report.txt"}}
Disks == {(Streams :> <<>>) @@ disk0 : disk0 \in Variants \cup Damaged}
ReaderVectors ==
    {<<"-o", target, "resource", "before">> :
        target \in {"new", "before/run-model.json", "after/finding-index.tsv",
                    "before/input-calls.log", "after/resource-report.txt"}}

-----------------------------------------------------------------------------
(* View alone: every view, up to two options before it, and an output path *)
(* that is new, old, or a file of the directory.                           *)

Options == {"-d:human", "-d:json", "-d:human,json", "-d:other", "-m", "-s"}
Prefixes == UNION {[1 .. n -> Options] : n \in 0 .. 2}
Targets == {<<>>, <<"-o", "new">>, <<"-o", "old">>, <<"-o">>,
            <<"-o", "d/trace-tree.txt">>, <<"-o", "new", "-o", "old">>}
Operands == {<<>>, <<"report", "d", "d">>}
            \cup {<<name, "d">> :
                     name \in {"resource", "sync", "trace", "report", "other"}}
AloneVectors == {prefix \o target \o operands :
                    prefix \in Prefixes, target \in Targets,
                    operands \in Operands}
Whole(names) ==
    [path \in {Path("d", name) : name \in names} |-> <<<<path, 1>>, <<path, 2>>>>]
AloneDisks ==
    {(Streams :> <<>>) @@ ("old" :> <<"x", "x", "x">>) @@ Whole(names) :
        names \in {Listed, Listed \ {"resource-report.txt"}}}

EveryVector == ReaderVectors \cup AloneVectors
EveryDisk == Disks \cup AloneDisks

NoReader ==
    /\ sealed = Same /\ reader = "verify" /\ unverified = <<>>
    /\ listed = 0 /\ compared = 0 /\ position = 0 /\ different = FALSE
    /\ readerPc = "done" /\ readerExit = "none"
    /\ damage = {} /\ broken = FALSE

NoView ==
    /\ disk = Streams :> <<>> /\ argv = <<>> /\ index = 1
    /\ asked = [outputs |-> {"human"}, mermaid |-> FALSE, summary |-> FALSE,
                output_path |-> Null, words |-> <<>>]
    /\ todo = <<>> /\ copied = 0 /\ rendering = FALSE /\ failed = FALSE
    /\ viewPc = "parse" /\ viewExit = "none"

-----------------------------------------------------------------------------
(* Findings that differ in one field, in two that pull in different        *)
(* directions, or in what is not compared.                                 *)

Plain == [i \in 1 .. FieldCount |-> 0]
SomeFindings ==
    {[key |-> Plain, message |-> m] : m \in {0, 1}}
    \cup {[key |-> [Plain EXCEPT ![i] = 1], message |-> 0] : i \in {1, 3, 6}}
    \cup {[key |-> [Plain EXCEPT ![1] = 1, ![3] = -1], message |-> 0]}

NoIndex ==
    /\ found = [a \in Analyses |-> <<>>]
    /\ indexes = [a \in Analyses |-> <<>>]
    /\ indexPc = [a \in Analyses |-> "sort"]

-----------------------------------------------------------------------------
BesideInit ==
    \/ /\ component = "readers"
       /\ ReadersInit /\ NoIndex
       /\ disk \in Disks /\ argv \in ReaderVectors
    \/ /\ component = "view"
       /\ ViewInit /\ NoReader /\ NoIndex
       /\ disk \in AloneDisks /\ argv \in AloneVectors
    \/ /\ component = "index"
       /\ NoView /\ NoReader /\ IndexInit

ReadersMove ==
    /\ component \in {"readers", "view"}
    /\ ReadersNext
    /\ UNCHANGED <<component, indexVars>>

IndexMoves ==
    /\ component = "index"
    /\ IndexNext
    /\ UNCHANGED <<component, disk, viewVars, readerVars>>

BesideNext == ReadersMove \/ IndexMoves

BesideSpec ==
    BesideInit
    /\ [][BesideNext]_<<component, disk, viewVars, readerVars, indexVars>>
=============================================================================
