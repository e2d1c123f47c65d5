----------------------------- MODULE ReadersProofs -----------------------------
(***************************************************************************)
(* Theorems about what is read of an analysis: the finding index, for any  *)
(* number of findings; what view delivers, for any arguments and files of  *)
(* any length; and the verdicts of model verify and model compare while a  *)
(* view may be writing.                                                    *)
(***************************************************************************)
EXTENDS Readers, FindingIndex, FiniteSetTheorems, SequenceTheorems,
        WellFoundedInduction, TLAPS

-----------------------------------------------------------------------------
(* FindingIndex.                                                           *)

\* A set of natural numbers that is not empty has a least one.
LEMMA Least ==
    ASSUME NEW T, T \subseteq Nat, T # {}
    PROVE  \E n \in T : \A m \in T : n <= m
<1>1. PICK n \in T : \A m \in T : ~ (<<m, n>> \in OpToRel(<, Nat))
  BY NatLessThanWellFounded, WFMin
<1>2. \A m \in T : ~ (m < n)
  BY <1>1 DEF OpToRel
<1> QED
  BY <1>2

\* The comparison leaves no two keys undecided.
LEMMA OneComesBefore ==
    ASSUME NEW x \in Findings, NEW y \in Findings, x.key # y.key
    PROVE  ComesBefore(x, y) \/ ComesBefore(y, x)
<1> DEFINE T == {i \in 1 .. FieldCount : x.key[i] # y.key[i]}
<1>1. x.key \in [1 .. FieldCount -> Int] /\ y.key \in [1 .. FieldCount -> Int]
  BY FindingsAssumption DEF Keys
<1>2. T # {} /\ T \subseteq Nat
  BY <1>1 DEF FieldCount
<1>3. PICK i \in T : \A j \in T : i <= j
  BY <1>2, Least
<1>4. i \in 1 .. FieldCount /\ i \in Int /\ x.key[i] # y.key[i]
      /\ x.key[i] \in Int /\ y.key[i] \in Int
  BY <1>1, <1>3 DEF FieldCount
<1>5. \A j \in 1 .. i - 1 : j \in 1 .. FieldCount /\ ~ (i <= j)
  BY <1>4 DEF FieldCount
<1>6. \A j \in 1 .. i - 1 : x.key[j] = y.key[j]
  BY <1>3, <1>5
<1>7. x.key[i] < y.key[i] \/ y.key[i] < x.key[i]
  BY <1>4
<1> QED
  BY <1>4, <1>6, <1>7 DEF ComesBefore

\* The places of a key can be counted.
LEMMA PlacesCount ==
    ASSUME NEW n \in Nat, NEW list \in [1 .. n -> Findings], NEW key
    PROVE  /\ IsFiniteSet({i \in DOMAIN list : list[i].key = key})
           /\ Occurrences(list, key) \in Nat
<1>1. IsFiniteSet(1 .. n)
  BY FS_Interval
<1>2. IsFiniteSet({i \in DOMAIN list : list[i].key = key})
  BY <1>1, FS_Subset
<1> QED
  BY <1>2, FS_CardinalityType DEF Occurrences

\* What qsort does to a list leaves as many of each key.
LEMMA ShuffleKeeps ==
    ASSUME NEW n \in Nat, NEW list \in [1 .. n -> Findings],
           NEW sorted \in Shuffles(list), NEW key
    PROVE  /\ sorted \in [1 .. n -> Findings]
           /\ Occurrences(sorted, key) = Occurrences(list, key)
<1> DEFINE D == 1 .. n
           A == {i \in D : sorted[i].key = key}
           B == {i \in D : list[i].key = key}
<1>1. PICK p \in [D -> D] :
         /\ \A i, j \in D : p[i] = p[j] => i = j
         /\ sorted = [i \in D |-> list[p[i]]]
  BY DEF Shuffles
<1>2. p \in Injection(D, D)
  BY <1>1 DEF Injection, IsInjective
<1>3. p \in Surjection(D, D)
  BY <1>2, FS_Interval, FS_Injection
<1>4. sorted \in [D -> Findings]
  BY <1>1
<1> DEFINE q == [i \in A |-> p[i]]
<1>5. q \in Bijection(A, B)
  <2>1. q \in [A -> B]
    BY <1>1
  <2>2. \A i, j \in A : q[i] = q[j] => i = j
    BY <1>1
  <2>3. \A b \in B : \E i \in A : q[i] = b
    <3> TAKE b \in B
    <3>1. PICK i \in D : p[i] = b
      BY <1>3 DEF Surjection
    <3>2. i \in A
      BY <1>1, <3>1
    <3> QED
      BY <3>1, <3>2
  <2> QED
    BY <2>1, <2>2, <2>3 DEF Bijection, Injection, Surjection, IsInjective
<1>6. ExistsBijection(A, B)
  BY <1>5 DEF ExistsBijection
<1>7. IsFiniteSet(A)
  BY <1>4, PlacesCount
<1>8. Cardinality(B) = Cardinality(A)
  BY <1>6, <1>7, FS_Bijection
<1>9. A = {i \in DOMAIN sorted : sorted[i].key = key}
      /\ B = {i \in DOMAIN list : list[i].key = key}
  BY <1>4
<1> HIDE DEF A, B
<1> QED
  BY <1>4, <1>8, <1>9 DEF Occurrences

\* Where two sorted lists part, the one whose key comes first has it more
\* often: in the other one it is behind nothing it comes before.
LEMMA PartingCounts ==
    ASSUME NEW m \in Nat, NEW left \in [1 .. m -> Findings],
           NEW n \in Nat, NEW right \in [1 .. n -> Findings],
           Ordered(right),
           NEW k \in 1 .. m,
           \A i \in 1 .. k - 1 : i \in 1 .. n /\ left[i].key = right[i].key,
           k \in 1 .. n => /\ left[k].key # right[k].key
                           /\ ComesBefore(left[k], right[k])
    PROVE  Occurrences(right, left[k].key) < Occurrences(left, left[k].key)
<1> DEFINE key == left[k].key
           L == {i \in 1 .. m : left[i].key = key}
           R == {i \in 1 .. n : right[i].key = key}
<1>1. \A i \in R : i < k
  <2> SUFFICES ASSUME NEW i \in R, k <= i PROVE FALSE
    OBVIOUS
  <2>1. k \in 1 .. n /\ i \in 1 .. n /\ right[i].key = left[k].key
    OBVIOUS
  <2>2. i # k /\ k < i
    BY <2>1
  <2>3. ~ComesBefore(right[i], right[k])
    BY <2>1, <2>2 DEF Ordered
  <2>4. ComesBefore(right[i], right[k])
    BY <2>1 DEF ComesBefore
  <2> QED
    BY <2>3, <2>4
<1>2. R \subseteq L /\ k \in L /\ k \notin R
  <2>1. \A i \in R : i \in 1 .. k - 1 /\ i \in 1 .. m
    BY <1>1
  <2> QED
    BY <1>1, <2>1
<1>3. IsFiniteSet(L) /\ Occurrences(left, key) = Cardinality(L)
      /\ Occurrences(right, key) = Cardinality(R)
      /\ Cardinality(L) \in Nat /\ Cardinality(R) \in Nat
  <2>1. DOMAIN left = 1 .. m /\ DOMAIN right = 1 .. n
    OBVIOUS
  <2>2. Occurrences(left, key) \in Nat /\ Occurrences(right, key) \in Nat
        /\ IsFiniteSet({i \in DOMAIN left : left[i].key = key})
    BY PlacesCount
  <2> QED
    BY <2>1, <2>2 DEF Occurrences
<1>4. Cardinality(R) <= Cardinality(L) /\ Cardinality(R) # Cardinality(L)
  <2> HIDE DEF L, R
  <2> QED
    BY <1>2, <1>3, FS_Subset
<1> QED
  BY <1>3, <1>4

\* So sorted lists that have every key as often are printed alike.
LEMMA SortedAlike ==
    ASSUME NEW m \in Nat, NEW left \in [1 .. m -> Findings],
           NEW n \in Nat, NEW right \in [1 .. n -> Findings],
           Ordered(left), Ordered(right), m <= n,
           \A key \in {f.key : f \in Findings} :
              Occurrences(left, key) = Occurrences(right, key)
    PROVE  Printed(left) = Printed(right)
<1> DEFINE Parts(k) == k \in 1 .. m => left[k].key # right[k].key
           T == {k \in 1 .. n : Parts(k)}
<1>1. T = {}
  <2> SUFFICES ASSUME T # {} PROVE FALSE
    OBVIOUS
  <2>0. T \subseteq Nat
    OBVIOUS
  <2>1. PICK k \in T : \A j \in T : k <= j
    BY <2>0, Least
  <2>2. \A i \in 1 .. k - 1 :
           i \in 1 .. m /\ i \in 1 .. n /\ left[i].key = right[i].key
    <3> TAKE i \in 1 .. k - 1
    <3>1. i \in 1 .. n /\ ~ (k <= i)
      BY <2>1
    <3> QED
      BY <2>1, <3>1
  <2>3. right[k] \in Findings /\ (k \in 1 .. m => left[k] \in Findings)
    BY <2>1
  <2>4. k \in 1 .. m => ~ComesBefore(left[k], right[k])
    <3> SUFFICES ASSUME k \in 1 .. m, ComesBefore(left[k], right[k]) PROVE FALSE
      OBVIOUS
    <3>1. Occurrences(right, left[k].key) < Occurrences(left, left[k].key)
      BY <2>1, <2>2, PartingCounts
    <3>2. Occurrences(left, left[k].key) \in Nat
      BY PlacesCount
    <3> HIDE DEF T
    <3> QED
      BY <2>3, <3>1, <3>2
  <2>5. k \in 1 .. m => ComesBefore(right[k], left[k])
    BY <2>1, <2>3, <2>4, OneComesBefore
  <2>6. k \in 1 .. n /\ (k \in 1 .. m => right[k].key # left[k].key)
        /\ \A i \in 1 .. k - 1 : i \in 1 .. m /\ right[i].key = left[i].key
    BY <2>1, <2>2
  <2>7. Occurrences(left, right[k].key) < Occurrences(right, right[k].key)
    <3> HIDE DEF T
    <3> QED
      BY <2>5, <2>6, PartingCounts
  <2>8. Occurrences(right, right[k].key) \in Nat
    BY PlacesCount
  <2> HIDE DEF T
  <2> QED
    BY <2>3, <2>7, <2>8
<1>2. \A k \in 1 .. n : k \in 1 .. m /\ left[k].key = right[k].key
  BY <1>1
<1>3. m = n
  <2>1. n \in 1 .. n \/ n = 0
    OBVIOUS
  <2> QED
    BY <1>2, <2>1
<1> QED
  BY <1>2, <1>3 DEF Printed

\* An index is the print of some sorting of what was found.
IndexInv ==
    /\ found \in [Analyses -> Lists]
    /\ DOMAIN indexes = Analyses /\ DOMAIN indexPc = Analyses
    /\ \A a \in Analyses :
          indexPc[a] = "done" =>
            \E list \in Shuffles(found[a]) :
                Ordered(list) /\ indexes[a] = Printed(list)

\* In every state of it.
LEMMA IndexInvariance == IndexSpec => []IndexInv
<1>1. IndexInit => IndexInv
  BY DEF IndexInit, IndexInv
<1>2. IndexInv /\ [IndexNext]_indexVars => IndexInv'
  <2> SUFFICES ASSUME IndexInv, [IndexNext]_indexVars PROVE IndexInv'
    OBVIOUS
  <2>1. ASSUME NEW a \in Analyses, WriteIndex(a) PROVE IndexInv'
    <3>1. PICK list \in Shuffles(found[a]) :
             /\ Ordered(list)
             /\ indexes' = [indexes EXCEPT ![a] = Printed(list)]
      BY <2>1 DEF WriteIndex
    <3>2. indexPc' = [indexPc EXCEPT ![a] = "done"] /\ found' = found
      BY <2>1 DEF WriteIndex
    <3>3. ASSUME NEW b \in Analyses, indexPc'[b] = "done"
          PROVE  \E sorted \in Shuffles(found[b]) :
                    Ordered(sorted) /\ indexes'[b] = Printed(sorted)
      BY <3>1, <3>2, <3>3 DEF IndexInv
    <3> QED
      BY <3>1, <3>2, <3>3 DEF IndexInv
  <2>2. CASE UNCHANGED indexVars
    BY <2>2 DEF IndexInv, indexVars
  <2> QED
    BY <2>1, <2>2 DEF IndexNext, IndexTerminating
<1> QED
  BY <1>1, <1>2, PTL DEF IndexSpec

\* finding_pointer_compare and qsort: for any number of analyses and findings,
\* two indexes are the same exactly when the findings are.
THEOREM IndexIsOfTheFindingsHolds == IndexSpec => []IndexIsOfTheFindings
<1>1. IndexInv => IndexIsOfTheFindings
  <2> SUFFICES ASSUME IndexInv, NEW a \in Analyses, NEW b \in Analyses,
                      indexPc[a] = "done", indexPc[b] = "done"
               PROVE  indexes[a] = indexes[b] <=> SameFindings(a, b)
    BY DEF IndexIsOfTheFindings
  <2>1. PICK left \in Shuffles(found[a]) :
           Ordered(left) /\ indexes[a] = Printed(left)
    BY DEF IndexInv
  <2>2. PICK right \in Shuffles(found[b]) :
           Ordered(right) /\ indexes[b] = Printed(right)
    BY DEF IndexInv
  <2>3. PICK m \in Nat : found[a] \in [1 .. m -> Findings]
    BY MaxFindingsAssumption DEF IndexInv, Lists
  <2>4. PICK n \in Nat : found[b] \in [1 .. n -> Findings]
    BY MaxFindingsAssumption DEF IndexInv, Lists
  <2>5. left \in [1 .. m -> Findings] /\ right \in [1 .. n -> Findings]
    BY <2>3, <2>4, ShuffleKeeps
  <2>6. \A key : Occurrences(left, key) = Occurrences(found[a], key)
                 /\ Occurrences(right, key) = Occurrences(found[b], key)
    BY <2>3, <2>4, ShuffleKeeps
  <2>7. ASSUME SameFindings(a, b) PROVE Printed(left) = Printed(right)
    <3>1. \A key \in {f.key : f \in Findings} :
             Occurrences(left, key) = Occurrences(right, key)
      BY <2>6, <2>7 DEF SameFindings
    <3>2. m <= n \/ n <= m
      OBVIOUS
    <3> QED
      BY <2>1, <2>2, <2>5, <3>1, <3>2, SortedAlike
  <2>8. ASSUME Printed(left) = Printed(right) PROVE SameFindings(a, b)
    <3>1. \A i \in 1 .. m : Printed(left)[i] = left[i].key
      BY <2>5 DEF Printed
    <3>2. \A i \in 1 .. n : Printed(right)[i] = right[i].key
      BY <2>5 DEF Printed
    <3>3. DOMAIN left = DOMAIN right /\ DOMAIN left = 1 .. m /\ DOMAIN right = 1 .. n
      <4>1. DOMAIN Printed(left) = DOMAIN left
            /\ DOMAIN Printed(right) = DOMAIN right
        BY DEF Printed
      <4> QED
        BY <2>5, <2>8, <4>1
    <3>4. \A i \in DOMAIN left : left[i].key = right[i].key
      BY <2>8, <3>1, <3>2, <3>3
    <3>5. \A key : {i \in DOMAIN left : left[i].key = key}
                   = {i \in DOMAIN right : right[i].key = key}
      BY <3>3, <3>4
    <3>6. \A key : Occurrences(left, key) = Occurrences(right, key)
      BY <3>5 DEF Occurrences
    <3> QED
      BY <2>6, <3>6 DEF SameFindings
  <2> QED
    BY <2>1, <2>2, <2>7, <2>8
<1> QED
  BY <1>1, IndexInvariance, PTL

-----------------------------------------------------------------------------
(* View.                                                                   *)

\* Files under the operations of the copy.
LEMMA FileOf ==
    ASSUME NEW S, NEW blocks \in Seq(S)
    PROVE  IsFile(blocks)
<1>1. DOMAIN blocks = 1 .. Len(blocks) /\ Len(blocks) \in Nat
      /\ blocks = [i \in 1 .. Len(blocks) |-> blocks[i]]
  BY LenProperties
<1>2. blocks \in [1 .. Len(blocks) -> {blocks[i] : i \in DOMAIN blocks}]
  BY <1>1
<1> QED
  BY <1>1, <1>2, SeqDef DEF IsFile

LEMMA FileEmpty == IsFile(<<>>) /\ Len(<<>>) = 0
<1>1. <<>> \in Seq({})
  BY EmptySeq
<1> QED
  BY <1>1, FileOf, EmptySeq

LEMMA FileLength ==
    ASSUME NEW blocks, IsFile(blocks)
    PROVE  /\ Len(blocks) \in Nat /\ DOMAIN blocks = 1 .. Len(blocks)
           /\ SubSeq(blocks, 1, 0) = <<>>
           /\ SubSeq(blocks, 1, Len(blocks)) = blocks
<1>1. blocks \in Seq({blocks[i] : i \in DOMAIN blocks})
  BY DEF IsFile
<1> QED
  BY <1>1, LenProperties, SubSeqEmpty, SubSeqFull

LEMMA FileAppend ==
    ASSUME NEW blocks, IsFile(blocks), NEW block
    PROVE  IsFile(Append(blocks, block))
<1> DEFINE S == {blocks[i] : i \in DOMAIN blocks} \cup {block}
<1>1. blocks \in Seq(S)
  <2>1. blocks \in Seq({blocks[i] : i \in DOMAIN blocks})
    BY DEF IsFile
  <2> QED
    BY <2>1
<1>2. Append(blocks, block) \in Seq(S)
  BY <1>1, AppendProperties
<1> QED
  BY <1>2, FileOf

LEMMA FilePart ==
    ASSUME NEW blocks, IsFile(blocks), NEW n \in 0 .. Len(blocks)
    PROVE  IsFile(SubSeq(blocks, 1, n))
<1> DEFINE S == {blocks[i] : i \in DOMAIN blocks}
<1>1. blocks \in Seq(S) /\ Len(blocks) \in Nat
  BY LenProperties DEF IsFile
<1>2. SubSeq(blocks, 1, n) \in Seq(S)
  BY <1>1, SubSeqProperties
<1> QED
  BY <1>2, FileOf

\* One block more of the source behind the part there is.
LEMMA PartGrows ==
    ASSUME NEW blocks, IsFile(blocks), NEW n \in Nat, n < Len(blocks)
    PROVE  Append(SubSeq(blocks, 1, n), blocks[n + 1]) = SubSeq(blocks, 1, n + 1)
<1> DEFINE S == {blocks[i] : i \in DOMAIN blocks}
           short == SubSeq(blocks, 1, n)
           long == SubSeq(blocks, 1, n + 1)
<1>1. blocks \in Seq(S) /\ Len(blocks) \in Nat /\ DOMAIN blocks = 1 .. Len(blocks)
  BY LenProperties DEF IsFile
<1>2. /\ short \in Seq(S) /\ Len(short) = n
      /\ \A i \in 1 .. n : short[i] = blocks[i]
  BY <1>1, SubSeqProperties
<1>3. /\ long \in Seq(S) /\ Len(long) = n + 1
      /\ \A i \in 1 .. n + 1 : long[i] = blocks[i]
  BY <1>1, SubSeqProperties
<1>4. blocks[n + 1] \in S
  BY <1>1
<1>5. /\ Append(short, blocks[n + 1]) \in Seq(S)
      /\ Len(Append(short, blocks[n + 1])) = n + 1
      /\ \A i \in 1 .. n : Append(short, blocks[n + 1])[i] = short[i]
      /\ Append(short, blocks[n + 1])[n + 1] = blocks[n + 1]
  <2> HIDE DEF S, short
  <2> QED
    BY <1>2, <1>4, AppendProperties
<1>6. \A i \in 1 .. n + 1 : Append(short, blocks[n + 1])[i] = long[i]
  <2> HIDE DEF short, long
  <2> TAKE i \in 1 .. n + 1
  <2>1. CASE i \in 1 .. n
    BY <1>2, <1>3, <1>5, <2>1
  <2>2. CASE i = n + 1
    BY <1>3, <1>5, <2>2
  <2>3. i \in 1 .. n \/ i = n + 1
    OBVIOUS
  <2> QED
    BY <2>1, <2>2, <2>3
<1> QED
  <2> HIDE DEF short, long
  <2>1. \A i \in 1 .. Len(long) : Append(short, blocks[n + 1])[i] = long[i]
    BY <1>3, <1>6
  <2> QED
    BY <1>3, <1>5, <2>1, SeqEqual

\* What -d asks for.
LEMMA OutputsAre ==
    ASSUME NEW word \in DOMAIN OutputOptions
    PROVE  OutputOptions[word] \in {{"human"}, {"json"}, {"human", "json"}}
BY DEF OutputOptions

\* The artifact of a combination of arguments that selects one.
Selected == IF "human" \in asked.outputs THEN HumanName ELSE JsonName

\* Everything that can be selected is written by the analysis, and a human
\* artifact is not a JSON one.
LEMMA SelectedListed ==
    ASSUME Selectable
    PROVE  /\ HumanName \in Listed
           /\ "json" \in asked.outputs => JsonName \in Listed /\ JsonName # HumanName
<1>1. HumanName # Null /\ ("json" \in asked.outputs => JsonName # Null)
  BY DEF Selectable
<1>2. view \in {"resource", "sync", "trace", "report"}
  <2> SUFFICES ASSUME view \notin {"resource", "sync", "trace", "report"}
               PROVE  HumanName = Null
    BY <1>1
  <2> QED
    BY DEF HumanName
<1>3. HumanName \in Listed
  BY <1>1, <1>2 DEF HumanName, Listed
<1>4. "json" \in asked.outputs => JsonName \in Listed /\ JsonName # HumanName
  BY <1>1, <1>2 DEF HumanName, JsonName, Listed
<1> QED
  BY <1>3, <1>4

\* What the copy has come to, when it goes to a file that is not its source.
Delivered ==
    LET source == Path(directory, Selected) IN
    /\ todo \in {<<Selected>>, <<>>}
    /\ ~failed /\ asked.output_path # source =>
          /\ todo = <<>> => disk[asked.output_path] = disk[source]
          /\ rendering /\ source \in DOMAIN disk =>
                /\ copied <= Len(disk[source])
                /\ disk[asked.output_path] = SubSeq(disk[source], 1, copied)

AskedTypes ==
    /\ asked = [outputs |-> asked.outputs, mermaid |-> asked.mermaid,
                summary |-> asked.summary, output_path |-> asked.output_path,
                words |-> asked.words]
    /\ asked.outputs \in {{"human"}, {"json"}, {"human", "json"}}

\* Rendering has to do with listed artifacts, and with one if there is -o.
Renders ==
    /\ OneOutput /\ Selectable
    /\ ~rendering => copied = 0
    /\ rendering => todo # <<>> /\ Destination \in DOMAIN disk
    /\ asked.output_path # Null => Delivered

ViewInv ==
    /\ Streams \in DOMAIN disk
    /\ \A path \in DOMAIN disk : IsFile(disk[path])
    /\ AskedTypes
    /\ todo \in Seq(Listed)
    /\ copied \in Nat
    /\ rendering \in BOOLEAN /\ failed \in BOOLEAN
    /\ viewPc \in {"parse", "render", "done"}
    /\ viewPc = "parse" => todo = <<>> /\ ~rendering /\ ~failed /\ copied = 0
    /\ viewPc # "done" => viewExit = "none"
    /\ viewPc = "render" => Renders
    /\ viewExit \in {"success", "findings"} =>
          Renders /\ ~failed /\ todo = <<>>

\* Initially nothing is asked for.
LEMMA ViewInvInit == ViewInit => ViewInv
<1> SUFFICES ASSUME ViewInit PROVE ViewInv
  OBVIOUS
<1>1. Streams \in DOMAIN disk /\ \A path \in DOMAIN disk : IsFile(disk[path])
  BY ContentsAssumption DEF ViewInit
<1>2. AskedTypes
  BY DEF ViewInit, AskedTypes
<1>3. todo \in Seq(Listed)
  BY EmptySeq DEF ViewInit
<1> QED
  BY <1>1, <1>2, <1>3 DEF ViewInit, ViewInv

\* The arguments, whatever they are.
LEMMA ParseArgumentKeeps ==
    ASSUME ViewInv, ParseArgument
    PROVE  ViewInv'
<1>1. /\ UNCHANGED <<disk, argv, todo, copied, rendering, failed>>
      /\ viewPc = "parse"
      /\ \/ viewPc' = "parse" /\ viewExit' = viewExit
         \/ viewPc' = "done" /\ viewExit' = "trouble"
  BY DEF ParseArgument, Exits
<1>2. AskedTypes'
  <2>1. AskedTypes
    BY DEF ViewInv
  <2>2. \/ asked' = asked
        \/ /\ argv[index] \in DOMAIN OutputOptions
           /\ asked' = [asked EXCEPT !.outputs = OutputOptions[argv[index]]]
        \/ asked' = [asked EXCEPT !.mermaid = TRUE]
        \/ asked' = [asked EXCEPT !.summary = TRUE]
        \/ asked' = [asked EXCEPT !.output_path = argv[index + 1]]
        \/ asked' = [asked EXCEPT !.words = Append(@, argv[index])]
    BY DEF ParseArgument, Exits
  <2> QED
    BY <2>1, <2>2, OutputsAre DEF AskedTypes
<1> QED
  BY <1>1, <1>2 DEF ViewInv

\* What is selected is listed, and one artifact if there is one output.
LEMMA SelectKeeps ==
    ASSUME ViewInv, Select
    PROVE  ViewInv'
<1>1. /\ UNCHANGED <<disk, argv, index, asked, copied, rendering, failed>>
      /\ viewPc = "parse" /\ todo = <<>> /\ ~rendering /\ ~failed /\ copied = 0
      /\ viewExit = "none"
  BY DEF Select, ViewInv
<1>2. CASE viewPc' = "done" /\ viewExit' = "trouble" /\ UNCHANGED todo
  <2> QED
    BY <1>1, <1>2 DEF ViewInv, AskedTypes
<1>3. CASE /\ OneOutput /\ Selectable
           /\ todo' = (IF "human" \in asked.outputs THEN <<HumanName>> ELSE <<>>)
                      \o (IF "json" \in asked.outputs THEN <<JsonName>> ELSE <<>>)
           /\ viewPc' = "render" /\ UNCHANGED viewExit
  <2>1. /\ HumanName \in Listed
        /\ "json" \in asked.outputs => JsonName \in Listed
    BY <1>3, SelectedListed
  <2>2. asked.outputs \in {{"human"}, {"json"}, {"human", "json"}}
    BY DEF ViewInv, AskedTypes
  <2>3. \A x : <<x>> \o <<>> = <<x>> /\ <<>> \o <<x>> = <<x>>
    OBVIOUS
  <2>4. todo' \in Seq(Listed)
    <3>1. /\ (IF "human" \in asked.outputs THEN <<HumanName>> ELSE <<>>) \in Seq(Listed)
          /\ (IF "json" \in asked.outputs THEN <<JsonName>> ELSE <<>>) \in Seq(Listed)
      BY <2>1
    <3> QED
      BY <1>3, <3>1, ConcatProperties
  <2>5. asked.output_path # Null => todo' = <<Selected>>
    <3>1. asked.output_path # Null => asked.outputs \in {{"human"}, {"json"}}
      BY <1>3, <2>2 DEF OneOutput
    <3> QED
      BY <1>3, <2>3, <3>1 DEF Selected
  <2>6. asked.output_path # Null => Delivered'
    <3>1. Selected' = Selected
      BY <1>1 DEF Selected, HumanName, JsonName, view
    <3>2. asked.output_path # Null =>
             todo' = <<Selected>>' /\ todo' # <<>> /\ ~rendering'
      BY <1>1, <2>5, <3>1
    <3> QED
      BY <3>2 DEF Delivered
  <2>7. Renders'
    BY <1>1, <1>3, <2>6 DEF Renders, OneOutput, Selectable, HumanName, JsonName,
       view, Destination
  <2> QED
    BY <1>1, <1>3, <2>4, <2>7 DEF ViewInv, AskedTypes
<1> QED
  BY <1>2, <1>3 DEF Select, Exits

\* What a step of rendering leaves as it was.
LEMMA RenderFacts ==
    ASSUME ViewInv, viewPc = "render", UNCHANGED <<argv, index, asked>>
    PROVE  /\ Renders /\ viewExit = "none"
           /\ AskedTypes' /\ OneOutput' /\ Selectable'
           /\ Selected' = Selected /\ Destination' = Destination
           /\ Path(directory, Selected)' = Path(directory, Selected)
           /\ asked.output_path # Null =>
                 /\ Destination = asked.output_path
                 /\ todo # <<>> => Source = Path(directory, Selected)
           /\ asked.output_path = Null => Destination = Streams
<1>1. Renders /\ AskedTypes /\ viewExit = "none"
  BY DEF ViewInv
<1>2. AskedTypes' /\ OneOutput' /\ Selectable' /\ Selected' = Selected
      /\ Destination' = Destination /\ directory' = directory
  BY <1>1 DEF AskedTypes, Renders, OneOutput, Selectable, Selected, Destination,
     HumanName, JsonName, view, directory
<1>3. ASSUME asked.output_path # Null, todo # <<>>
      PROVE  Source = Path(directory, Selected)
  <2>1. todo = <<Selected>>
    BY <1>1, <1>3 DEF Renders, Delivered
  <2>2. Head(todo) = Selected
    BY <2>1
  <2> QED
    BY <2>2 DEF Source
<1> QED
  BY <1>1, <1>2, <1>3 DEF Destination, Path

\* The destination is there and empty.
LEMMA OpenDestinationKeeps ==
    ASSUME ViewInv, OpenDestination
    PROVE  ViewInv'
<1>1. /\ UNCHANGED <<argv, index, asked, todo, copied, viewPc, viewExit>>
      /\ viewPc = "render" /\ todo # <<>> /\ ~rendering /\ ~failed
  BY DEF OpenDestination
<1>2. /\ Renders /\ viewExit = "none" /\ copied = 0
      /\ AskedTypes' /\ OneOutput' /\ Selectable'
      /\ Selected' = Selected /\ Destination' = Destination
      /\ Path(directory, Selected)' = Path(directory, Selected)
  BY <1>1, RenderFacts DEF Renders
<1>3. CASE asked.output_path = Null /\ rendering' = TRUE /\ UNCHANGED <<disk, failed>>
  <2>1. Destination = Streams
    BY <1>3 DEF Destination
  <2>2. Renders'
    BY <1>1, <1>2, <1>3, <2>1 DEF ViewInv, Renders
  <2> QED
    BY <1>1, <1>2, <1>3, <2>2 DEF ViewInv
<1>4. CASE /\ asked.output_path # Null /\ failed' = TRUE
           /\ UNCHANGED <<disk, rendering>>
  <2>1. Delivered'
    BY <1>1, <1>2, <1>4 DEF Renders, Delivered
  <2>2. Renders'
    BY <1>1, <1>2, <1>4, <2>1 DEF Renders
  <2> QED
    BY <1>1, <1>2, <1>4, <2>2 DEF ViewInv
<1>5. CASE /\ asked.output_path # Null /\ disk' = Emptied(asked.output_path)
           /\ rendering' = TRUE /\ UNCHANGED failed
  <2> DEFINE out == asked.output_path
             source == Path(directory, Selected)
  <2>1. /\ DOMAIN disk' = DOMAIN disk \cup {out}
        /\ disk'[out] = <<>>
        /\ \A path \in DOMAIN disk \ {out} : disk'[path] = disk[path]
    BY <1>5 DEF Emptied
  <2>2. \A path \in DOMAIN disk' : IsFile(disk'[path])
    BY <2>1, FileEmpty DEF ViewInv
  <2>3. ASSUME out # source, source \in DOMAIN disk'
        PROVE  /\ copied <= Len(disk'[source])
               /\ disk'[out] = SubSeq(disk'[source], 1, copied)
    <3>1. IsFile(disk'[source])
      BY <2>2, <2>3
    <3>2. Len(disk'[source]) \in Nat /\ SubSeq(disk'[source], 1, 0) = <<>>
      BY <3>1, FileLength
    <3> QED
      BY <1>2, <2>1, <3>2
  <2>4. Delivered'
    BY <1>1, <1>2, <1>5, <2>3 DEF Renders, Delivered
  <2>5. Destination = out
    BY <1>5 DEF Destination
  <2>6. Renders'
    BY <1>1, <1>2, <1>5, <2>1, <2>4, <2>5 DEF Renders
  <2> QED
    BY <1>1, <1>2, <1>5, <2>1, <2>2, <2>6 DEF ViewInv
<1> QED
  BY <1>3, <1>4, <1>5 DEF OpenDestination

\* One block more.
LEMMA CopyBlockKeeps ==
    ASSUME ViewInv, CopyBlock
    PROVE  ViewInv'
<1>1. /\ UNCHANGED <<argv, index, asked, todo, rendering, viewPc, viewExit>>
      /\ viewPc = "render" /\ rendering /\ ~failed /\ Unread
  BY DEF CopyBlock
<1>2. /\ Renders /\ viewExit = "none" /\ todo # <<>> /\ Destination \in DOMAIN disk
      /\ AskedTypes' /\ OneOutput' /\ Selectable'
      /\ Selected' = Selected /\ Destination' = Destination
      /\ Path(directory, Selected)' = Path(directory, Selected)
      /\ asked.output_path # Null =>
            Destination = asked.output_path /\ Source = Path(directory, Selected)
  BY <1>1, RenderFacts DEF Renders
<1>3. CASE failed' = TRUE /\ UNCHANGED <<disk, copied>>
  <2>1. asked.output_path # Null => Delivered'
    BY <1>1, <1>2, <1>3 DEF Renders, Delivered
  <2>2. Renders'
    BY <1>1, <1>2, <1>3, <2>1 DEF Renders
  <2> QED
    BY <1>1, <1>2, <1>3, <2>2 DEF ViewInv
<1>4. CASE /\ disk' = [disk EXCEPT ![Destination] =
                          Append(@, disk[Source][copied + 1])]
           /\ copied' = copied + 1 /\ UNCHANGED failed
  <2> DEFINE source == Path(directory, Selected)
             block == disk[Source][copied + 1]
  <2>1. /\ DOMAIN disk' = DOMAIN disk
        /\ disk'[Destination] = Append(disk[Destination], block)
        /\ \A path \in DOMAIN disk \ {Destination} : disk'[path] = disk[path]
    BY <1>2, <1>4
  <2>2. IsFile(disk[Destination])
    BY <1>2 DEF ViewInv
  <2>3. \A path \in DOMAIN disk' : IsFile(disk'[path])
    BY <2>1, <2>2, FileAppend DEF ViewInv
  <2>4. ASSUME asked.output_path # Null, asked.output_path # source
        PROVE  /\ copied' <= Len(disk'[source])
               /\ disk'[asked.output_path] = SubSeq(disk'[source], 1, copied')
    <3>1. /\ Source = source /\ Destination = asked.output_path
          /\ source \in DOMAIN disk /\ copied < Len(disk[source])
          /\ disk'[source] = disk[source]
      BY <1>1, <1>2, <2>1, <2>4 DEF Unread
    <3>2. disk[asked.output_path] = SubSeq(disk[source], 1, copied)
      BY <1>1, <1>2, <2>4, <3>1 DEF Renders, Delivered
    <3>3. IsFile(disk[source]) /\ copied \in Nat /\ Len(disk[source]) \in Nat
      BY <3>1, FileLength DEF ViewInv
    <3>4. Append(disk[asked.output_path], block) = SubSeq(disk[source], 1, copied + 1)
      BY <3>1, <3>2, <3>3, PartGrows
    <3> QED
      BY <1>4, <2>1, <3>1, <3>3, <3>4
  <2>5. asked.output_path # Null => Delivered'
    <3> HIDE DEF source
    <3>1. asked.output_path # Null => todo' = <<Selected>>' /\ todo' # <<>>
      BY <1>1, <1>2 DEF Renders, Delivered
    <3> QED
      BY <1>1, <1>2, <2>4, <3>1 DEF Delivered, source
  <2>6. Renders'
    BY <1>1, <1>2, <2>1, <2>5 DEF Renders
  <2>7. copied' \in Nat
    BY <1>4 DEF ViewInv
  <2> QED
    BY <1>1, <1>2, <1>4, <2>1, <2>3, <2>6, <2>7 DEF ViewInv
<1> QED
  BY <1>3, <1>4 DEF CopyBlock

\* The last block may be lost, and then it is known to be.
LEMMA CloseRenderKeeps ==
    ASSUME ViewInv, CloseRender
    PROVE  ViewInv'
<1>1. /\ UNCHANGED <<argv, index, asked, viewPc, viewExit>>
      /\ viewPc = "render" /\ rendering /\ (failed \/ ~Unread)
      /\ rendering' = FALSE /\ copied' = 0 /\ todo' = Tail(todo)
  BY DEF CloseRender
<1>2. /\ Renders /\ viewExit = "none" /\ todo # <<>> /\ Destination \in DOMAIN disk
      /\ AskedTypes' /\ OneOutput' /\ Selectable'
      /\ Selected' = Selected /\ Destination' = Destination
      /\ Path(directory, Selected)' = Path(directory, Selected)
      /\ asked.output_path # Null =>
            Destination = asked.output_path /\ Source = Path(directory, Selected)
  BY <1>1, RenderFacts DEF Renders
<1>3. asked.output_path = Null => Destination = Streams
  BY DEF Destination
<1>4. todo' \in Seq(Listed)
  BY <1>1, <1>2, HeadTailProperties DEF ViewInv
<1>5. PICK lost \in {FALSE, asked.output_path # Null /\ copied > 0} :
         /\ disk' = IF lost THEN [disk EXCEPT ![Destination] =
                                    SubSeq(@, 1, Len(@) - 1)]
                    ELSE disk
         /\ IF Source \in DOMAIN disk THEN CloseNotes(lost) ELSE failed' = TRUE
  BY DEF CloseRender
<1>6. failed' \in BOOLEAN /\ (lost => failed')
      /\ (~failed' => ~failed /\ Source \in DOMAIN disk)
  BY <1>5 DEF CloseNotes, ViewInv
<1>7. /\ DOMAIN disk' = DOMAIN disk
      /\ \A path \in DOMAIN disk' : IsFile(disk'[path])
  <2>1. CASE ~lost
    BY <1>5, <2>1 DEF ViewInv
  <2>2. CASE lost
    <3>1. IsFile(disk[Destination])
      BY <1>2 DEF ViewInv
    <3>2. IsFile(SubSeq(disk[Destination], 1, Len(disk[Destination]) - 1))
      <4>1. Len(disk[Destination]) \in Nat
        BY <3>1, FileLength
      <4>2. CASE Len(disk[Destination]) = 0
        <5>1. SubSeq(disk[Destination], 1, Len(disk[Destination]) - 1) = <<>>
          <6>1. disk[Destination] \in
                   Seq({disk[Destination][i] : i \in DOMAIN disk[Destination]})
            BY <3>1 DEF IsFile
          <6> QED
            BY <4>2, <6>1, SubSeqEmpty
        <5> QED
          BY <5>1, FileEmpty
      <4>3. CASE Len(disk[Destination]) # 0
        BY <3>1, <4>1, <4>3, FilePart
      <4> QED
        BY <4>2, <4>3
    <3>3. /\ DOMAIN disk' = DOMAIN disk
          /\ disk'[Destination] =
                SubSeq(disk[Destination], 1, Len(disk[Destination]) - 1)
          /\ \A path \in DOMAIN disk \ {Destination} : disk'[path] = disk[path]
      BY <1>2, <1>5, <2>2
    <3> QED
      BY <3>2, <3>3 DEF ViewInv
  <2> QED
    BY <2>1, <2>2
<1>8. asked.output_path # Null => Delivered'
  <2> SUFFICES ASSUME asked.output_path # Null PROVE Delivered'
    OBVIOUS
  <2> DEFINE source == Path(directory, Selected)
  <2>1. todo = <<Selected>>
    BY <1>2 DEF Renders, Delivered
  <2>2. todo' = <<>>
    BY <1>1, <2>1
  <2>3. ASSUME ~failed', asked.output_path # source
        PROVE  disk'[asked.output_path] = disk'[source]
    <3>1. /\ disk' = disk /\ ~failed /\ Source = source
          /\ source \in DOMAIN disk /\ ~Unread
      BY <1>1, <1>2, <1>5, <1>6, <2>3
    <3>2. /\ copied <= Len(disk[source])
          /\ disk[asked.output_path] = SubSeq(disk[source], 1, copied)
      BY <1>1, <1>2, <2>3, <3>1 DEF Renders, Delivered
    <3>3. /\ Len(disk[source]) \in Nat /\ copied \in Nat
          /\ SubSeq(disk[source], 1, Len(disk[source])) = disk[source]
      BY <3>1, FileLength DEF ViewInv
    <3>4. copied = Len(disk[source])
      BY <3>1, <3>2, <3>3 DEF Unread
    <3> QED
      BY <3>1, <3>2, <3>3, <3>4
  <2> QED
    BY <1>1, <1>2, <2>2, <2>3 DEF Delivered
<1>9. Renders'
  BY <1>1, <1>2, <1>8 DEF Renders
<1> QED
  BY <1>1, <1>2, <1>4, <1>6, <1>7, <1>9 DEF ViewInv

\* The status is a report only if nothing failed and nothing is left to do.
LEMMA LoadAndExitKeeps ==
    ASSUME ViewInv, LoadAndExit
    PROVE  ViewInv'
<1>1. /\ UNCHANGED <<disk, argv, index, asked, todo, copied, rendering, failed>>
      /\ viewPc = "render" /\ viewPc' = "done"
      /\ \/ viewExit' = "trouble"
         \/ ~failed /\ todo = <<>> /\ viewExit' \in {"success", "findings"}
  BY DEF LoadAndExit, Exits
<1>2. /\ Renders /\ AskedTypes' /\ OneOutput' /\ Selectable'
      /\ Selected' = Selected /\ Destination' = Destination
      /\ Path(directory, Selected)' = Path(directory, Selected)
  BY <1>1, RenderFacts
<1>3. Renders'
  <2>1. asked.output_path # Null => Delivered'
    BY <1>1, <1>2 DEF Renders, Delivered
  <2> QED
    BY <1>1, <1>2, <2>1 DEF Renders
<1> QED
  BY <1>1, <1>2, <1>3 DEF ViewInv

\* Steps of somebody else, who leaves the disk alone.
LEMMA ViewStays ==
    ASSUME ViewInv, UNCHANGED <<disk, viewVars>>
    PROVE  ViewInv'
<1>1. UNCHANGED <<disk, argv, index, asked, todo, copied, rendering, failed,
                  viewPc, viewExit>>
  BY DEF viewVars
<1>2. Renders => Renders'
  BY <1>1 DEF Renders, Delivered, OneOutput, Selectable, Selected, Destination,
     HumanName, JsonName, view, directory, Path
<1> QED
  BY <1>1, <1>2 DEF ViewInv, AskedTypes

LEMMA ViewStepKeeps ==
    ASSUME ViewInv, ViewStep
    PROVE  ViewInv'
BY ParseArgumentKeeps, SelectKeeps, OpenDestinationKeeps, CopyBlockKeeps,
   CloseRenderKeeps, LoadAndExitKeeps DEF ViewStep

\* In every state of a view.
LEMMA ViewInvariance == ViewSpec => []ViewInv
<1>1. ViewInv /\ [ViewNext]_<<disk, viewVars>> => ViewInv'
  BY ViewStepKeeps, ViewStays DEF ViewNext, ViewTerminating
<1> QED
  BY <1>1, ViewInvInit, PTL DEF ViewSpec

\* What is known of the copy is what was promised.
LEMMA InvDelivers == ViewInv => ViewDelivers
<1> SUFFICES ASSUME ViewInv PROVE ViewDelivers
  OBVIOUS
<1>1. \A i \in DOMAIN todo : todo[i] \in Listed
  BY ElementOfSeq, LenProperties DEF ViewInv
<1>2. ASSUME viewExit \in {"success", "findings"}, asked.output_path # Null
      PROVE  \E name \in Listed :
                LET source == Path(directory, name) IN
                /\ name \in {HumanName, JsonName}
                /\ asked.outputs = {IF name = HumanName THEN "human" ELSE "json"}
                /\ asked.output_path # source =>
                      disk[asked.output_path] = disk[source]
  <2>1. Renders /\ ~failed /\ todo = <<>> /\ Delivered
    BY <1>2 DEF ViewInv, Renders
  <2>2. asked.outputs \in {{"human"}, {"json"}}
    BY <1>2, <2>1 DEF ViewInv, AskedTypes, Renders, OneOutput
  <2>3. /\ Selected \in Listed /\ Selected \in {HumanName, JsonName}
        /\ asked.outputs = {IF Selected = HumanName THEN "human" ELSE "json"}
    BY <2>1, <2>2, SelectedListed DEF Renders, Selected
  <2>4. asked.output_path # Path(directory, Selected) =>
           disk[asked.output_path] = disk[Path(directory, Selected)]
    BY <2>1 DEF Delivered
  <2> QED
    BY <2>3, <2>4
<1> QED
  BY <1>1, <1>2 DEF ViewDelivers

\* view_command and copy_file_to_stream: for any arguments, any files of any
\* length and whatever fails, only artifacts of the manifest are selected, and
\* what -o names has the whole artifact when the status is not trouble.
THEOREM ViewDeliversHolds == ViewSpec => []ViewDelivers
BY ViewInvariance, InvDelivers, PTL

-----------------------------------------------------------------------------
(* Readers.                                                                *)

\* The directories a command reads.
Reading == {ReadBy[reader][i] : i \in DOMAIN ReadBy[reader]}

\* A view may have written to it.
Written(path) == viewPc # "parse" /\ path = Destination

\* The line of the manifest was found to match.
Passed(dir, name) ==
    \/ dir \notin {unverified[i] : i \in DOMAIN unverified}
    \/ dir = Head(unverified) /\ \E i \in 1 .. listed : Order[i] = name

Verdict == readerExit \in {"success", "findings"}

\* How far the verification has come.
Verification ==
    /\ reader \in {"verify", "compare"}
    /\ \/ reader = "verify" /\ unverified \in {<<Before>>, <<>>}
       \/ reader = "compare" /\ unverified \in {<<Before, After>>, <<After>>, <<>>}
    /\ listed \in 0 .. Len(Order)
    /\ readerPc = "begin" => unverified = ReadBy[reader] /\ listed = 0
    /\ readerPc = "verify_artifact" => unverified # <<>>
    /\ readerPc \in {"verify", "compare"} => readerPc = reader
    /\ readerPc \in {"verify", "compare"} \/ Verdict => unverified = <<>>
    /\ readerPc # "done" => readerExit = "none"

\* What nobody writes to stays as it was: damaged, or as it was verified.
Undisturbed ==
    /\ \A path \in damage :
          /\ \E dir \in Reading, name \in Listed : path = Path(dir, name)
          /\ ~Written(path) => ~AsSealed(path)
    /\ \A dir \in Reading, name \in Listed :
          Passed(dir, name) /\ ~Written(Path(dir, name)) => Matches(dir, name)

\* The files of a pair, sealed alike, or alike up to a position.
Alike(i) == sealed[Path(Before, Pair[i])] = sealed[Path(After, Pair[i])]

AlikeTo(i, n) ==
    LET left == sealed[Path(Before, Pair[i])]
        right == sealed[Path(After, Pair[i])]
    IN  \A j \in 1 .. n : j <= Len(left) /\ j <= Len(right) /\ left[j] = right[j]

Quiet ==
    \A dir \in {Before, After}, i \in DOMAIN Pair : ~Written(Path(dir, Pair[i]))

\* What the comparison has found out.
Comparison ==
    /\ compared \in 0 .. Len(Pair) /\ position \in Nat
    /\ different \in BOOLEAN /\ broken \in BOOLEAN
    /\ readerPc \in {"begin", "verify_artifact"} =>
          compared = 0 /\ position = 0 /\ ~different
    /\ reader = "compare" /\ readerPc = "compare" /\ Quiet /\ ~broken
       /\ ~different /\ compared < Len(Pair) => AlikeTo(compared + 1, position)
    /\ reader = "compare" /\ Quiet /\ ~broken =>
          /\ \A i \in 1 .. compared : Alike(i)
          /\ different => \E i \in DOMAIN Pair : ~Alike(i)
    /\ reader = "compare" /\ Verdict =>
          readerExit = (IF different THEN "findings" ELSE "success")
          /\ (different \/ compared = Len(Pair))

ReadersInv == ViewInv /\ Verification /\ Undisturbed /\ Comparison

LEMMA PairIs ==
    /\ Len(Pair) = 2 /\ DOMAIN Pair = 1 .. 2
    /\ \A i \in DOMAIN Pair : Pair[i] \in Listed
BY DEF Pair, Listed

\* Initially nothing is verified.
LEMMA ReadersInvInit == ReadersInit => ReadersInv
<1> SUFFICES ASSUME ReadersInit PROVE ReadersInv
  OBVIOUS
<1>1. ViewInv
  BY ViewInvInit DEF ReadersInit
<1>2. reader \in {"verify", "compare"} /\ unverified = ReadBy[reader]
  BY DEF ReadersInit, ReadBy
<1>3. Verification
  <2>1. Len(Order) \in Nat
    BY OrderAssumption, LenProperties
  <2> QED
    BY <1>2, <2>1 DEF ReadersInit, Verification, ReadBy, Verdict
<1>4. Undisturbed
  <2>1. \A dir \in Reading, name \in Listed : ~Passed(dir, name)
    <3> SUFFICES ASSUME NEW dir \in Reading, NEW name \in Listed
                 PROVE  ~Passed(dir, name)
      OBVIOUS
    <3>1. dir \in {unverified[i] : i \in DOMAIN unverified}
      BY <1>2 DEF Reading
    <3>2. listed = 0
      BY DEF ReadersInit
    <3> QED
      BY <3>1, <3>2 DEF Passed
  <2> QED
    BY <2>1 DEF Undisturbed, ReadersInit
<1>5. Comparison
  <2>1. \A i \in 1 .. 0 : Alike(i)
    OBVIOUS
  <2>2. /\ compared = 0 /\ position = 0 /\ different = FALSE /\ broken = FALSE
        /\ readerPc = "begin" /\ readerExit = "none"
    BY DEF ReadersInit
  <2>3. ~Verdict /\ compared \in 0 .. Len(Pair)
    BY <2>2, PairIs DEF Verdict
  <2> QED
    BY <2>1, <2>2, <2>3 DEF Comparison
<1> QED
  BY <1>1, <1>3, <1>4, <1>5 DEF ReadersInv

\* A view only writes to its destination, and only when it has read all its
\* arguments.
LEMMA ViewWrites ==
    ASSUME ViewInv, ViewStep, NEW path, ~Written(path)'
    PROVE  /\ ~Written(path)
           /\ AsSealed(path) <=> path \in DOMAIN disk' /\ disk'[path] = sealed[path]
<1>1. CASE viewPc = "parse"
  <2>1. disk' = disk
    BY <1>1 DEF ViewStep, ParseArgument, Select, OpenDestination, CopyBlock,
       CloseRender, LoadAndExit
  <2> QED
    BY <1>1, <2>1 DEF Written, AsSealed
<1>2. CASE viewPc # "parse"
  <2>1. viewPc = "render" /\ viewPc' \in {"render", "done"} /\ asked' = asked
    BY <1>2 DEF ViewStep, ParseArgument, Select, OpenDestination, CopyBlock,
       CloseRender, LoadAndExit, Exits
  <2>2. path # Destination
    BY <2>1 DEF Written, Destination
  <2>3. \/ disk' = disk
        \/ asked.output_path # Null /\ disk' = Emptied(asked.output_path)
        \/ \E blocks : disk' = [disk EXCEPT ![Destination] = blocks]
    BY <1>2 DEF ViewStep, ParseArgument, Select, OpenDestination, CopyBlock,
       CloseRender, LoadAndExit
  <2>4. (path \in DOMAIN disk' <=> path \in DOMAIN disk)
        /\ (path \in DOMAIN disk => disk'[path] = disk[path])
    BY <2>2, <2>3 DEF Emptied, Destination
  <2> QED
    BY <2>2, <2>4 DEF Written, AsSealed
<1> QED
  BY <1>1, <1>2

\* A step of the view beside.
LEMMA ViewBesideKeeps ==
    ASSUME ReadersInv, ViewBeside
    PROVE  ReadersInv'
<1>1. ViewStep /\ UNCHANGED readerVars
  BY DEF ViewBeside
<1>2. UNCHANGED <<sealed, reader, unverified, listed, compared, position,
                  different, readerPc, readerExit, damage, broken>>
  BY <1>1 DEF readerVars
<1>3. ViewInv'
  BY <1>1, ViewStepKeeps DEF ReadersInv
<1>4. \A path : ~Written(path)' =>
         ~Written(path) /\ (AsSealed(path)' <=> AsSealed(path))
  <2> TAKE path
  <2>1. ~Written(path)' =>
          ~Written(path)
          /\ (AsSealed(path) <=> path \in DOMAIN disk' /\ disk'[path] = sealed[path])
    BY <1>1, ViewWrites DEF ReadersInv
  <2> QED
    BY <1>2, <2>1 DEF AsSealed
<1>5. Verification'
  BY <1>2 DEF ReadersInv, Verification, Verdict
<1>6. Undisturbed'
  <2>1. Reading' = Reading
    BY <1>2 DEF Reading
  <2>2. \A dir, name : Passed(dir, name)' <=> Passed(dir, name)
    BY <1>2 DEF Passed
  <2>3. \A path \in damage' : path \in damage
    BY <1>2
  <2> QED
    BY <1>4, <2>1, <2>2, <2>3 DEF ReadersInv, Undisturbed, Matches, Path
<1>7. Comparison'
  <2>1. Quiet' => Quiet
    BY <1>4 DEF Quiet, Path
  <2>2. \A i : Alike(i)' <=> Alike(i)
    BY <1>2 DEF Alike, Path
  <2>3. \A i, n : AlikeTo(i, n)' <=> AlikeTo(i, n)
    BY <1>2 DEF AlikeTo, Path
  <2> QED
    BY <1>2, <2>1, <2>2, <2>3 DEF ReadersInv, Comparison, Verdict
<1> QED
  BY <1>3, <1>5, <1>6, <1>7 DEF ReadersInv

\* A step of the command reads, and changes nothing of what it reads.
LEMMA OnlyReads ==
    ASSUME ReadersInv, UNCHANGED <<disk, viewVars, sealed, reader>>
    PROVE  /\ ViewInv'
           /\ Reading' = Reading
           /\ \A path : /\ Written(path)' <=> Written(path)
                        /\ AsSealed(path)' <=> AsSealed(path)
           /\ \A dir, name : Matches(dir, name)' <=> Matches(dir, name)
           /\ Quiet' <=> Quiet
           /\ \A i : Alike(i)' <=> Alike(i)
           /\ \A i, n : AlikeTo(i, n)' <=> AlikeTo(i, n)
<1>1. UNCHANGED <<asked, viewPc>>
  BY DEF viewVars
<1>2. \A path : Written(path)' <=> Written(path)
  BY <1>1 DEF Written, Destination
<1> QED
  BY <1>2, ViewStays DEF ReadersInv, Reading, AsSealed, Matches, Path, Quiet,
     Alike, AlikeTo

\* A step that only moves on or exits keeps what was found out.
LEMMA FindingsStay ==
    ASSUME ReadersInv, UNCHANGED <<disk, viewVars, sealed, reader, unverified,
                                   listed, damage>>
    PROVE  Undisturbed'
<1>1. \A dir, name : Passed(dir, name)' <=> Passed(dir, name)
  BY DEF Passed
<1> QED
  BY <1>1, OnlyReads DEF ReadersInv, Undisturbed, Path

\* What was whole at the start, and what was not.
LEMMA BeginKeeps ==
    ASSUME ReadersInv, Begin
    PROVE  ReadersInv'
<1>1. /\ UNCHANGED <<disk, viewVars, sealed, reader, unverified, listed,
                     compared, position, different, readerExit, broken>>
      /\ readerPc = "begin" /\ readerPc' = "verify_artifact"
      /\ damage' = {path \in {Path(ReadBy[reader][i], name) :
                                 i \in DOMAIN ReadBy[reader], name \in Listed} :
                      ~AsSealed(path)}
  BY DEF Begin
<1>2. unverified = ReadBy[reader] /\ listed = 0 /\ unverified # <<>>
  BY <1>1 DEF ReadersInv, Verification, ReadBy
<1>3. Verification'
  BY <1>1, <1>2 DEF ReadersInv, Verification, Verdict
<1>4. \A dir \in Reading, name \in Listed : ~Passed(dir, name)'
  BY <1>1, <1>2 DEF Passed, Reading
<1>5. \A path \in damage' :
         /\ \E dir \in Reading, name \in Listed : path = Path(dir, name)
         /\ ~AsSealed(path)
  BY <1>1 DEF Reading
<1>6. Undisturbed'
  BY <1>1, <1>4, <1>5, OnlyReads DEF Undisturbed, Path
<1>7. Comparison'
  BY <1>1, OnlyReads DEF ReadersInv, Comparison, Verdict
<1> QED
  BY <1>1, <1>3, <1>6, <1>7, OnlyReads DEF ReadersInv

\* One line of the manifest.
LEMMA VerifyArtifactKeeps ==
    ASSUME ReadersInv, VerifyArtifact
    PROVE  ReadersInv'
<1>1. /\ UNCHANGED <<disk, viewVars, sealed, reader, unverified, compared,
                     position, different, damage, broken>>
      /\ readerPc = "verify_artifact" /\ listed < Len(Order)
  BY DEF VerifyArtifact
<1>2. CASE readerPc' = "done" /\ readerExit' = "trouble" /\ UNCHANGED listed
  <2>1. Verification'
    BY <1>1, <1>2 DEF ReadersInv, Verification, Verdict
  <2>2. Comparison'
    BY <1>1, <1>2, OnlyReads DEF ReadersInv, Comparison, Verdict
  <2> QED
    BY <1>1, <1>2, <2>1, <2>2, OnlyReads, FindingsStay DEF ReadersInv
<1>3. CASE /\ LineAccepted(Head(unverified)) /\ listed' = listed + 1
           /\ UNCHANGED <<readerPc, readerExit>>
  <2>1. listed \in Nat /\ Len(Order) \in Nat
    BY OrderAssumption, LenProperties DEF ReadersInv, Verification
  <2>2. Verification'
    BY <1>1, <1>3, <2>1 DEF ReadersInv, Verification, Verdict
  <2>3. ASSUME NEW dir, NEW name, Passed(dir, name)'
        PROVE  Passed(dir, name) \/ Matches(dir, name)
    <3>1. \A i \in 1 .. listed + 1 : i \in 1 .. listed \/ i = listed + 1
      BY <2>1
    <3> QED
      BY <1>1, <1>3, <2>3, <3>1 DEF Passed, LineAccepted
  <2>4. Undisturbed'
    BY <1>1, <2>3, OnlyReads DEF ReadersInv, Undisturbed, Path
  <2>5. Comparison'
    BY <1>1, <1>3, OnlyReads DEF ReadersInv, Comparison, Verdict
  <2> QED
    BY <1>1, <2>2, <2>4, <2>5, OnlyReads DEF ReadersInv
<1> QED
  BY <1>2, <1>3 DEF VerifyArtifact, ReaderExits

\* The end of a manifest: every name in it had its line.
LEMMA VerifyDoneKeeps ==
    ASSUME ReadersInv, VerifyDone
    PROVE  ReadersInv'
<1>1. /\ UNCHANGED <<disk, viewVars, sealed, reader, compared, position,
                     different, readerExit, damage, broken>>
      /\ readerPc = "verify_artifact" /\ listed = Len(Order)
      /\ listed' = 0 /\ unverified' = Tail(unverified)
      /\ readerPc' = IF Tail(unverified) = <<>> THEN reader ELSE readerPc
  BY DEF VerifyDone
<1>2. /\ reader \in {"verify", "compare"} /\ readerExit = "none"
      /\ \/ unverified = <<Before>> /\ unverified' = <<>>
         \/ unverified = <<After>> /\ unverified' = <<>> /\ reader = "compare"
         \/ /\ unverified = <<Before, After>> /\ unverified' = <<After>>
            /\ reader = "compare"
  <2>1. \A a, b : Tail(<<a>>) = <<>> /\ Tail(<<a, b>>) = <<b>>
    OBVIOUS
  <2>2. /\ reader \in {"verify", "compare"} /\ readerExit = "none"
        /\ \/ unverified = <<Before>>
           \/ unverified = <<After>> /\ reader = "compare"
           \/ unverified = <<Before, After>> /\ reader = "compare"
    BY <1>1 DEF ReadersInv, Verification
  <2> QED
    BY <1>1, <2>1, <2>2
<1>3. Len(Order) \in Nat /\ DOMAIN Order = 1 .. Len(Order)
  BY OrderAssumption, LenProperties
<1>4. Verification'
  BY <1>1, <1>2, <1>3 DEF ReadersInv, Verification, Verdict
<1>5. ASSUME NEW dir, NEW name \in Listed, Passed(dir, name)'
      PROVE  Passed(dir, name)
  <2>1. dir \notin {unverified'[i] : i \in DOMAIN unverified'}
    BY <1>1, <1>5 DEF Passed
  <2>2. dir \notin {unverified[i] : i \in DOMAIN unverified}
        \/ dir = Head(unverified)
    BY <1>2, <2>1
  <2>3. \E i \in 1 .. listed : Order[i] = name
    BY <1>1, <1>3, OrderAssumption
  <2> QED
    BY <2>2, <2>3 DEF Passed
<1>6. Undisturbed'
  BY <1>1, <1>5, OnlyReads DEF ReadersInv, Undisturbed, Path
<1>7. Comparison'
  <2>1. AlikeTo(1, 0) /\ \A i \in 1 .. 0 : Alike(i)
    BY DEF AlikeTo
  <2>2. compared = 0 /\ position = 0 /\ ~different /\ ~Verdict' /\ compared + 1 = 1
    BY <1>1, <1>2 DEF ReadersInv, Comparison, Verdict
  <2> QED
    BY <1>1, <2>1, <2>2, OnlyReads DEF ReadersInv, Comparison
<1> QED
  BY <1>1, <1>4, <1>6, <1>7, OnlyReads DEF ReadersInv

\* The exits.
LEMMA ExitsKeep ==
    ASSUME ReadersInv, LoadInputs \/ PairFails \/ CompareDone
    PROVE  ReadersInv'
<1>1. /\ UNCHANGED <<disk, viewVars, sealed, reader, unverified, listed,
                     compared, position, different, damage, broken>>
      /\ readerPc \in {"verify", "compare"} /\ readerPc' = "done"
      /\ \/ readerExit' = "trouble"
         \/ readerPc = "verify"
         \/ /\ compared = Len(Pair) \/ different
            /\ readerExit' = IF different THEN "findings" ELSE "success"
  BY DEF LoadInputs, PairFails, CompareDone, ReaderExits
<1>2. Verification'
  BY <1>1 DEF ReadersInv, Verification, Verdict
<1>3. Comparison'
  BY <1>1, OnlyReads DEF ReadersInv, Verification, Comparison, Verdict
<1> QED
  BY <1>1, <1>2, <1>3, OnlyReads, FindingsStay DEF ReadersInv

\* Once everything is verified and nobody writes to the pairs, what is read is
\* what was sealed.
LEMMA ReadsSealed ==
    ASSUME ReadersInv, reader = "compare", readerPc = "compare", Quiet,
           NEW dir \in {Before, After}, NEW i \in DOMAIN Pair
    PROVE  /\ disk[Path(dir, Pair[i])] = sealed[Path(dir, Pair[i])]
           /\ IsFile(sealed[Path(dir, Pair[i])])
<1>1. unverified = <<>>
  BY DEF ReadersInv, Verification
<1>2. dir \in Reading
  <2>1. ReadBy[reader] = <<Before, After>>
    BY DEF ReadBy
  <2> QED
    BY <2>1 DEF Reading
<1>3. Passed(dir, Pair[i])
  BY <1>1 DEF Passed
<1>4. Matches(dir, Pair[i])
  BY <1>2, <1>3, PairIs DEF ReadersInv, Undisturbed, Quiet
<1> QED
  BY <1>4 DEF Matches, AsSealed, ReadersInv, ViewInv

\* One block of a pair.
LEMMA CompareBlockKeeps ==
    ASSUME ReadersInv, CompareBlock
    PROVE  ReadersInv'
<1>1. /\ UNCHANGED <<disk, viewVars, sealed, reader, unverified, listed,
                     readerPc, readerExit, damage>>
      /\ readerPc = "compare" /\ compared < Len(Pair) /\ ~different
  BY DEF CompareBlock
<1>2. PICK left \in {At(Before), <<>>}, right \in {At(After), <<>>} :
         /\ broken' = (broken \/ left # At(Before) \/ right # At(After))
         /\ \/ /\ Differ(left, right)
               /\ different' = TRUE
               /\ UNCHANGED <<position, compared>>
            \/ /\ ~Differ(left, right)
               /\ left # <<>>
               /\ position' = position + 1
               /\ UNCHANGED <<different, compared>>
            \/ /\ ~Differ(left, right)
               /\ left = <<>>
               /\ compared' = compared + 1
               /\ position' = 0
               /\ UNCHANGED different
  BY DEF CompareBlock
<1>3. /\ reader = "compare" /\ compared \in 0 .. 1 /\ position \in Nat
      /\ readerExit = "none" /\ broken \in BOOLEAN
      /\ compared + 1 \in DOMAIN Pair
  BY <1>1, PairIs DEF ReadersInv, Verification, Comparison
<1>4. Verification'
  BY <1>1 DEF ReadersInv, Verification, Verdict
<1>5. compared' \in 0 .. Len(Pair) /\ position' \in Nat /\ different' \in BOOLEAN
      /\ broken' \in BOOLEAN /\ ~Verdict' /\ readerPc' = "compare"
  <2>1. Len(Pair) = 2
    BY PairIs
  <2>2. compared' \in {compared, compared + 1}
        /\ position' \in {position, position + 1, 0}
    BY <1>2
  <2>3. compared' \in 0 .. 2 /\ position' \in Nat
    BY <1>3, <2>2
  <2>4. different' \in BOOLEAN /\ broken' \in BOOLEAN
    BY <1>2, <1>3 DEF ReadersInv, Comparison
  <2> QED
    BY <1>1, <1>3, <2>1, <2>3, <2>4 DEF Verdict
<1> DEFINE before == sealed[Path(Before, Pair[compared + 1])]
           after == sealed[Path(After, Pair[compared + 1])]
<1>6. ASSUME Quiet, ~broken'
      PROVE  /\ ~broken /\ left = At(Before) /\ right = At(After)
             /\ IsFile(before) /\ IsFile(after)
             /\ left = IF position < Len(before) THEN <<before[position + 1]>> ELSE <<>>
             /\ right = IF position < Len(after) THEN <<after[position + 1]>> ELSE <<>>
             /\ AlikeTo(compared + 1, position)
             /\ \A i \in 1 .. compared : Alike(i)
  <2>1. ~broken /\ left = At(Before) /\ right = At(After)
    BY <1>2, <1>6
  <2>2. /\ disk[Path(Before, Pair[compared + 1])] = before /\ IsFile(before)
        /\ disk[Path(After, Pair[compared + 1])] = after /\ IsFile(after)
    BY <1>1, <1>3, <1>6, ReadsSealed
  <2>3. AlikeTo(compared + 1, position) /\ \A i \in 1 .. compared : Alike(i)
    BY <1>1, <1>3, <1>6, <2>1 DEF ReadersInv, Comparison
  <2> QED
    BY <2>1, <2>2, <2>3 DEF At
<1> HIDE DEF before, after
<1>7. CASE /\ Differ(left, right) /\ different' = TRUE
           /\ UNCHANGED <<position, compared>>
  <2>1. ASSUME Quiet, ~broken' PROVE ~Alike(compared + 1)
    BY <1>6, <1>7, <2>1 DEF Differ, Alike, before, after
  <2>2. ASSUME Quiet, ~broken'
        PROVE  /\ \A i \in 1 .. compared' : Alike(i)
               /\ \E i \in DOMAIN Pair : ~Alike(i)
    BY <1>3, <1>6, <1>7, <2>1, <2>2
  <2>3. Comparison'
    BY <1>1, <1>5, <1>7, <2>2, OnlyReads DEF Comparison
  <2> QED
    BY <1>1, <1>4, <2>3, OnlyReads, FindingsStay DEF ReadersInv
<1>8. CASE /\ ~Differ(left, right) /\ left # <<>> /\ position' = position + 1
           /\ UNCHANGED <<different, compared>>
  <2>1. ASSUME Quiet, ~broken' PROVE AlikeTo(compared + 1, position + 1)
    <3>1. /\ position < Len(before) /\ position < Len(after)
          /\ before[position + 1] = after[position + 1]
      <4>1. left = right /\ \A a, b : <<a>> = <<b>> => a = b
        BY <1>8 DEF Differ
      <4>2. position < Len(before) /\ position < Len(after)
        BY <1>6, <1>8, <2>1, <4>1
      <4> QED
        BY <1>6, <2>1, <4>1, <4>2
    <3>2. Len(before) \in Nat /\ Len(after) \in Nat
      BY <1>6, <2>1, FileLength
    <3>3. \A j \in 1 .. position + 1 : j \in 1 .. position \/ j = position + 1
      BY <1>3
    <3>4. position + 1 <= Len(before) /\ position + 1 <= Len(after)
      BY <1>3, <3>1, <3>2
    <3>5. \A j \in 1 .. position :
             j <= Len(before) /\ j <= Len(after) /\ before[j] = after[j]
      BY <1>6, <2>1 DEF AlikeTo, before, after
    <3>6. \A j \in 1 .. position + 1 :
             j <= Len(before) /\ j <= Len(after) /\ before[j] = after[j]
      BY <3>1, <3>3, <3>4, <3>5
    <3> QED
      BY <3>6 DEF AlikeTo, before, after
  <2>2. Comparison'
    BY <1>1, <1>3, <1>5, <1>6, <1>8, <2>1, OnlyReads DEF Comparison
  <2> QED
    BY <1>1, <1>4, <2>2, OnlyReads, FindingsStay DEF ReadersInv
<1>9. CASE /\ ~Differ(left, right) /\ left = <<>> /\ compared' = compared + 1
           /\ position' = 0 /\ UNCHANGED different
  <2>1. ASSUME Quiet, ~broken' PROVE Alike(compared + 1)
    <3>1. ~ (position < Len(before)) /\ ~ (position < Len(after))
      <4>1. right = <<>> /\ \A a : <<a>> # <<>>
        BY <1>9 DEF Differ
      <4> QED
        BY <1>6, <1>9, <2>1, <4>1
    <3>2. /\ Len(before) \in Nat /\ Len(after) \in Nat
          /\ IsFile(before) /\ IsFile(after)
      BY <1>6, <2>1, FileLength
    <3>3. \A j \in 1 .. position :
             j <= Len(before) /\ j <= Len(after) /\ before[j] = after[j]
      BY <1>6, <2>1 DEF AlikeTo, before, after
    <3>4. Len(before) = Len(after)
      <4>1. \A n \in Nat : n <= position => n = 0 \/ n \in 1 .. position
        BY <1>3
      <4>2. Len(before) <= position /\ Len(after) <= position
        BY <1>3, <3>1, <3>2
      <4>3. Len(before) <= Len(after)
        BY <3>2, <3>3, <4>1, <4>2
      <4>4. Len(after) <= Len(before)
        BY <3>2, <3>3, <4>1, <4>2
      <4> QED
        BY <3>2, <4>3, <4>4
    <3>5. \A j \in 1 .. Len(before) : before[j] = after[j]
      BY <1>3, <3>1, <3>2, <3>3
    <3> DEFINE S == {before[i] : i \in DOMAIN before}
                    \cup {after[i] : i \in DOMAIN after}
    <3>6. before \in Seq(S) /\ after \in Seq(S)
      <4>1. before \in Seq({before[i] : i \in DOMAIN before})
            /\ after \in Seq({after[i] : i \in DOMAIN after})
        BY <3>2 DEF IsFile
      <4> QED
        BY <4>1
    <3>7. before = after
      <4> HIDE DEF S
      <4> QED
        BY <3>4, <3>5, <3>6, SeqEqual
    <3> QED
      BY <3>7 DEF Alike, before, after
  <2>2. ASSUME Quiet, ~broken' PROVE \A i \in 1 .. compared' : Alike(i)
    <3>1. \A i \in 1 .. compared + 1 : i \in 1 .. compared \/ i = compared + 1
      BY <1>3
    <3> QED
      BY <1>6, <1>9, <2>1, <2>2, <3>1
  <2>3. AlikeTo(compared' + 1, 0)
    BY DEF AlikeTo
  <2>4. Comparison'
    BY <1>1, <1>5, <1>9, <2>2, <2>3, OnlyReads DEF Comparison
  <2> QED
    BY <1>1, <1>4, <2>4, OnlyReads, FindingsStay DEF ReadersInv
<1> QED
  BY <1>2, <1>7, <1>8, <1>9

\* In every state, whatever a view does meanwhile.
LEMMA ReadersInvariance == ReadersSpec => []ReadersInv
<1>1. ReadersInv /\ [ReadersNext]_<<disk, viewVars, readerVars>> => ReadersInv'
  <2> SUFFICES ASSUME ReadersInv, [ReadersNext]_<<disk, viewVars, readerVars>>
               PROVE  ReadersInv'
    OBVIOUS
  <2>1. CASE ReaderStep
    BY <2>1, BeginKeeps, VerifyArtifactKeeps, VerifyDoneKeeps, ExitsKeep,
       CompareBlockKeeps DEF ReaderStep
  <2>2. CASE ViewBeside
    BY <2>2, ViewBesideKeeps
  <2>3. CASE UNCHANGED <<disk, viewVars, readerVars>>
    <3>1. UNCHANGED <<disk, viewVars, sealed, reader, unverified, listed, compared,
                      position, different, readerPc, readerExit, damage, broken>>
      BY <2>3 DEF readerVars
    <3>2. Verification'
      BY <3>1 DEF ReadersInv, Verification, Verdict
    <3>3. Comparison'
      BY <3>1, OnlyReads DEF ReadersInv, Comparison, Verdict
    <3> QED
      BY <3>1, <3>2, <3>3, OnlyReads, FindingsStay DEF ReadersInv
  <2> QED
    BY <2>1, <2>2, <2>3 DEF ReadersNext, ReadersTerminating
<1> QED
  BY <1>1, ReadersInvInit, PTL DEF ReadersSpec

\* analysis_result: for manifests and files of any length, a verdict is only on
\* directories in which nothing was damaged when the command began, but for
\* the file that a view overwrites at the same time.
THEOREM DamageIsTroubleHolds == ReadersSpec => []DamageIsTrouble
<1>1. ReadersInv => DamageIsTrouble
  <2> SUFFICES ASSUME ReadersInv, Verdict, NEW path \in damage
               PROVE  path = Destination
    BY DEF DamageIsTrouble, Verdict
  <2>1. PICK dir \in Reading, name \in Listed : path = Path(dir, name)
    BY DEF ReadersInv, Undisturbed
  <2>2. Passed(dir, name)
    BY DEF ReadersInv, Verification, Passed
  <2>3. Written(path)
    BY <2>1, <2>2 DEF ReadersInv, Undisturbed, Matches
  <2> QED
    BY <2>3 DEF Written
<1> QED
  BY <1>1, ReadersInvariance, PTL

\* compare_file_pair: for files of any length, its verdict is on what the two
\* analyses sealed, if no read failed and no view writes to the pairs.
THEOREM CompareTruthfulHolds == ReadersSpec => []CompareTruthful
<1>1. ReadersInv => CompareTruthful
  <2> SUFFICES ASSUME ReadersInv, reader = "compare", Verdict, ~broken, Quiet
               PROVE  readerExit = "success" <=> \A i \in DOMAIN Pair : Alike(i)
    BY DEF CompareTruthful, Verdict, Quiet, Written, Alike
  <2>1. /\ \A i \in 1 .. compared : Alike(i)
        /\ different => \E i \in DOMAIN Pair : ~Alike(i)
        /\ readerExit = IF different THEN "findings" ELSE "success"
        /\ different \/ compared = Len(Pair)
        /\ different \in BOOLEAN
    BY DEF ReadersInv, Comparison
  <2> QED
    BY <2>1, PairIs
<1> QED
  BY <1>1, ReadersInvariance, PTL
=============================================================================
