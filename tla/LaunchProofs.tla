----------------------------- MODULE LaunchProofs -----------------------------
(***************************************************************************)
(* Theorems about what happens before a command is observed: the paths of  *)
(* a capture, for any PATH_LEN, any arguments and any number of captures   *)
(* at the same time; the environments, for captures nested to any depth;   *)
(* and, with those about command lines, the types of all three together.   *)
(***************************************************************************)
EXTENDS MCLaunch, CommandLineProofs, SequenceTheorems, FiniteSetTheorems, TLAPS

-----------------------------------------------------------------------------
(* ReportPaths.                                                            *)

Chars == {"/", "a", "b"}

\* What an argument is once it is in the buffer: it fits, and if a name still
\* fits behind it, nothing was cut off.
LEMMA CopiedFacts ==
    ASSUME NEW path \in Seq(Chars)
    PROVE  /\ Copied(path) \in Seq(Chars)
           /\ Len(Copied(path)) < PathLen
           /\ \A name \in Names : ~JoinFails(Copied(path), name) =>
                 /\ Copied(path) = path
                 /\ Len(path) + 1 + Length[name] < PathLen
<1> DEFINE n == IF Len(path) < PathLen THEN Len(path) ELSE PathLen - 1
<1>1. Len(path) \in Nat /\ PathLen \in Nat \ {0} /\ n \in 0 .. Len(path)
      /\ n < PathLen
  BY PathLenAssumption, LenProperties
<1>2. /\ SubSeq(path, 1, n) \in Seq(Chars)
      /\ Len(SubSeq(path, 1, n)) = n
  BY <1>1, SubSeqProperties
<1>3. Copied(path) = SubSeq(path, 1, n)
  BY DEF Copied
<1>4. ASSUME NEW name \in Names, ~JoinFails(Copied(path), name)
      PROVE  /\ Copied(path) = path
             /\ Len(path) + 1 + Length[name] < PathLen
  <2>1. Length[name] \in Nat \ {0}
    BY NamesAssumption
  <2>2. n + 1 + Length[name] < PathLen
    BY <1>1, <1>2, <1>3, <1>4, <2>1 DEF JoinFails
  <2>3. n = Len(path)
    BY <1>1, <2>1, <2>2
  <2> QED
    BY <1>3, <2>2, <2>3, SubSeqFull
<1> QED
  BY <1>1, <1>2, <1>3, <1>4

\* The loop over the components starts at the beginning.
PathsInv ==
    /\ PathsTypeOK
    /\ NothingCut
    /\ NoStrayDirectory
    /\ \A m \in Makers : at[m] = "paths" => reached[m] = 0

\* Initially there are no paths, and the directories that others made.
LEMMA PathsInvInit == PathsInit => PathsInv
<1> SUFFICES ASSUME PathsInit PROVE PathsInv
  OBVIOUS
<1>1. PathsTypeOK
  <2>1. <<>> \in Seq(Chars) /\ Len(<<>>) = 0
    BY EmptySeq
  <2> QED
    BY <2>1, PathLenAssumption DEF PathsInit, PathsTypeOK, Chars
<1>2. NothingCut
  BY DEF PathsInit, NothingCut
<1>3. NoStrayDirectory
  <2>1. tree \subseteq {<<>>} \cup UNION {Ancestors(p) : p \in plain}
    <3>1. tree = {<<>>} \cup UNION {Ancestors(p) \ {p} : p \in plain}
      BY DEF PathsInit
    <3>2. ASSUME NEW d \in UNION {Ancestors(p) \ {p} : p \in plain}
          PROVE  d \in UNION {Ancestors(p) : p \in plain}
      <4>1. PICK p \in plain : d \in Ancestors(p)
        BY <3>2
      <4> QED
        BY <4>1
    <3> QED
      BY <3>1, <3>2
  <2> QED
    BY <2>1 DEF NoStrayDirectory
<1>4. \A m \in Makers : reached[m] = 0
  BY DEF PathsInit
<1> QED
  BY <1>1, <1>2, <1>3, <1>4 DEF PathsInv

\* Building the paths: what goes on from here was not cut.
LEMMA MakeReportPathsKeeps ==
    ASSUME PathsInv, NEW m \in Makers, MakeReportPaths(m)
    PROVE  PathsInv'
<1>1. /\ wanted[m] \in Seq(Chars) /\ wanted \in [Makers -> Arguments]
      /\ dir \in [Makers -> Seq(Chars)]
      /\ at \in [Makers -> {"paths", "create", "done", "trouble"}]
      /\ reached \in [Makers -> Nat] /\ <<>> \in tree
      /\ \A l \in Makers : Len(dir[l]) < PathLen /\ reached[l] <= Len(dir[l])
  BY ArgumentsAssumption DEF PathsInv, PathsTypeOK, Chars
<1>2. /\ dir' = [dir EXCEPT ![m] = Copied(wanted[m])]
      /\ dir'[m] = Copied(wanted[m])
      /\ \A l \in Makers \ {m} : dir'[l] = dir[l] /\ at'[l] = at[l]
      /\ UNCHANGED <<wanted, reached, tree, plain>>
      /\ \/ at'[m] = "create" /\ \A name \in Names : ~JoinFails(dir'[m], name)
         \/ at'[m] = "trouble"
      /\ at' \in [Makers -> {"paths", "create", "done", "trouble"}]
      /\ reached[m] = 0
  BY <1>1 DEF MakeReportPaths, PathsInv
<1>3. Copied(wanted[m]) \in Seq(Chars) /\ Len(Copied(wanted[m])) < PathLen
      /\ Len(Copied(wanted[m])) \in Nat
  BY <1>1, CopiedFacts, LenProperties
<1>4. PathsTypeOK'
  <2>1. \A l \in Makers : Len(dir'[l]) < PathLen /\ reached[l] <= Len(dir'[l])
    BY <1>1, <1>2, <1>3
  <2>2. dir' \in [Makers -> Seq(Chars)]
    BY <1>1, <1>2, <1>3
  <2> QED
    BY <1>1, <1>2, <2>1, <2>2 DEF PathsTypeOK, Chars
<1>5. NothingCut'
  <2> SUFFICES ASSUME NEW l \in Makers, at'[l] \in {"create", "done"}
               PROVE  /\ dir'[l] = wanted[l]
                      /\ \A name \in Names :
                              Len(wanted[l]) + 1 + Length[name] < PathLen
    BY <1>2 DEF NothingCut
  <2>1. CASE l = m
    <3>1. \A name \in Names : ~JoinFails(Copied(wanted[m]), name)
      BY <1>2, <2>1
    <3>2. Names # {}
      BY NamesAssumption
    <3> QED
      BY <1>1, <1>2, <2>1, <3>1, <3>2, CopiedFacts
  <2>2. CASE l # m
    BY <1>2, <2>2 DEF PathsInv, NothingCut
  <2> QED
    BY <2>1, <2>2
<1>6. NoStrayDirectory'
  BY <1>2 DEF PathsInv, NoStrayDirectory
<1> QED
  BY <1>2, <1>4, <1>5, <1>6 DEF PathsInv

\* Making a directory: the end of a component of a path that was not cut.
LEMMA CreateComponentKeeps ==
    ASSUME PathsInv, NEW m \in Makers, CreateComponent(m)
    PROVE  PathsInv'
<1>1. PICK i \in Later(m) :
         \/ /\ MakesDirectory(Prefix(dir[m], i)) \/ IsThere(Prefix(dir[m], i))
            /\ reached' = [reached EXCEPT ![m] = i]
            /\ UNCHANGED at
         \/ /\ at' = [at EXCEPT ![m] = "trouble"]
            /\ UNCHANGED <<reached, tree>>
  BY DEF CreateComponent
<1>2. /\ i \in ComponentEnds(dir[m]) /\ i \in 1 .. Len(dir[m])
      /\ at[m] = "create" /\ dir[m] = wanted[m]
      /\ UNCHANGED <<wanted, dir, plain>>
  BY DEF Later, ComponentEnds, CreateComponent, PathsInv, NothingCut
<1>3. /\ <<>> \in tree'
      /\ \A d \in tree' : d \in tree \/ d \in Ancestors(wanted[m])
  BY <1>1, <1>2 DEF MakesDirectory, IsThere, Ancestors, PathsInv, PathsTypeOK
<1>4. /\ at' \in [Makers -> {"paths", "create", "done", "trouble"}]
      /\ \A l \in Makers : at'[l] = at[l] \/ at'[l] = "trouble"
      /\ reached' \in [Makers -> Nat]
      /\ \A l \in Makers : reached'[l] <= Len(dir[l])
      /\ \A l \in Makers : at'[l] = "paths" => reached'[l] = 0
  <2>1. Len(dir[m]) \in Nat
    BY LenProperties DEF PathsInv, PathsTypeOK
  <2>2. CASE reached' = [reached EXCEPT ![m] = i] /\ UNCHANGED at
    BY <1>2, <2>1, <2>2 DEF PathsInv, PathsTypeOK
  <2>3. CASE at' = [at EXCEPT ![m] = "trouble"] /\ UNCHANGED reached
    BY <1>2, <2>1, <2>3 DEF PathsInv, PathsTypeOK
  <2> QED
    BY <1>1, <2>2, <2>3
<1>5. PathsTypeOK'
  BY <1>2, <1>3, <1>4 DEF PathsInv, PathsTypeOK
<1>6. NothingCut'
  BY <1>2, <1>4 DEF PathsInv, NothingCut
<1>7. NoStrayDirectory'
  BY <1>2, <1>3 DEF PathsInv, NoStrayDirectory
<1> QED
  BY <1>4, <1>5, <1>6, <1>7 DEF PathsInv

\* Nothing else writes a path or makes a directory.
LEMMA PathsInvNext == PathsInv /\ [PathsNext]_pathsVars => PathsInv'
<1> SUFFICES ASSUME PathsInv, [PathsNext]_pathsVars PROVE PathsInv'
  OBVIOUS
<1>1. ASSUME NEW m \in Makers, Created(m) PROVE PathsInv'
  BY <1>1 DEF Created, PathsInv, PathsTypeOK, NothingCut, NoStrayDirectory
<1>2. CASE UNCHANGED pathsVars
  BY <1>2 DEF pathsVars, PathsInv, PathsTypeOK, NothingCut, NoStrayDirectory
<1> QED
  BY <1>1, <1>2, MakeReportPathsKeeps, CreateComponentKeeps
     DEF PathsNext, MakerStep, PathsTerminating

\* Every path and its terminator fit the buffer.
THEOREM TypeCorrect == PathsSpec => []PathsTypeOK
BY PathsInvInit, PathsInvNext, PTL DEF PathsSpec, PathsInv

\* A capture that goes on has the directory it was given, in full, and all
\* names in it fit: the silent cut of strncpy is always caught by the joins.
THEOREM NothingCutHolds == PathsSpec => []NothingCut
BY PathsInvInit, PathsInvNext, PTL DEF PathsSpec, PathsInv

\* Only ancestors of what was asked for are made.
THEOREM NoStrayDirectoryHolds == PathsSpec => []NoStrayDirectory
BY PathsInvInit, PathsInvNext, PTL DEF PathsSpec, PathsInv

-----------------------------------------------------------------------------
(* Paths as the file system reads them.                                    *)

\* What Canonical keeps of a path, and how many of it up to a place.
Kept(path) ==
    {i \in DOMAIN path :
        IsSlash(path, i) => i < Len(path) /\ ~IsSlash(path, i + 1)}

UpTo(path, i) == {j \in Kept(path) : j <= i}
Rank(path, i) == Cardinality(UpTo(path, i))
Total(path) == Cardinality(Kept(path))

\* The ranks number what is kept, in its order.
LEMMA RankFacts ==
    ASSUME NEW path \in Seq(Chars)
    PROVE  /\ Len(path) \in Nat /\ Kept(path) \subseteq 1 .. Len(path)
           /\ IsFiniteSet(Kept(path)) /\ Total(path) \in Nat
           /\ \A i : IsFiniteSet(UpTo(path, i)) /\ Rank(path, i) \in 0 .. Total(path)
           /\ \A i \in Kept(path) : Rank(path, i) \in 1 .. Total(path)
           /\ \A i, j \in Kept(path) : i < j => Rank(path, i) < Rank(path, j)
           /\ \A k \in 1 .. Total(path) : \E i \in Kept(path) : Rank(path, i) = k
<1>1. Len(path) \in Nat /\ Kept(path) \subseteq 1 .. Len(path)
  BY LenProperties DEF Kept
<1>2. IsFiniteSet(Kept(path)) /\ Total(path) \in Nat
  <2>1. IsFiniteSet(1 .. Len(path)) /\ Kept(path) \in SUBSET (1 .. Len(path))
    BY <1>1, FS_Interval
  <2>2. IsFiniteSet(Kept(path))
    BY <2>1, FS_Subset
  <2> QED
    BY <2>2, FS_CardinalityType DEF Total
<1>3. \A i : IsFiniteSet(UpTo(path, i)) /\ Rank(path, i) \in 0 .. Total(path)
  <2> TAKE i
  <2>1. UpTo(path, i) \in SUBSET Kept(path)
    BY DEF UpTo
  <2>2. IsFiniteSet(UpTo(path, i)) /\ Rank(path, i) <= Total(path)
        /\ Rank(path, i) \in Nat
    BY <1>2, <2>1, FS_Subset, FS_CardinalityType DEF Rank, Total
  <2> QED
    BY <1>2, <2>2
<1>4. \A i \in Kept(path) : Rank(path, i) \in 1 .. Total(path)
  <2> TAKE i \in Kept(path)
  <2>1. UpTo(path, i) # {}
    BY <1>1 DEF UpTo
  <2>2. Rank(path, i) # 0
    BY <1>3, <2>1, FS_EmptySet DEF Rank
  <2> QED
    BY <1>3, <2>2
<1>5. ASSUME NEW i \in Kept(path), NEW j \in Kept(path), i < j
      PROVE  Rank(path, i) < Rank(path, j)
  <2>1. UpTo(path, i) \in SUBSET UpTo(path, j) /\ UpTo(path, i) # UpTo(path, j)
    BY <1>1, <1>5 DEF UpTo
  <2>2. Rank(path, i) <= Rank(path, j) /\ Rank(path, i) # Rank(path, j)
    BY <1>3, <2>1, FS_Subset DEF Rank
  <2>3. Rank(path, i) \in Nat /\ Rank(path, j) \in Nat
    BY <1>2, <1>3
  <2> QED
    BY <2>2, <2>3
<1>6. \A k \in 1 .. Total(path) : \E i \in Kept(path) : Rank(path, i) = k
  <2> DEFINE f == [i \in Kept(path) |-> Rank(path, i)]
  <2>1. f \in [Kept(path) -> 1 .. Total(path)]
    BY <1>4
  <2>2. \A i, j \in Kept(path) : f[i] = f[j] => i = j
    <3> TAKE i, j \in Kept(path)
    <3>1. i \in Nat /\ j \in Nat
      BY <1>1
    <3>2. Rank(path, i) \in Nat /\ Rank(path, j) \in Nat
      BY <1>2, <1>3
    <3> QED
      BY <1>5, <3>1, <3>2
  <2>3. f \in Injection(Kept(path), 1 .. Total(path))
    BY <2>1, <2>2 DEF Injection, IsInjective
  <2>4. IsFiniteSet(1 .. Total(path)) /\ Cardinality(1 .. Total(path)) = Total(path)
    BY <1>2, FS_Interval
  <2>5. f \in Surjection(Kept(path), 1 .. Total(path))
    <3> HIDE DEF f
    <3> QED
      BY <2>3, <2>4, FS_Injection DEF Total
  <2> QED
    BY <2>5 DEF Surjection
<1> QED
  BY <1>1, <1>2, <1>3, <1>4, <1>5, <1>6

\* Two that are kept and have nothing kept between them are next to each other.
LEMMA RankNext ==
    ASSUME NEW path \in Seq(Chars), NEW i \in Kept(path), NEW j \in Kept(path),
           i < j, \A l \in Kept(path) : ~ (i < l /\ l < j)
    PROVE  Rank(path, j) = Rank(path, i) + 1
<1>1. UpTo(path, j) = UpTo(path, i) \cup {j} /\ j \notin UpTo(path, i)
  BY RankFacts DEF UpTo
<1>2. IsFiniteSet(UpTo(path, i))
  BY RankFacts
<1> QED
  BY <1>1, <1>2, FS_AddElement DEF Rank

\* The place of rank k has the character that is k-th in the canonical path.
LEMMA CanonicalAt ==
    ASSUME NEW path \in Seq(Chars)
    PROVE  /\ Canonical(path) \in Seq(Chars)
           /\ Len(Canonical(path)) = Total(path)
           /\ \A i \in Kept(path) : Canonical(path)[Rank(path, i)] = path[i]
<1> DEFINE Nth(k) == CHOOSE i \in Kept(path) :
                        Cardinality({j \in Kept(path) : j <= i}) = k
<1>1. Canonical(path) = [k \in 1 .. Total(path) |-> path[Nth(k)]]
  BY DEF Canonical, Kept, Total
<1>2. \A k \in 1 .. Total(path) : Nth(k) \in Kept(path) /\ Rank(path, Nth(k)) = k
  BY RankFacts DEF Rank, UpTo
<1>3. \A i, j \in Kept(path) : Rank(path, i) = Rank(path, j) => i = j
  <2> TAKE i, j \in Kept(path)
  <2>1. i \in Nat /\ j \in Nat /\ Rank(path, i) \in Nat /\ Rank(path, j) \in Nat
    BY RankFacts
  <2> QED
    BY <2>1, RankFacts
<1>4. \A i \in Kept(path) :
         Rank(path, i) \in 1 .. Total(path) /\ Nth(Rank(path, i)) = i
  BY <1>2, <1>3, RankFacts
<1>5. \A i \in Kept(path) : path[i] \in Chars
  BY RankFacts, ElementOfSeq
<1> HIDE DEF Nth
<1>6. Canonical(path) \in [1 .. Total(path) -> Chars] /\ Total(path) \in Nat
  BY <1>1, <1>2, <1>5, RankFacts
<1>7. Canonical(path) \in Seq(Chars)
  BY <1>6, SeqDef
<1>8. Len(Canonical(path)) = Total(path)
  BY <1>6, <1>7, LenProperties
<1> QED
  BY <1>1, <1>4, <1>7, <1>8

\* What is kept up to the end of a component is what is kept of that prefix.
LEMMA PrefixIs ==
    ASSUME NEW path \in Seq(Chars), NEW j \in ComponentEnds(path)
    PROVE  /\ j \in Kept(path) /\ j \in 1 .. Len(path) /\ Len(path) \in Nat
           /\ SubSeq(path, 1, j) \in Seq(Chars)
           /\ Len(SubSeq(path, 1, j)) = j
           /\ \A i \in 1 .. j : SubSeq(path, 1, j)[i] = path[i]
           /\ Prefix(path, j) = SubSeq(Canonical(path), 1, Rank(path, j))
           /\ Prefix(path, j) \in Seq(Chars)
           /\ Len(Prefix(path, j)) = Rank(path, j)
<1> DEFINE part == SubSeq(path, 1, j)
<1>0. j \in 1 .. Len(path) /\ Len(path) \in Nat
  BY LenProperties DEF ComponentEnds
<1>1. /\ j \in 1 .. Len(path) /\ Len(path) \in Nat /\ DOMAIN path = 1 .. Len(path)
      /\ ~IsSlash(path, j) /\ (j = Len(path) \/ IsSlash(path, j + 1))
  BY LenProperties DEF ComponentEnds
<1>2. j \in Kept(path)
  BY <1>1 DEF Kept
<1>3. /\ part \in Seq(Chars) /\ Len(part) = j /\ DOMAIN part = 1 .. j
      /\ \A i \in 1 .. j : part[i] = path[i]
  <2>1. j \in 1 .. Len(path) + 1 /\ 1 \in 1 .. Len(path) + 1 /\ j \in 0 .. Len(path)
    BY <1>0
  <2>2. /\ part \in Seq(Chars) /\ Len(part) = j
        /\ \A i \in 1 .. j : part[i] = path[i]
    <3>1. path \in Seq(Chars) /\ j \in Int /\ 1 \in Int /\ 1 <= j /\ j - 1 + 1 = j
      BY <1>0
    <3>2. \A i \in 1 .. j : path[i] \in Chars /\ 1 + i - 1 = i
      <4>1. \A i \in 1 .. j : i \in 1 .. Len(path) /\ 1 + i - 1 = i
        BY <1>0
      <4> QED
        BY <4>1, ElementOfSeq
    <3> QED
      BY <3>1, <3>2, SubSeqProperties
  <2> HIDE DEF part
  <2> QED
    BY <2>2, LenProperties
<1> HIDE DEF part
<1>4. Kept(part) = UpTo(path, j)
  <2>1. ASSUME NEW i \in 1 .. j
        PROVE  i \in Kept(part) <=> i \in Kept(path)
    <3>1. IsSlash(part, i) <=> IsSlash(path, i)
      BY <1>3 DEF IsSlash
    <3>2. CASE i = j
      BY <1>1, <1>2, <1>3, <3>1, <3>2 DEF Kept
    <3>3. CASE i # j
      <4>1. i + 1 \in 1 .. j /\ i < j /\ i < Len(path) /\ i \in 1 .. Len(path)
        <5>1. j \in Nat /\ i \in Nat /\ j <= Len(path) /\ i < j
          BY <1>0, <3>3
        <5> QED
          BY <1>0, <5>1
      <4>2. IsSlash(part, i + 1) <=> IsSlash(path, i + 1)
        BY <1>3, <4>1 DEF IsSlash
      <4> QED
        BY <1>1, <1>3, <3>1, <4>1, <4>2 DEF Kept
    <3> QED
      BY <3>2, <3>3
  <2>2. Kept(part) \subseteq 1 .. j
    BY <1>3 DEF Kept
  <2>3. \A i \in Kept(path) : i \in Nat /\ 1 <= i
    BY RankFacts
  <2>4. j \in Nat /\ \A i \in Nat : i \in 1 .. j <=> 1 <= i /\ i <= j
    BY <1>0
  <2>5. \A i : i \in UpTo(path, j) <=> i \in Kept(path) /\ i \in 1 .. j
    BY <2>3, <2>4 DEF UpTo
  <2>6. \A i : i \in Kept(part) <=> i \in UpTo(path, j)
    BY <2>1, <2>2, <2>5
  <2> QED
    BY <2>6
<1>5. \A i \in Kept(part) : UpTo(part, i) = UpTo(path, i) /\ i \in Kept(path)
                            /\ i \in 1 .. j
  <2> TAKE i \in Kept(part)
  <2>1. i \in Kept(path) /\ i <= j /\ i \in 1 .. Len(path)
    BY <1>4, RankFacts DEF UpTo
  <2>2. i \in Nat /\ 1 <= i /\ j \in Nat /\ i \in 1 .. j
    BY <1>0, <2>1
  <2>3. \A l \in Kept(path) : l \in Nat
    BY RankFacts
  <2>4. \A l \in Kept(path) : l <= i => l <= j
    BY <2>1, <2>2, <2>3
  <2>5. \A l : l \in UpTo(part, i) <=> l \in UpTo(path, i)
    BY <1>4, <2>4 DEF UpTo
  <2> QED
    BY <2>1, <2>2, <2>5
<1>6. Total(part) = Rank(path, j)
  BY <1>4 DEF Total, Rank
<1>7. Rank(path, j) \in 1 .. Total(path) /\ Total(path) \in Nat
  BY <1>2, RankFacts
<1> DEFINE left == Canonical(part)
           right == SubSeq(Canonical(path), 1, Rank(path, j))
<1>8. left \in Seq(Chars) /\ Len(left) = Rank(path, j)
  BY <1>3, <1>6, CanonicalAt
<1>9. /\ right \in Seq(Chars) /\ Len(right) = Rank(path, j)
      /\ \A k \in 1 .. Rank(path, j) : right[k] = Canonical(path)[k]
  BY <1>7, CanonicalAt, SubSeqProperties
<1>10. \A k \in 1 .. Rank(path, j) : left[k] = Canonical(path)[k]
  <2> TAKE k \in 1 .. Rank(path, j)
  <2>1. PICK i \in Kept(part) : Rank(part, i) = k
    BY <1>3, <1>6, RankFacts
  <2>2. Rank(path, i) = k
    BY <1>5, <2>1 DEF Rank
  <2>3. left[k] = part[i] /\ Canonical(path)[k] = path[i]
    BY <1>3, <1>5, <2>1, <2>2, CanonicalAt
  <2> QED
    BY <1>3, <1>5, <2>1, <2>3
<1>11. left = right
  <2> HIDE DEF left, right
  <2> QED
    BY <1>8, <1>9, <1>10, SeqEqual
<1> QED
  BY <1>1, <1>2, <1>3, <1>8, <1>11 DEF Prefix, part

\* A slash that is kept is followed by what is kept and is none.
LEMMA KeptNext ==
    ASSUME NEW path \in Seq(Chars), NEW i \in Kept(path)
    PROVE  /\ i \in Nat /\ i + 1 \in Nat
           /\ IsSlash(path, i) => i + 1 \in Kept(path) /\ ~IsSlash(path, i + 1)
           /\ i + 1 \in Kept(path) => Rank(path, i + 1) = Rank(path, i) + 1
<1>1. i \in 1 .. Len(path) /\ Len(path) \in Nat /\ DOMAIN path = 1 .. Len(path)
  BY RankFacts, LenProperties
<1>2. i \in Nat /\ i + 1 \in Nat /\ i < i + 1
      /\ (i < Len(path) => i + 1 \in DOMAIN path)
  BY <1>1
<1>3. IsSlash(path, i) => i + 1 \in Kept(path) /\ ~IsSlash(path, i + 1)
  BY <1>2 DEF Kept
<1>4. ASSUME i + 1 \in Kept(path) PROVE Rank(path, i + 1) = Rank(path, i) + 1
  <2>1. \A l \in Kept(path) : l \in Nat
    BY RankFacts
  <2>2. \A l \in Kept(path) : ~ (i < l /\ l < i + 1)
    BY <1>2, <2>1
  <2> QED
    BY <1>2, <1>4, <2>2, RankNext
<1> QED
  BY <1>2, <1>3, <1>4

\* A path of which everything is kept.
Clean(path) == Kept(path) = 1 .. Len(path)

LEMMA CanonicalClean ==
    ASSUME NEW path \in Seq(Chars)
    PROVE  Clean(Canonical(path))
<1> DEFINE q == Canonical(path)
<1>1. q \in Seq(Chars) /\ Len(q) = Total(path) /\ DOMAIN q = 1 .. Total(path)
      /\ Total(path) \in Nat
  BY CanonicalAt, RankFacts, LenProperties
<1> HIDE DEF q
<1>2. ASSUME NEW k \in 1 .. Total(path), IsSlash(q, k)
      PROVE  k < Total(path) /\ ~IsSlash(q, k + 1)
  <2>1. PICK i \in Kept(path) : Rank(path, i) = k
    BY RankFacts
  <2>2. q[k] = path[i]
    BY <2>1, CanonicalAt DEF q
  <2>3. i + 1 \in Kept(path) /\ ~IsSlash(path, i + 1) /\ Rank(path, i + 1) = k + 1
    BY <1>2, <2>1, <2>2, KeptNext DEF IsSlash
  <2>4. q[k + 1] = path[i + 1] /\ k + 1 \in 1 .. Total(path)
    BY <2>3, CanonicalAt, RankFacts DEF q
  <2>5. k < Total(path)
    BY <1>1, <2>4
  <2> QED
    BY <2>3, <2>4, <2>5 DEF IsSlash
<1> QED
  BY <1>1, <1>2 DEF Clean, Kept, q

LEMMA CleanIs ==
    ASSUME NEW path \in Seq(Chars), Clean(path)
    PROVE  /\ \A i \in 1 .. Len(path) : Rank(path, i) = i
           /\ Canonical(path) = path
<1>1. Len(path) \in Nat /\ Kept(path) = 1 .. Len(path)
  BY LenProperties DEF Clean
<1>2. ASSUME NEW i \in 1 .. Len(path) PROVE Rank(path, i) = i
  <2>1. UpTo(path, i) = 1 .. i
    BY <1>1 DEF UpTo
  <2>2. Cardinality(1 .. i) = i
    BY <1>1, FS_Interval
  <2> QED
    BY <2>1, <2>2 DEF Rank
<1>3. Total(path) = Len(path)
  BY <1>1, FS_Interval DEF Total
<1>4. /\ Canonical(path) \in Seq(Chars) /\ Len(Canonical(path)) = Len(path)
      /\ \A i \in 1 .. Len(path) : Canonical(path)[i] = path[i]
  BY <1>1, <1>2, <1>3, CanonicalAt
<1> QED
  BY <1>2, <1>4, SeqEqual

\* The components end in the canonical path where they end in the path.
LEMMA EndsOfCanonical ==
    ASSUME NEW path \in Seq(Chars)
    PROVE  /\ \A i \in ComponentEnds(path) :
                 Rank(path, i) \in ComponentEnds(Canonical(path))
           /\ \A k \in ComponentEnds(Canonical(path)) :
                 \E i \in ComponentEnds(path) : Rank(path, i) = k
<1> DEFINE q == Canonical(path)
<1>1. /\ q \in Seq(Chars) /\ Len(q) = Total(path) /\ Total(path) \in Nat
      /\ \A i \in Kept(path) : q[Rank(path, i)] = path[i]
  BY CanonicalAt, RankFacts
<1>2. Len(path) \in Nat /\ DOMAIN path = 1 .. Len(path)
  BY LenProperties
<1> HIDE DEF q
<1>3. ASSUME NEW i \in ComponentEnds(path)
      PROVE  Rank(path, i) \in ComponentEnds(q)
  <2> DEFINE k == Rank(path, i)
  <2>1. i \in Kept(path) /\ i \in 1 .. Len(path)
    BY PrefixIs
  <2>2. k \in 1 .. Total(path) /\ k \in Nat /\ i \in Nat
    BY <2>1, RankFacts
  <2>3. ~IsSlash(q, k)
    BY <1>1, <2>1 DEF ComponentEnds, IsSlash
  <2>4. ASSUME k # Total(path) PROVE IsSlash(q, k + 1)
    <3> HIDE DEF k
    <3>1. k + 1 \in 1 .. Total(path)
      BY <1>1, <2>2, <2>4
    <3>2. PICK j \in Kept(path) : Rank(path, j) = k + 1
      BY <3>1, RankFacts
    <3>3. j \in 1 .. Len(path) /\ j \in Nat /\ i < j
      <4>1. j \in 1 .. Len(path) /\ j \in Nat
        BY RankFacts
      <4>2. j # i /\ ~ (j < i)
        <5>1. j # i
          BY <2>2, <3>2 DEF k
        <5>2. j < i => Rank(path, j) < Rank(path, i)
          BY <2>1, RankFacts
        <5>3. ~ (k + 1 < k)
          BY <2>2
        <5> QED
          BY <3>2, <5>1, <5>2, <5>3 DEF k
      <4> QED
        BY <2>2, <4>1, <4>2
    <3>4. IsSlash(path, j)
      <4>1. CASE j = i + 1
        <5>0. j \in 1 .. Len(path) /\ i \in Nat /\ Len(path) \in Nat
          BY <1>2, <2>2, <3>3
        <5>1. i # Len(path)
          BY <4>1, <5>0
        <5> QED
          BY <4>1, <5>1 DEF ComponentEnds
      <4>2. CASE j # i + 1
        <5>1. j - 1 \in 1 .. Len(path) /\ i < j - 1 /\ j - 1 < j /\ j - 1 + 1 = j
              /\ j - 1 < Len(path)
          BY <1>2, <2>2, <3>3, <4>2
        <5>2. j - 1 \notin Kept(path)
          <6>1. j - 1 \in Kept(path) =>
                   k < Rank(path, j - 1) /\ Rank(path, j - 1) < k + 1
                   /\ Rank(path, j - 1) \in Nat
            BY <2>1, <3>2, <5>1, RankFacts DEF k
          <6>2. \A n \in Nat : ~ (k < n /\ n < k + 1)
            BY <2>2
          <6> QED
            BY <6>1, <6>2
        <5> QED
          BY <1>2, <5>1, <5>2 DEF Kept
      <4> QED
        BY <4>1, <4>2
    <3> QED
      BY <1>1, <3>2, <3>4 DEF IsSlash
  <2> QED
    BY <1>1, <2>2, <2>3, <2>4 DEF ComponentEnds
<1>4. ASSUME NEW k \in ComponentEnds(q)
      PROVE  \E i \in ComponentEnds(path) : Rank(path, i) = k
  <2>1. k \in 1 .. Total(path) /\ ~IsSlash(q, k)
        /\ (k = Total(path) \/ IsSlash(q, k + 1))
    BY <1>1, <1>4 DEF ComponentEnds
  <2>2. PICK i \in Kept(path) : Rank(path, i) = k
    BY <2>1, RankFacts
  <2>3. ~IsSlash(path, i) /\ i \in 1 .. Len(path)
    BY <1>1, <2>1, <2>2, RankFacts DEF IsSlash
  <2>4. ASSUME i # Len(path), ~IsSlash(path, i + 1) PROVE FALSE
    <3>0. i \in 1 .. Len(path) /\ i # Len(path) /\ Len(path) \in Nat
      BY <1>2, <2>3, <2>4
    <3>1. i + 1 \in DOMAIN path
      <4>1. i + 1 \in 1 .. Len(path)
        BY <3>0
      <4> QED
        BY <1>2, <4>1
    <3>2. i + 1 \in Kept(path)
      BY <2>4, <3>1 DEF Kept
    <3>3. Rank(path, i + 1) = k + 1 /\ k + 1 \in 1 .. Total(path)
      BY <2>2, <3>2, KeptNext, RankFacts
    <3>4. k # Total(path)
      BY <1>1, <2>1, <3>3
    <3>5. ~IsSlash(q, k + 1)
      BY <1>1, <2>4, <3>2, <3>3 DEF IsSlash
    <3> QED
      BY <2>1, <3>4, <3>5
  <2>5. i \in ComponentEnds(path)
    BY <2>3, <2>4 DEF ComponentEnds
  <2> QED
    BY <2>2, <2>5
<1> QED
  BY <1>3, <1>4 DEF q

\* So a path and its canonical form have the same ancestors.
LEMMA AncestorsOfCanonical ==
    ASSUME NEW path \in Seq(Chars)
    PROVE  Ancestors(Canonical(path)) = Ancestors(path)
<1> DEFINE q == Canonical(path)
<1>1. q \in Seq(Chars)
  BY CanonicalAt
<1>2. Canonical(q) = q /\ \A k \in 1 .. Len(q) : Rank(q, k) = k
  BY <1>1, CanonicalClean, CleanIs
<1>3. \A i \in ComponentEnds(path) : Prefix(q, Rank(path, i)) = Prefix(path, i)
  <2> TAKE i \in ComponentEnds(path)
  <2>1. Rank(path, i) \in ComponentEnds(q)
    BY EndsOfCanonical
  <2>2. Prefix(path, i) = SubSeq(q, 1, Rank(path, i))
    BY PrefixIs
  <2> HIDE DEF q
  <2>3. Rank(path, i) \in 1 .. Len(q)
        /\ Prefix(q, Rank(path, i)) = SubSeq(q, 1, Rank(path, i))
    BY <1>1, <1>2, <2>1, PrefixIs
  <2> QED
    BY <2>2, <2>3
<1>4. \A i \in ComponentEnds(path) : Rank(path, i) \in ComponentEnds(q)
  BY EndsOfCanonical
<1>5. \A k \in ComponentEnds(q) : \E i \in ComponentEnds(path) : Rank(path, i) = k
  BY EndsOfCanonical
<1> HIDE DEF q
<1>6. \A d : d \in Ancestors(q) <=> d \in Ancestors(path)
  BY <1>3, <1>4, <1>5 DEF Ancestors
<1> QED
  BY <1>6 DEF q

\* The ancestors of a prefix are those prefixes that are no longer.
LEMMA AncestorsOfPrefix ==
    ASSUME NEW path \in Seq(Chars), NEW j \in ComponentEnds(path)
    PROVE  Ancestors(Prefix(path, j)) =
              {Prefix(path, i) : i \in {l \in ComponentEnds(path) : l <= j}}
<1> DEFINE part == SubSeq(path, 1, j)
<1>0. j \in 1 .. Len(path) /\ Len(path) \in Nat
  BY PrefixIs
<1>1. /\ part \in Seq(Chars) /\ Len(part) = j
      /\ \A i \in 1 .. j : part[i] = path[i]
  BY PrefixIs
<1>2. Ancestors(Prefix(path, j)) = Ancestors(part)
  BY <1>1, AncestorsOfCanonical DEF Prefix
<1>3. \A i \in 1 .. j : SubSeq(part, 1, i) = SubSeq(path, 1, i)
  <2> TAKE i \in 1 .. j
  <2>1. /\ i \in Int /\ 1 \in Int /\ 1 <= i /\ i - 1 + 1 = i
        /\ \A l \in 1 .. i : l \in 1 .. j /\ l \in 1 .. Len(path) /\ 1 + l - 1 = l
    BY <1>0
  <2>2. \A l \in 1 .. i : path[l] \in Chars /\ part[l] \in Chars
    BY <1>1, <2>1, ElementOfSeq
  <2> HIDE DEF part
  <2>3. /\ SubSeq(part, 1, i) \in Seq(Chars) /\ Len(SubSeq(part, 1, i)) = i
        /\ \A l \in 1 .. i : SubSeq(part, 1, i)[l] = part[l]
    BY <2>1, <2>2, SubSeqProperties
  <2>4. /\ SubSeq(path, 1, i) \in Seq(Chars) /\ Len(SubSeq(path, 1, i)) = i
        /\ \A l \in 1 .. i : SubSeq(path, 1, i)[l] = path[l]
    BY <2>1, <2>2, SubSeqProperties
  <2>5. \A l \in 1 .. i : SubSeq(part, 1, i)[l] = SubSeq(path, 1, i)[l]
    BY <1>1, <2>1, <2>3, <2>4
  <2> QED
    BY <2>3, <2>4, <2>5, SeqEqual
<1> HIDE DEF part
<1>4. ASSUME NEW i \in 1 .. j
      PROVE  i \in ComponentEnds(part) <=> i \in ComponentEnds(path)
  <2>1. CASE i = j
    BY <1>1, <2>1, <1>0 DEF ComponentEnds, IsSlash
  <2>2. CASE i # j
    <3>1. i + 1 \in 1 .. j /\ i \in 1 .. Len(path) /\ i # Len(path)
      BY <1>0, <2>2
    <3> QED
      BY <1>1, <2>2, <3>1 DEF ComponentEnds, IsSlash
  <2> QED
    BY <2>1, <2>2
<1>5. /\ \A i \in ComponentEnds(part) : i \in 1 .. j
      /\ \A i \in ComponentEnds(path) : i \in 1 .. Len(path)
  BY <1>1 DEF ComponentEnds
<1>6. \A i : i \in ComponentEnds(part) <=> i \in ComponentEnds(path) /\ i <= j
  <2>1. \A i \in 1 .. Len(path) : i <= j <=> i \in 1 .. j
    BY <1>0
  <2>2. \A i \in 1 .. j : i <= j
    BY <1>0
  <2> QED
    BY <1>4, <1>5, <2>1, <2>2
<1>7. \A i \in ComponentEnds(part) : Prefix(part, i) = Prefix(path, i)
  BY <1>3, <1>5 DEF Prefix
<1>8. \A d : d \in Ancestors(part) <=>
             d \in {Prefix(path, i) : i \in {l \in ComponentEnds(path) : l <= j}}
  BY <1>6, <1>7 DEF Ancestors
<1> QED
  BY <1>2, <1>8

\* The longest of them is the path.
LEMMA LastPrefix ==
    ASSUME NEW path \in Seq(Chars)
    PROVE  \/ ComponentEnds(path) = {} /\ Canonical(path) = <<>>
           \/ \E j \in ComponentEnds(path) :
                 /\ \A i \in ComponentEnds(path) : i <= j
                 /\ Prefix(path, j) = Canonical(path)
<1>1. \A i \in ComponentEnds(path) : i \in Kept(path)
  BY PrefixIs
<1>2. /\ Canonical(path) \in Seq(Chars) /\ Len(Canonical(path)) = Total(path)
      /\ Total(path) \in Nat
  BY CanonicalAt, RankFacts
<1>3. CASE Total(path) = 0
  <2>1. Kept(path) = {}
    BY <1>3, RankFacts, FS_EmptySet DEF Total
  <2>2. Canonical(path) = <<>>
    BY <1>2, <1>3, EmptySeq
  <2> QED
    BY <1>1, <2>1, <2>2
<1>4. CASE Total(path) # 0
  <2>1. Total(path) \in 1 .. Total(path)
    BY <1>2, <1>4
  <2>2. PICK j \in Kept(path) : Rank(path, j) = Total(path)
    BY <2>1, RankFacts
  <2>3. \A i \in Kept(path) : i <= j
    <3> TAKE i \in Kept(path)
    <3>1. j < i => Total(path) < Rank(path, i)
      BY <2>2, RankFacts
    <3>2. Rank(path, i) \in 1 .. Total(path) /\ i \in Nat /\ j \in Nat
      BY RankFacts
    <3> QED
      BY <1>2, <3>1, <3>2
  <2>4. j \in 1 .. Len(path) /\ Len(path) \in Nat
    BY RankFacts
  <2>5. j + 1 \notin Kept(path)
    <3>1. ~ (j + 1 <= j)
      BY <2>4
    <3> QED
      BY <2>3, <3>1
  <2>6. ~IsSlash(path, j)
    BY <2>5, KeptNext
  <2>7. j = Len(path) \/ IsSlash(path, j + 1)
    <3>0. j # Len(path) => j + 1 \in 1 .. Len(path)
      BY <2>4
    <3>1. j # Len(path) => j + 1 \in DOMAIN path
      BY <3>0, LenProperties
    <3> QED
      BY <2>5, <3>1 DEF Kept
  <2>8. j \in ComponentEnds(path)
    BY <2>4, <2>6, <2>7 DEF ComponentEnds
  <2>9. Prefix(path, j) = SubSeq(Canonical(path), 1, Len(Canonical(path)))
    BY <1>2, <2>2, <2>8, PrefixIs
  <2>10. Prefix(path, j) = Canonical(path)
    BY <1>2, <2>9, SubSeqFull
  <2> QED
    BY <1>1, <2>3, <2>8, <2>10
<1> QED
  BY <1>3, <1>4

-----------------------------------------------------------------------------
(* The directories that were made.                                         *)

\* What there is has its ancestors, and what a maker has gone through is there.
Closed ==
    \A path \in tree \cup plain : Ancestors(path) \ {path} \subseteq tree

WayMade ==
    \A m \in Makers : at[m] \in {"create", "done"} =>
        \A i \in ComponentEnds(dir[m]) :
            /\ i <= reached[m] => Prefix(dir[m], i) \in tree \cup plain
            /\ at[m] = "done" => i <= reached[m]

MadeInv == PathsInv /\ Closed /\ WayMade

\* A prefix is the path itself only at its last component.
LEMMA WholePrefix ==
    ASSUME NEW path \in Seq(Chars), NEW i \in ComponentEnds(path),
           NEW j \in ComponentEnds(path), i <= j, Prefix(path, i) = path
    PROVE  i = j
<1>1. i \in Kept(path) /\ j \in Kept(path) /\ Len(path) = Rank(path, i)
  BY PrefixIs
<1>2. Total(path) <= Len(path) /\ Total(path) \in Nat
  <2>1. Len(path) \in Nat /\ Kept(path) \in SUBSET (1 .. Len(path))
    BY RankFacts
  <2>2. IsFiniteSet(1 .. Len(path)) /\ Cardinality(1 .. Len(path)) = Len(path)
    BY <2>1, FS_Interval
  <2> QED
    BY <2>1, <2>2, FS_Subset, RankFacts DEF Total
<1>3. /\ Rank(path, i) \in Nat /\ Rank(path, j) \in Nat
      /\ Rank(path, j) <= Total(path)
      /\ i < j => Rank(path, i) < Rank(path, j)
  BY <1>1, <1>2, RankFacts
<1>4. ~ (i < j)
  BY <1>1, <1>2, <1>3
<1>5. i \in Nat /\ j \in Nat
  BY <1>1, KeptNext
<1> QED
  BY <1>4, <1>5

\* Somebody else's files lie in directories, and these in theirs.
LEMMA MadeInvInit == PathsInit => MadeInv
<1> SUFFICES ASSUME PathsInit PROVE MadeInv
  OBVIOUS
<1>1. tree = {<<>>} \cup UNION {Ancestors(p) \ {p} : p \in plain}
      /\ plain \subseteq Seq(Chars)
  BY OccupiedAssumption DEF PathsInit, Chars
<1>2. Ancestors(<<>>) = {}
  BY EmptySeq DEF Ancestors, ComponentEnds
<1>3. ASSUME NEW p \in plain PROVE Ancestors(p) \ {p} \subseteq tree
  BY <1>1
<1>4. ASSUME NEW p \in plain, NEW d \in Ancestors(p) \ {p},
             NEW e \in Ancestors(d) \ {d}
      PROVE  e \in tree
  <2>1. p \in Seq(Chars)
    BY <1>1
  <2>2. PICK j \in ComponentEnds(p) : d = Prefix(p, j)
    BY DEF Ancestors
  <2>3. PICK i \in ComponentEnds(p) : i <= j /\ e = Prefix(p, i)
    BY <1>4, <2>1, <2>2, AncestorsOfPrefix
  <2>4. e # p
    <3>1. e = p => i = j
      BY <2>1, <2>3, WholePrefix
    <3> QED
      BY <1>4, <2>2, <2>3, <3>1
  <2> QED
    BY <1>1, <2>3, <2>4 DEF Ancestors
<1>5. Closed
  <2> SUFFICES ASSUME NEW path \in tree \cup plain, NEW e \in Ancestors(path) \ {path}
               PROVE  e \in tree
    BY DEF Closed
  <2>1. path = <<>> \/ path \in plain \/ \E p \in plain : path \in Ancestors(p) \ {p}
    BY <1>1
  <2> QED
    BY <1>2, <1>3, <1>4, <2>1
<1>6. WayMade
  BY DEF PathsInit, WayMade
<1> QED
  BY <1>5, <1>6, PathsInvInit DEF MadeInv

\* mkdir makes a directory in one that is there.
LEMMA MadeCreateComponent ==
    ASSUME MadeInv, NEW m \in Makers, CreateComponent(m)
    PROVE  Closed' /\ WayMade'
<1>1. PICK i \in Later(m) :
         /\ \A j \in Later(m) : i <= j
         /\ \/ /\ MakesDirectory(Prefix(dir[m], i)) \/ IsThere(Prefix(dir[m], i))
               /\ reached' = [reached EXCEPT ![m] = i]
               /\ UNCHANGED at
            \/ /\ at' = [at EXCEPT ![m] = "trouble"]
               /\ UNCHANGED <<reached, tree>>
  BY DEF CreateComponent
<1>2. UNCHANGED <<wanted, dir, plain>> /\ at[m] = "create"
  BY DEF CreateComponent
<1>3. /\ dir[m] \in Seq(Chars) /\ at \in [Makers -> {"paths", "create", "done", "trouble"}]
      /\ reached \in [Makers -> Nat]
  BY DEF MadeInv, PathsInv, PathsTypeOK, Chars
<1>4. CASE /\ MakesDirectory(Prefix(dir[m], i)) \/ IsThere(Prefix(dir[m], i))
           /\ reached' = [reached EXCEPT ![m] = i]
           /\ UNCHANGED at
  <2> DEFINE path == Prefix(dir[m], i)
  <2>1. \/ tree' = tree /\ path \in tree \cup plain
        \/ tree' = tree \cup {path} /\ Ancestors(path) \ {path} \subseteq tree
    BY <1>4 DEF MakesDirectory, IsThere
  <2> HIDE DEF path
  <2>2. Closed'
    BY <1>2, <2>1 DEF MadeInv, Closed
  <2>3. ASSUME NEW j \in ComponentEnds(dir[m]), j <= i
        PROVE  Prefix(dir[m], j) \in tree' \cup plain
    <3>1. CASE j <= reached[m]
      BY <1>2, <2>1, <2>3, <3>1 DEF MadeInv, WayMade
    <3>2. CASE ~ (j <= reached[m])
      <4>1. j \in 1 .. Len(dir[m]) /\ Len(dir[m]) \in Nat /\ i \in 1 .. Len(dir[m])
            /\ reached[m] \in Nat
        BY <1>1, <1>3, <2>3, PrefixIs DEF Later
      <4>2. j > reached[m]
        BY <3>2, <4>1
      <4>3. i <= j
        BY <1>1, <4>2 DEF Later
      <4>4. i = j
        BY <2>3, <4>1, <4>3
      <4> QED
        BY <2>1, <4>4 DEF path
    <3> QED
      BY <3>1, <3>2
  <2>4. WayMade'
    BY <1>2, <1>3, <1>4, <2>1, <2>3 DEF MadeInv, WayMade
  <2> QED
    BY <2>2, <2>4
<1>5. CASE at' = [at EXCEPT ![m] = "trouble"] /\ UNCHANGED <<reached, tree>>
  BY <1>2, <1>3, <1>5 DEF MadeInv, Closed, WayMade
<1> QED
  BY <1>1, <1>4, <1>5

\* No other step makes a directory, and the loop ends at the end.
LEMMA MadeInvNext == MadeInv /\ [PathsNext]_pathsVars => MadeInv'
<1> SUFFICES ASSUME MadeInv, [PathsNext]_pathsVars PROVE MadeInv'
  OBVIOUS
<1>1. PathsInv'
  BY PathsInvNext DEF MadeInv
<1>2. /\ reached \in [Makers -> Nat]
      /\ at \in [Makers -> {"paths", "create", "done", "trouble"}]
      /\ dir \in [Makers -> Seq(Chars)]
  BY DEF MadeInv, PathsInv, PathsTypeOK, Chars
<1>3. ASSUME NEW m \in Makers, MakeReportPaths(m) PROVE Closed' /\ WayMade'
  <2>1. /\ dir' = [dir EXCEPT ![m] = Copied(wanted[m])]
        /\ UNCHANGED <<reached, tree, plain>> /\ reached[m] = 0
        /\ \/ at' = [at EXCEPT ![m] = "create"]
           \/ at' = [at EXCEPT ![m] = "trouble"]
    BY <1>3 DEF MakeReportPaths, MadeInv, PathsInv
  <2>2. \A i \in ComponentEnds(dir'[m]) : ~ (i <= 0)
    <3>1. Len(dir'[m]) \in Nat
      BY <1>1, LenProperties DEF PathsInv, PathsTypeOK
    <3> QED
      BY <3>1 DEF ComponentEnds
  <2>3. Closed'
    BY <2>1 DEF MadeInv, Closed
  <2>4. WayMade'
    BY <1>2, <2>1, <2>2 DEF MadeInv, WayMade
  <2> QED
    BY <2>3, <2>4
<1>4. ASSUME NEW m \in Makers, Created(m) PROVE Closed' /\ WayMade'
  <2>1. /\ at[m] = "create" /\ Later(m) = {} /\ at' = [at EXCEPT ![m] = "done"]
        /\ UNCHANGED <<dir, reached, tree, plain>>
    BY <1>4 DEF Created
  <2>2. \A i \in ComponentEnds(dir[m]) : i <= reached[m]
    <3> TAKE i \in ComponentEnds(dir[m])
    <3>1. i \in Nat /\ reached[m] \in Nat
      BY <1>2, PrefixIs
    <3>2. ~ (i > reached[m])
      BY <2>1 DEF Later
    <3> QED
      BY <3>1, <3>2
  <2>3. Closed'
    BY <2>1 DEF MadeInv, Closed
  <2>4. WayMade'
    BY <1>2, <2>1, <2>2 DEF MadeInv, WayMade
  <2> QED
    BY <2>3, <2>4
<1>5. ASSUME UNCHANGED pathsVars PROVE Closed' /\ WayMade'
  <2>1. UNCHANGED <<dir, reached, at, tree, plain>>
    BY <1>5 DEF pathsVars
  <2> QED
    BY <2>1 DEF MadeInv, Closed, WayMade
<1>6. Closed' /\ WayMade'
  <2>1. ASSUME NEW m \in Makers, CreateComponent(m) PROVE Closed' /\ WayMade'
    BY <2>1, MadeCreateComponent
  <2>2. \/ \E m \in Makers : MakeReportPaths(m) \/ CreateComponent(m) \/ Created(m)
        \/ UNCHANGED pathsVars
    BY DEF PathsNext, MakerStep, PathsTerminating
  <2> QED
    BY <1>3, <1>4, <1>5, <2>1, <2>2
<1> QED
  BY <1>1, <1>6 DEF MadeInv

\* p101_observe_create_report_dir: for any path, any slashes in it and any
\* number of others that make directories, when it returns without an error
\* all ancestors are directories and something is at the path.
THEOREM DirectoryMadeHolds == PathsSpec => []DirectoryMade
<1>1. MadeInv => DirectoryMade
  <2> SUFFICES ASSUME MadeInv, NEW m \in Makers, at[m] = "done"
               PROVE  /\ Ancestors(wanted[m]) \ {Canonical(wanted[m])} \subseteq tree
                      /\ Canonical(wanted[m]) \in tree \cup plain
    BY DEF DirectoryMade
  <2> DEFINE path == wanted[m]
  <2>1. path \in Seq(Chars) /\ dir[m] = path /\ <<>> \in tree
    BY DEF MadeInv, PathsInv, PathsTypeOK, NothingCut, Chars
  <2>2. \A i \in ComponentEnds(path) : Prefix(path, i) \in tree \cup plain
    BY <2>1 DEF MadeInv, WayMade
  <2> HIDE DEF path
  <2>3. CASE ComponentEnds(path) = {} /\ Canonical(path) = <<>>
    BY <2>1, <2>3 DEF Ancestors, path
  <2>4. ASSUME NEW j \in ComponentEnds(path),
               \A i \in ComponentEnds(path) : i <= j,
               Prefix(path, j) = Canonical(path)
        PROVE  /\ Ancestors(path) \ {Canonical(path)} \subseteq tree
               /\ Canonical(path) \in tree \cup plain
    <3>1. Ancestors(Prefix(path, j)) = Ancestors(path)
      BY <2>1, <2>4, AncestorsOfCanonical
    <3> QED
      BY <2>2, <2>4, <3>1 DEF MadeInv, Closed
  <2> QED
    BY <2>1, <2>3, <2>4, LastPrefix DEF path
<1> QED
  BY <1>1, MadeInvInit, MadeInvNext, PTL DEF PathsSpec

-----------------------------------------------------------------------------
(* ChildEnv.                                                               *)

\* The elements of two sequences in a row, of m and of n.
LEMMA ElementsOfTwo ==
    ASSUME NEW S, NEW a \in Seq(S), NEW b \in Seq(S),
           NEW m, NEW n, Len(a) = m, Len(b) = n
    PROVE  /\ a \o b \in Seq(S)
           /\ Len(a \o b) = m + n
           /\ \A i \in 1 .. m : (a \o b)[i] = a[i]
           /\ \A i \in 1 .. n : (a \o b)[m + i] = b[i]
<1>1. m \in Nat /\ n \in Nat
  BY LenProperties
<1>2. ASSUME NEW i \in 1 .. m PROVE (a \o b)[i] = a[i]
  <2>1. i \in 1 .. m + n /\ i <= m
    BY <1>1
  <2> QED
    BY <2>1, ConcatProperties
<1>3. ASSUME NEW i \in 1 .. n PROVE (a \o b)[m + i] = b[i]
  <2>1. m + i \in 1 .. m + n /\ ~(m + i <= m) /\ m + i - m = i
    BY <1>1
  <2> QED
    BY <2>1, ConcatProperties
<1> QED
  BY <1>2, <1>3, ConcatProperties

\* The names differ: of the five that are set for each capture, and of the
\* fields, for the command and for the request.
LEMMA NamesDiffer ==
    /\ Identity \cup OptIn =
          {<<"run_id">>, <<"resource_log">>, <<"call_log">>,
           <<"call_log_args">>, <<"call_log_result">>}
    /\ \A i \in DOMAIN FaultFields :
          /\ Fault(i) \notin Identity \cup OptIn
          /\ ChildFault(i) \notin Identity \cup OptIn
          /\ \A j \in DOMAIN FaultFields :
                /\ Fault(i) # ChildFault(j)
                /\ i # j => Fault(i) # Fault(j) /\ ChildFault(i) # ChildFault(j)
BY FaultFieldsAssumption DEF Identity, OptIn, Fault, ChildFault

AnyValue == {Unset, Empty, On, Own, Asked} \cup 0 .. MaxDepth
AnyCall == UNION {[D -> AnyValue] : D \in SUBSET Variables}
Fields == Len(FaultFields)

LEMMA FieldsFacts == Fields \in Nat /\ DOMAIN FaultFields = 1 .. Fields
BY FaultFieldsAssumption, LenProperties DEF Fields

\* One call for each field is a sequence of calls.
LEMMA CallForEachField ==
    ASSUME NEW f, f \in [1 .. Fields -> AnyCall]
    PROVE  f \in Seq(AnyCall) /\ Len(f) = Fields
BY FieldsFacts, SeqDef

LEMMA AssignIsCall ==
    ASSUME NEW v \in Variables, NEW to \in AnyValue
    PROVE  Assign(v, to) \in AnyCall
<1>1. Assign(v, to) \in [{v} -> AnyValue]
  BY DEF Assign
<1> QED
  BY <1>1 DEF AnyCall

LEMMA NoCallIsCall == NoCall \in AnyCall
<1>1. NoCall \in [{} -> AnyValue]
  BY DEF NoCall
<1> QED
  BY <1>1 DEF AnyCall

\* The ten calls for the capture itself come first, then one for each field.
LEMMA ObservedCalls ==
    ASSUME NEW k \in 0 .. MaxDepth, NEW chosen, NEW e \in Environments
    PROVE  LET calls == SetupObservedChild(k, chosen, e) IN
           /\ Len(calls) = 10 + Fields
           /\ calls[1] = Assign(<<"run_id">>, Unset)
           /\ calls[2] = Assign(<<"resource_log">>, Unset)
           /\ calls[3] = Assign(<<"call_log">>, Unset)
           /\ calls[4] = Assign(<<"call_log_args">>, Unset)
           /\ calls[5] = Assign(<<"call_log_result">>, Unset)
           /\ calls[6] = Assign(<<"run_id">>, k)
           /\ calls[7] = Assign(<<"resource_log">>, k)
           /\ calls[8] = Assign(<<"call_log">>, k)
           /\ calls[9] = SetOptIn(<<"call_log_args">>, chosen)
           /\ calls[10] = SetOptIn(<<"call_log_result">>, chosen)
           /\ \A i \in 1 .. Fields : calls[10 + i] = SetenvIfPresent(i, e)
<1> DEFINE clear == ClearObserveEnvironment
           set == << Assign(<<"run_id">>, k), Assign(<<"resource_log">>, k),
                     Assign(<<"call_log">>, k),
                     SetOptIn(<<"call_log_args">>, chosen),
                     SetOptIn(<<"call_log_result">>, chosen) >>
           faults == SetFaultEnvironment(e)
           calls == SetupObservedChild(k, chosen, e)
<1>1. /\ {Unset, On, k} \subseteq AnyValue
      /\ {<<"run_id">>, <<"resource_log">>, <<"call_log">>,
          <<"call_log_args">>, <<"call_log_result">>} \subseteq Variables
  BY DEF AnyValue, Variables, Identity, OptIn
<1>2. \A v \in Variables : SetOptIn(v, chosen) \in AnyCall
  BY <1>1, AssignIsCall, NoCallIsCall DEF SetOptIn
<1>3. clear \in Seq(AnyCall) /\ Len(clear) = 5
  BY <1>1, AssignIsCall DEF ClearObserveEnvironment
<1>4. set \in Seq(AnyCall) /\ Len(set) = 5
  <2>1. /\ Assign(<<"run_id">>, k) \in AnyCall
        /\ Assign(<<"resource_log">>, k) \in AnyCall
        /\ Assign(<<"call_log">>, k) \in AnyCall
        /\ SetOptIn(<<"call_log_args">>, chosen) \in AnyCall
        /\ SetOptIn(<<"call_log_result">>, chosen) \in AnyCall
    BY <1>1, <1>2, AssignIsCall
  <2> QED
    BY <2>1
<1>5. \A i \in 1 .. Fields : SetenvIfPresent(i, e) \in AnyCall
  <2> SUFFICES ASSUME NEW i \in 1 .. Fields PROVE SetenvIfPresent(i, e) \in AnyCall
    OBVIOUS
  <2>1. Fault(i) \in Variables /\ ChildFault(i) \in Variables
    BY FieldsFacts DEF Variables, Faults, ChildFaults
  <2>2. e[ChildFault(i)] \in AnyValue
    BY <2>1 DEF Environments, AnyValue
  <2> QED
    BY <2>1, <2>2, AssignIsCall, NoCallIsCall DEF SetenvIfPresent
<1>6. /\ faults \in Seq(AnyCall) /\ Len(faults) = Fields
      /\ \A i \in 1 .. Fields : faults[i] = SetenvIfPresent(i, e)
  <2>1. faults = [i \in 1 .. Fields |-> SetenvIfPresent(i, e)]
    BY FieldsFacts DEF SetFaultEnvironment
  <2>2. faults \in [1 .. Fields -> AnyCall]
    BY <1>5, <2>1
  <2> QED
    BY <2>1, <2>2, CallForEachField
<1>7. calls = clear \o (set \o faults)
  BY DEF SetupObservedChild, SetObservedEnvironment
<1>8. /\ clear[1] = Assign(<<"run_id">>, Unset)
      /\ clear[2] = Assign(<<"resource_log">>, Unset)
      /\ clear[3] = Assign(<<"call_log">>, Unset)
      /\ clear[4] = Assign(<<"call_log_args">>, Unset)
      /\ clear[5] = Assign(<<"call_log_result">>, Unset)
  BY DEF ClearObserveEnvironment
<1>9. /\ set[1] = Assign(<<"run_id">>, k)
      /\ set[2] = Assign(<<"resource_log">>, k)
      /\ set[3] = Assign(<<"call_log">>, k)
      /\ set[4] = SetOptIn(<<"call_log_args">>, chosen)
      /\ set[5] = SetOptIn(<<"call_log_result">>, chosen)
  OBVIOUS
<1> HIDE DEF clear, set, faults, calls
<1> DEFINE back == set \o faults
<1>10. /\ back \in Seq(AnyCall)
       /\ Len(back) = 5 + Fields
       /\ \A i \in 1 .. 5 : back[i] = set[i]
       /\ \A i \in 1 .. Fields : back[5 + i] = faults[i]
  <2> DEFINE m == 5
  <2>1. set \in Seq(AnyCall) /\ Len(set) = m
    BY <1>4
  <2>3. faults \in Seq(AnyCall) /\ Len(faults) = Fields
    BY <1>6
  <2> HIDE DEF m
  <2>2. /\ back \in Seq(AnyCall) /\ Len(back) = m + Fields
        /\ \A i \in 1 .. m : back[i] = set[i]
        /\ \A i \in 1 .. Fields : back[m + i] = faults[i]
    BY ONLY <2>1, <2>3, ElementsOfTwo, SMTT(60)
  <2> HIDE DEF back
  <2> QED
    BY <2>2 DEF m
<1> HIDE DEF back
<1>11. /\ Len(calls) = 5 + (5 + Fields)
       /\ \A i \in 1 .. 5 : calls[i] = clear[i]
       /\ \A i \in 1 .. 5 + Fields : calls[5 + i] = back[i]
  <2> DEFINE m == 5
             both == clear \o back
             n == 5 + Fields
  <2>3. Len(clear) = m
    BY <1>3
  <2>4. calls = both
    BY <1>7 DEF back
  <2>1. back \in Seq(AnyCall) /\ Len(back) = n
    BY <1>10
  <2> HIDE DEF m, n
  <2>2. /\ Len(both) = m + n
        /\ \A i \in 1 .. m : both[i] = clear[i]
        /\ \A i \in 1 .. n : both[m + i] = back[i]
    BY ONLY <1>3, <2>1, <2>3, ElementsOfTwo, SMTT(60)
  <2> HIDE DEF both
  <2> QED
    BY <2>2, <2>4 DEF m, n
<1>12. Len(calls) = 10 + Fields
  BY <1>11, FieldsFacts
<1>13. calls[6] = set[1] /\ calls[7] = set[2] /\ calls[8] = set[3]
       /\ calls[9] = set[4] /\ calls[10] = set[5]
  <2> SUFFICES ASSUME NEW i \in 1 .. 5 PROVE calls[5 + i] = set[i]
    OBVIOUS
  <2>1. i \in 1 .. 5 + Fields
    BY FieldsFacts
  <2> QED
    BY <1>10, <1>11, <2>1
<1>14. ASSUME NEW i \in 1 .. Fields PROVE calls[10 + i] = SetenvIfPresent(i, e)
  <2>1. 5 + i \in 1 .. 5 + Fields /\ 5 + (5 + i) = 10 + i
    BY FieldsFacts
  <2> QED
    BY <1>6, <1>10, <1>11, <2>1
<1>15. 1 \in 1 .. 5 /\ 2 \in 1 .. 5 /\ 3 \in 1 .. 5 /\ 4 \in 1 .. 5 /\ 5 \in 1 .. 5
  OBVIOUS
<1> QED
  BY <1>8, <1>9, <1>11, <1>12, <1>13, <1>14, <1>15 DEF calls

\* After the five, one call for each field of the two kinds.
LEMMA HelperCalls ==
    LET calls == ClearHelperEnvironment IN
    /\ Len(calls) = 5 + Fields + Fields
    /\ calls[1] = Assign(<<"run_id">>, Unset)
    /\ calls[2] = Assign(<<"resource_log">>, Unset)
    /\ calls[3] = Assign(<<"call_log">>, Unset)
    /\ calls[4] = Assign(<<"call_log_args">>, Unset)
    /\ calls[5] = Assign(<<"call_log_result">>, Unset)
    /\ \A i \in 1 .. Fields : calls[5 + i] = Assign(Fault(i), Unset)
    /\ \A i \in 1 .. Fields : calls[5 + Fields + i] = Assign(ChildFault(i), Unset)
<1> DEFINE clear == ClearObserveEnvironment
           faults == [i \in DOMAIN FaultFields |-> Assign(Fault(i), Unset)]
           requests == [i \in DOMAIN FaultFields |-> Assign(ChildFault(i), Unset)]
           calls == ClearHelperEnvironment
<1>1. /\ Unset \in AnyValue
      /\ {<<"run_id">>, <<"resource_log">>, <<"call_log">>,
          <<"call_log_args">>, <<"call_log_result">>} \subseteq Variables
      /\ \A i \in 1 .. Fields : Fault(i) \in Variables /\ ChildFault(i) \in Variables
  BY FieldsFacts DEF AnyValue, Variables, Identity, OptIn, Faults, ChildFaults
<1>2. clear \in Seq(AnyCall) /\ Len(clear) = 5
  BY <1>1, AssignIsCall DEF ClearObserveEnvironment
<1>3. /\ faults \in Seq(AnyCall) /\ Len(faults) = Fields
      /\ \A i \in 1 .. Fields : faults[i] = Assign(Fault(i), Unset)
  <2>1. faults = [i \in 1 .. Fields |-> Assign(Fault(i), Unset)]
    BY FieldsFacts
  <2>2. faults \in [1 .. Fields -> AnyCall]
    BY <1>1, <2>1, AssignIsCall
  <2> QED
    BY <2>1, <2>2, CallForEachField
<1>4. /\ requests \in Seq(AnyCall) /\ Len(requests) = Fields
      /\ \A i \in 1 .. Fields : requests[i] = Assign(ChildFault(i), Unset)
  <2>1. requests = [i \in 1 .. Fields |-> Assign(ChildFault(i), Unset)]
    BY FieldsFacts
  <2>2. requests \in [1 .. Fields -> AnyCall]
    BY <1>1, <2>1, AssignIsCall
  <2> QED
    BY <2>1, <2>2, CallForEachField
<1>5. calls = (clear \o faults) \o requests
  BY DEF ClearHelperEnvironment
<1>6. /\ clear[1] = Assign(<<"run_id">>, Unset)
      /\ clear[2] = Assign(<<"resource_log">>, Unset)
      /\ clear[3] = Assign(<<"call_log">>, Unset)
      /\ clear[4] = Assign(<<"call_log_args">>, Unset)
      /\ clear[5] = Assign(<<"call_log_result">>, Unset)
  BY DEF ClearObserveEnvironment
<1> HIDE DEF clear, faults, requests, calls
<1> DEFINE front == clear \o faults
           n == 5 + Fields
<1>7. /\ front \in Seq(AnyCall) /\ Len(front) = n
      /\ \A i \in 1 .. 5 : front[i] = clear[i]
      /\ \A i \in 1 .. Fields : front[5 + i] = faults[i]
  <2> DEFINE m == 5
  <2>1. Len(clear) = m
    BY <1>2
  <2> HIDE DEF m
  <2>2. /\ front \in Seq(AnyCall) /\ Len(front) = m + Fields
        /\ \A i \in 1 .. m : front[i] = clear[i]
        /\ \A i \in 1 .. Fields : front[m + i] = faults[i]
    BY ONLY <1>2, <1>3, <2>1, ElementsOfTwo, SMTT(60)
  <2> HIDE DEF front
  <2> QED
    BY <2>2 DEF m, n
<1> HIDE DEF front, n
<1>8. /\ Len(front \o requests) = n + Fields
      /\ \A i \in 1 .. n : (front \o requests)[i] = front[i]
      /\ \A i \in 1 .. Fields : (front \o requests)[n + i] = requests[i]
  BY ONLY <1>4, <1>7, ElementsOfTwo, SMTT(60)
<1>9. calls = front \o requests
  BY <1>5 DEF front
<1>10. \A i \in 1 .. 5 : calls[i] = clear[i]
  <2> SUFFICES ASSUME NEW i \in 1 .. 5 PROVE calls[i] = clear[i]
    OBVIOUS
  <2>1. i \in 1 .. n
    BY FieldsFacts DEF n
  <2> QED
    BY <1>7, <1>8, <1>9, <2>1
<1>11. \A i \in 1 .. Fields : calls[5 + i] = Assign(Fault(i), Unset)
  <2> SUFFICES ASSUME NEW i \in 1 .. Fields
               PROVE  calls[5 + i] = Assign(Fault(i), Unset)
    OBVIOUS
  <2>1. 5 + i \in 1 .. n
    BY FieldsFacts DEF n
  <2> QED
    BY <1>3, <1>7, <1>8, <1>9, <2>1
<1>12. /\ Len(calls) = 5 + Fields + Fields
       /\ \A i \in 1 .. Fields :
             calls[5 + Fields + i] = Assign(ChildFault(i), Unset)
  BY <1>4, <1>8, <1>9 DEF n
<1>13. 1 \in 1 .. 5 /\ 2 \in 1 .. 5 /\ 3 \in 1 .. 5 /\ 4 \in 1 .. 5 /\ 5 \in 1 .. 5
  OBVIOUS
<1> QED
  BY <1>6, <1>10, <1>11, <1>12, <1>13 DEF calls

\* What the child of a capture, or a helper, has of its environment so far,
\* if no call has failed.
FaultResult(i) ==
    IF environment[depth][ChildFault(i)] \in {Unset, Empty}
    THEN environment[depth][Fault(i)] ELSE environment[depth][ChildFault(i)]

OptInResult(v) == IF v \in optedIn[depth + 1] THEN On ELSE Unset

SelfSoFar ==
    /\ done >= 6 => child[<<"run_id">>] = depth + 1
    /\ done >= 7 => child[<<"resource_log">>] = depth + 1
    /\ done >= 8 => child[<<"call_log">>] = depth + 1
    /\ done >= 4 /\ done < 9 => child[<<"call_log_args">>] = Unset
    /\ done >= 9 =>
          child[<<"call_log_args">>] = OptInResult(<<"call_log_args">>)
    /\ done >= 5 /\ done < 10 => child[<<"call_log_result">>] = Unset
    /\ done >= 10 =>
          child[<<"call_log_result">>] = OptInResult(<<"call_log_result">>)

FaultsSoFar ==
    /\ \A i \in 1 .. Fields :
          child[ChildFault(i)] = environment[depth][ChildFault(i)]
    /\ \A i \in 1 .. Fields :
          child[Fault(i)] = IF done >= 10 + i THEN FaultResult(i)
                            ELSE environment[depth][Fault(i)]

ObservedSoFar == SelfSoFar /\ FaultsSoFar

HelperSoFar ==
    /\ done >= 1 => child[<<"run_id">>] = Unset
    /\ done >= 2 => child[<<"resource_log">>] = Unset
    /\ done >= 3 => child[<<"call_log">>] = Unset
    /\ done >= 4 => child[<<"call_log_args">>] = Unset
    /\ done >= 5 => child[<<"call_log_result">>] = Unset
    /\ \A i \in 1 .. Fields : done >= 5 + i => child[Fault(i)] = Unset
    /\ \A i \in 1 .. Fields :
          done >= 5 + Fields + i => child[ChildFault(i)] = Unset

\* The requests outlive every capture, and a capture changes only what it is
\* to change.
EnvInv ==
    /\ EnvTypeOK
    /\ \A k \in 0 .. MaxDepth :
          /\ \A v \in Variables \ ChildFaults : environment[k][v] # Empty
          /\ \A v \in ChildFaults :
                /\ environment[k][v] = environment[0][v]
                /\ environment[0][v] \in {Unset, Empty, Asked}
    /\ kind = "observed" =>
          /\ depth < MaxDepth
          /\ done <= 10 + Fields
          /\ failures = 0 => ObservedSoFar
    /\ kind = "helper" =>
          /\ done <= 5 + Fields + Fields
          /\ failures = 0 => HelperSoFar
    /\ OwnObservation
    /\ FaultsAsRequested

\* A call makes what it assigns and nothing else.
Makes(call) ==
    child' = [v \in Variables |-> IF v \in DOMAIN call THEN call[v] ELSE child[v]]

LEMMA AssignMakes ==
    ASSUME NEW w \in Variables, NEW to, Makes(Assign(w, to))
    PROVE  /\ child'[w] = to
           /\ \A v \in Variables : v # w => child'[v] = child[v]
BY DEF Makes, Assign

LEMMA NoCallMakes ==
    ASSUME Makes(NoCall)
    PROVE  \A v \in Variables : child'[v] = child[v]
BY DEF Makes, NoCall

LEMMA OptInMakes ==
    ASSUME NEW w \in Variables, Makes(SetOptIn(w, optedIn[depth + 1])),
           child[w] = Unset
    PROVE  /\ child'[w] = OptInResult(w)
           /\ \A v \in Variables : v # w => child'[v] = child[v]
BY AssignMakes, NoCallMakes DEF SetOptIn, OptInResult

\* The variables, by their names.
LEMMA VariableNames ==
    /\ {<<"run_id">>, <<"resource_log">>, <<"call_log">>,
        <<"call_log_args">>, <<"call_log_result">>} \subseteq Variables
    /\ \A i \in 1 .. Fields : Fault(i) \in Variables /\ ChildFault(i) \in Variables
    /\ \A i \in 1 .. Fields : ChildFault(i) \in ChildFaults
    /\ \A v \in Variables :
          \/ v \in Identity \cup OptIn
          \/ \E i \in 1 .. Fields : v = Fault(i) \/ v = ChildFault(i)
BY FieldsFacts DEF Variables, Identity, OptIn, Faults, ChildFaults

\* Each call of the setup of an observed child.
LEMMA ObservedCallKeeps ==
    ASSUME ObservedSoFar, done \in Nat, done < 10 + Fields,
           depth \in Nat, depth + 1 \in 0 .. MaxDepth,
           environment[depth] \in Environments,
           done' = done + 1, UNCHANGED <<depth, environment, optedIn>>,
           Makes(SetupObservedChild(depth + 1, optedIn[depth + 1],
                                    environment[depth])[done + 1])
    PROVE  ObservedSoFar'
<1> DEFINE k == depth + 1
           e == environment[depth]
           calls == SetupObservedChild(k, optedIn[depth + 1], e)
<1>0. k \in 0 .. MaxDepth /\ e \in Environments /\ Makes(calls[done + 1])
  OBVIOUS
<1> HIDE DEF k, e
<1>1. /\ Makes(calls[done + 1])
      /\ calls[1] = Assign(<<"run_id">>, Unset)
      /\ calls[2] = Assign(<<"resource_log">>, Unset)
      /\ calls[3] = Assign(<<"call_log">>, Unset)
      /\ calls[4] = Assign(<<"call_log_args">>, Unset)
      /\ calls[5] = Assign(<<"call_log_result">>, Unset)
      /\ calls[6] = Assign(<<"run_id">>, k)
      /\ calls[7] = Assign(<<"resource_log">>, k)
      /\ calls[8] = Assign(<<"call_log">>, k)
      /\ calls[9] = SetOptIn(<<"call_log_args">>, optedIn[depth + 1])
      /\ calls[10] = SetOptIn(<<"call_log_result">>, optedIn[depth + 1])
      /\ \A i \in 1 .. Fields :
            calls[10 + i] = SetenvIfPresent(i, e)
  BY ONLY <1>0, ObservedCalls
<1> HIDE DEF calls
<1> USE DEF k, e
<1>2. Fields \in Nat
  BY FieldsFacts
<1>3. /\ \A v : OptInResult(v)' = OptInResult(v)
      /\ \A i : FaultResult(i)' = FaultResult(i)
  BY DEF OptInResult, FaultResult
<1> DEFINE Five == {<<"run_id">>, <<"resource_log">>, <<"call_log">>,
                    <<"call_log_args">>, <<"call_log_result">>}
<1>4. /\ Five \subseteq Variables
      /\ \A i \in 1 .. Fields :
            /\ Fault(i) \in Variables \ Five
            /\ ChildFault(i) \in Variables \ Five
  <2>1. Five = Identity \cup OptIn
    BY NamesDiffer
  <2> HIDE DEF Five
  <2>2. \A i \in 1 .. Fields : Fault(i) \notin Five /\ ChildFault(i) \notin Five
    BY <2>1, NamesDiffer, FieldsFacts
  <2>3. Five \subseteq Variables
    BY <2>1 DEF Variables
  <2> QED
    BY <2>2, <2>3, VariableNames
<1>5. CASE done < 10
  <2>1. \E w \in Five : \A v \in Variables : v # w => child'[v] = child[v]
    <3>1. CASE done \in {0, 5}
      BY <1>1, <1>4, <3>1, AssignMakes
    <3>2. CASE done \in {1, 6}
      BY <1>1, <1>4, <3>2, AssignMakes
    <3>3. CASE done \in {2, 7}
      BY <1>1, <1>4, <3>3, AssignMakes
    <3>4. CASE done \in {3, 4}
      BY <1>1, <1>4, <3>4, AssignMakes
    <3>5. CASE done = 8
      <4>1. child[<<"call_log_args">>] = Unset
        BY <3>5 DEF ObservedSoFar, SelfSoFar
      <4>2. Makes(SetOptIn(<<"call_log_args">>, optedIn[depth + 1]))
        BY <1>1, <3>5
      <4> QED
        BY <1>4, <4>1, <4>2, OptInMakes
    <3>6. CASE done = 9
      <4>1. child[<<"call_log_result">>] = Unset
        BY <3>6 DEF ObservedSoFar, SelfSoFar
      <4>2. Makes(SetOptIn(<<"call_log_result">>, optedIn[depth + 1]))
        BY <1>1, <3>6
      <4> QED
        BY <1>4, <4>1, <4>2, OptInMakes
    <3> QED
      BY <1>5, <3>1, <3>2, <3>3, <3>4, <3>5, <3>6
  <2>2. FaultsSoFar'
    BY <1>2, <1>4, <1>5, <2>1 DEF ObservedSoFar, FaultsSoFar
  <2>3. CASE done \in {0, 1, 2}
    BY <2>2, <2>3 DEF ObservedSoFar, SelfSoFar
  <2>4. CASE done = 3
    <3>1. /\ child'[<<"call_log_args">>] = Unset
          /\ \A v \in Five : v # <<"call_log_args">> => child'[v] = child[v]
      BY <1>1, <1>4, <2>4, AssignMakes
    <3> QED
      BY <1>3, <2>2, <2>4, <3>1 DEF ObservedSoFar, SelfSoFar
  <2>5. CASE done = 4
    <3>1. /\ child'[<<"call_log_result">>] = Unset
          /\ \A v \in Five : v # <<"call_log_result">> => child'[v] = child[v]
      BY <1>1, <1>4, <2>5, AssignMakes
    <3> QED
      BY <1>3, <2>2, <2>5, <3>1 DEF ObservedSoFar, SelfSoFar
  <2>6. CASE done = 5
    <3>1. /\ child'[<<"run_id">>] = depth + 1
          /\ \A v \in Five : v # <<"run_id">> => child'[v] = child[v]
      BY <1>1, <1>4, <2>6, AssignMakes
    <3> QED
      BY <1>3, <2>2, <2>6, <3>1 DEF ObservedSoFar, SelfSoFar
  <2>7. CASE done = 6
    <3>1. /\ child'[<<"resource_log">>] = depth + 1
          /\ \A v \in Five : v # <<"resource_log">> => child'[v] = child[v]
      BY <1>1, <1>4, <2>7, AssignMakes
    <3> QED
      BY <1>3, <2>2, <2>7, <3>1 DEF ObservedSoFar, SelfSoFar
  <2>8. CASE done = 7
    <3>1. /\ child'[<<"call_log">>] = depth + 1
          /\ \A v \in Five : v # <<"call_log">> => child'[v] = child[v]
      BY <1>1, <1>4, <2>8, AssignMakes
    <3> QED
      BY <1>3, <2>2, <2>8, <3>1 DEF ObservedSoFar, SelfSoFar
  <2>9. CASE done = 8
    <3>1. /\ child'[<<"call_log_args">>] = OptInResult(<<"call_log_args">>)
          /\ \A v \in Five : v # <<"call_log_args">> => child'[v] = child[v]
      <4>1. child[<<"call_log_args">>] = Unset
        BY <2>9 DEF ObservedSoFar, SelfSoFar
      <4>2. Makes(SetOptIn(<<"call_log_args">>, optedIn[depth + 1]))
        BY <1>1, <2>9
      <4> QED
        BY <1>4, <4>1, <4>2, OptInMakes
    <3> QED
      BY <1>3, <2>2, <2>9, <3>1 DEF ObservedSoFar, SelfSoFar
  <2>10. CASE done = 9
    <3>1. /\ child'[<<"call_log_result">>] = OptInResult(<<"call_log_result">>)
          /\ \A v \in Five : v # <<"call_log_result">> => child'[v] = child[v]
      <4>1. child[<<"call_log_result">>] = Unset
        BY <2>10 DEF ObservedSoFar, SelfSoFar
      <4>2. Makes(SetOptIn(<<"call_log_result">>, optedIn[depth + 1]))
        BY <1>1, <2>10
      <4> QED
        BY <1>4, <4>1, <4>2, OptInMakes
    <3> QED
      BY <1>3, <2>2, <2>10, <3>1 DEF ObservedSoFar, SelfSoFar
  <2> QED
    BY <1>5, <2>3, <2>4, <2>5, <2>6, <2>7, <2>8, <2>9, <2>10
<1>6. CASE done >= 10
  <2> DEFINE f == done + 1 - 10
  <2>1. f \in 1 .. Fields /\ done + 1 = 10 + f /\ done = 9 + f
    BY <1>2, <1>6
  <2>2. Makes(SetenvIfPresent(f, environment[depth]))
    BY <1>1, <2>1
  <2> HIDE DEF f
  <2>3. /\ child'[Fault(f)] = FaultResult(f)
        /\ \A v \in Variables : v # Fault(f) => child'[v] = child[v]
    <3>1. child[Fault(f)] = environment[depth][Fault(f)]
      BY <2>1 DEF ObservedSoFar, FaultsSoFar
    <3> QED
      BY <1>4, <2>1, <2>2, <3>1, AssignMakes, NoCallMakes
      DEF SetenvIfPresent, FaultResult
  <2>4. \A j \in 1 .. Fields :
           /\ ChildFault(j) # Fault(f)
           /\ j # f => Fault(j) # Fault(f)
    BY <2>1, NamesDiffer, FieldsFacts
  <2>5. SelfSoFar'
    <3>1. \A v \in Five : child'[v] = child[v]
      BY <1>4, <2>1, <2>3
    <3> QED
      BY <1>3, <1>6, <3>1 DEF ObservedSoFar, SelfSoFar
  <2>6. FaultsSoFar'
    <3>1. \A j \in 1 .. Fields : child'[ChildFault(j)] = child[ChildFault(j)]
      BY <1>4, <2>3, <2>4
    <3>2. \A j \in 1 .. Fields : j # f => child'[Fault(j)] = child[Fault(j)]
      BY <1>4, <2>3, <2>4
    <3>3. \A j \in 1 .. Fields :
             j # f => (done' >= 10 + j <=> done >= 10 + j)
      BY <1>2, <2>1
    <3>4. done' >= 10 + f
      BY <1>2, <2>1
    <3>5. /\ \A j \in 1 .. Fields :
               child[ChildFault(j)] = environment[depth][ChildFault(j)]
          /\ \A j \in 1 .. Fields :
               child[Fault(j)] = IF done >= 10 + j THEN FaultResult(j)
                                 ELSE environment[depth][Fault(j)]
      BY DEF ObservedSoFar, FaultsSoFar
    <3>6. ASSUME NEW j \in 1 .. Fields
          PROVE  child'[Fault(j)] = IF done' >= 10 + j THEN FaultResult(j)
                                    ELSE environment[depth][Fault(j)]
      <4>1. CASE j = f
        BY <2>3, <3>4, <4>1
      <4>2. CASE j # f
        BY <3>2, <3>3, <3>5, <4>2
      <4> QED
        BY <4>1, <4>2
    <3> QED
      BY <1>3, <3>1, <3>5, <3>6 DEF FaultsSoFar
  <2> QED
    BY <2>5, <2>6 DEF ObservedSoFar
<1> QED
  BY <1>5, <1>6

\* Each call of the setup of a helper.
LEMMA HelperCallKeeps ==
    ASSUME HelperSoFar, done \in Nat, done < 5 + Fields + Fields,
           done' = done + 1, Makes(ClearHelperEnvironment[done + 1])
    PROVE  HelperSoFar'
<1> DEFINE calls == ClearHelperEnvironment
<1>1. /\ Makes(calls[done + 1])
      /\ calls[1] = Assign(<<"run_id">>, Unset)
      /\ calls[2] = Assign(<<"resource_log">>, Unset)
      /\ calls[3] = Assign(<<"call_log">>, Unset)
      /\ calls[4] = Assign(<<"call_log_args">>, Unset)
      /\ calls[5] = Assign(<<"call_log_result">>, Unset)
      /\ \A i \in 1 .. Fields : calls[5 + i] = Assign(Fault(i), Unset)
      /\ \A i \in 1 .. Fields :
            calls[5 + Fields + i] = Assign(ChildFault(i), Unset)
  BY HelperCalls
<1> HIDE DEF calls
<1>2. Fields \in Nat
  BY FieldsFacts
<1>3. \A w \in Variables : Makes(Assign(w, Unset)) =>
          \A v \in Variables : child'[v] = IF v = w THEN Unset ELSE child[v]
  BY DEF Makes, Assign
<1>4. \E w \in Variables : Makes(Assign(w, Unset))
  <2>1. CASE done < 5
    <3>1. done \in 0 .. 4
      BY <2>1
    <3> QED
      BY <1>1, <3>1, VariableNames
  <2>2. CASE done >= 5 /\ done < 5 + Fields
    <3> DEFINE f == done + 1 - 5
    <3>1. f \in 1 .. Fields /\ done + 1 = 5 + f
      BY <1>2, <2>2
    <3> HIDE DEF f
    <3>2. Makes(Assign(Fault(f), Unset))
      BY <1>1, <3>1
    <3> QED
      BY <3>1, <3>2, VariableNames
  <2>3. CASE done >= 5 + Fields
    <3> DEFINE f == done + 1 - 5 - Fields
    <3>1. f \in 1 .. Fields /\ done + 1 = 5 + Fields + f
      BY <1>2, <2>3
    <3> HIDE DEF f
    <3>2. Makes(Assign(ChildFault(f), Unset))
      BY <1>1, <3>1
    <3> QED
      BY <3>1, <3>2, VariableNames
  <2> QED
    BY <1>2, <2>1, <2>2, <2>3
<1>5. \A v \in Variables : child'[v] = Unset \/ child'[v] = child[v]
  BY <1>3, <1>4
<1>6. /\ done = 0 => child'[<<"run_id">>] = Unset
      /\ done = 1 => child'[<<"resource_log">>] = Unset
      /\ done = 2 => child'[<<"call_log">>] = Unset
      /\ done = 3 => child'[<<"call_log_args">>] = Unset
      /\ done = 4 => child'[<<"call_log_result">>] = Unset
  <2>1. /\ <<"run_id">> \in Variables /\ <<"resource_log">> \in Variables
        /\ <<"call_log">> \in Variables /\ <<"call_log_args">> \in Variables
        /\ <<"call_log_result">> \in Variables
    BY VariableNames
  <2>2. CASE done = 0
    BY <1>1, <1>3, <2>1, <2>2
  <2>3. CASE done = 1
    BY <1>1, <1>3, <2>1, <2>3
  <2>4. CASE done = 2
    BY <1>1, <1>3, <2>1, <2>4
  <2>5. CASE done = 3
    BY <1>1, <1>3, <2>1, <2>5
  <2>6. CASE done = 4
    BY <1>1, <1>3, <2>1, <2>6
  <2> QED
    BY <2>2, <2>3, <2>4, <2>5, <2>6
<1>7. ASSUME NEW i \in 1 .. Fields, done + 1 = 5 + i
      PROVE  child'[Fault(i)] = Unset
  <2>1. Makes(Assign(Fault(i), Unset))
    BY <1>1, <1>7
  <2> QED
    BY <1>3, <2>1, VariableNames
<1>8. ASSUME NEW i \in 1 .. Fields, done + 1 = 5 + Fields + i
      PROVE  child'[ChildFault(i)] = Unset
  <2>1. Makes(Assign(ChildFault(i), Unset))
    BY <1>1, <1>8
  <2> QED
    BY <1>3, <2>1, VariableNames
<1>9. /\ done' >= 1 => child'[<<"run_id">>] = Unset
      /\ done' >= 2 => child'[<<"resource_log">>] = Unset
      /\ done' >= 3 => child'[<<"call_log">>] = Unset
      /\ done' >= 4 => child'[<<"call_log_args">>] = Unset
      /\ done' >= 5 => child'[<<"call_log_result">>] = Unset
  BY <1>5, <1>6, VariableNames DEF HelperSoFar
<1>10. ASSUME NEW i \in 1 .. Fields, done' >= 5 + i
       PROVE  child'[Fault(i)] = Unset
  <2>1. done + 1 = 5 + i \/ done >= 5 + i
    BY <1>10
  <2> QED
    BY <1>5, <1>7, <2>1, VariableNames DEF HelperSoFar
<1>11. ASSUME NEW i \in 1 .. Fields, done' >= 5 + Fields + i
       PROVE  child'[ChildFault(i)] = Unset
  <2>1. done + 1 = 5 + Fields + i \/ done >= 5 + Fields + i
    BY <1>2, <1>11
  <2> QED
    BY <1>5, <1>8, <2>1, VariableNames DEF HelperSoFar
<1> QED
  BY <1>9, <1>10, <1>11 DEF HelperSoFar

\* A call of a setup leaves the variables with values, and none empty that
\* was not.
Proper(call) ==
    \/ call = NoCall
    \/ \E w \in Variables, x \in AnyValue \ {Empty} : call = Assign(w, x)

LEMMA ProperMakes ==
    ASSUME NEW call, Proper(call), Makes(call), child \in Environments,
           \A v \in Variables \ ChildFaults : child[v] # Empty
    PROVE  /\ child' \in Environments
           /\ \A v \in Variables \ ChildFaults : child'[v] # Empty
<1>1. \A v \in Variables :
         child'[v] = child[v] \/ child'[v] \in AnyValue \ {Empty}
  BY DEF Makes, Proper, NoCall, Assign
<1>2. child' = [v \in Variables |-> child'[v]]
  BY DEF Makes
<1>3. \A v \in Variables : child'[v] \in AnyValue
  BY <1>1 DEF Environments, AnyValue
<1> QED
  BY <1>1, <1>2, <1>3 DEF Environments, AnyValue

LEMMA ObservedProper ==
    ASSUME NEW k \in 0 .. MaxDepth, NEW chosen, NEW e \in Environments,
           NEW d \in 1 .. 10 + Fields
    PROVE  Proper(SetupObservedChild(k, chosen, e)[d])
<1> DEFINE calls == SetupObservedChild(k, chosen, e)
<1>1. /\ Unset \in AnyValue \ {Empty} /\ On \in AnyValue \ {Empty}
      /\ k \in AnyValue \ {Empty}
  BY ValuesAssumption DEF AnyValue
<1>2. Fields \in Nat
  BY FieldsFacts
<1>3. CASE d <= 10
  <2>1. d \in 1 .. 5 \/ d = 6 \/ d = 7 \/ d = 8 \/ d = 9 \/ d = 10
    BY <1>2, <1>3
  <2>2. CASE d \in 1 .. 5
    <3>1. \E w \in Variables : calls[d] = Assign(w, Unset)
      BY <2>2, ObservedCalls, VariableNames
    <3> QED
      BY <1>1, <3>1 DEF Proper
  <2>3. CASE d = 6 \/ d = 7 \/ d = 8
    <3>1. \E w \in Variables : calls[d] = Assign(w, k)
      BY <2>3, ObservedCalls, VariableNames
    <3> QED
      BY <1>1, <3>1 DEF Proper
  <2>4. CASE d = 9 \/ d = 10
    <3>1. \E w \in Variables : calls[d] = SetOptIn(w, chosen)
      BY <2>4, ObservedCalls, VariableNames
    <3> QED
      BY <1>1, <3>1 DEF Proper, SetOptIn
  <2> QED
    BY <2>1, <2>2, <2>3, <2>4
<1>4. CASE d > 10
  <2> DEFINE i == d - 10
  <2>1. i \in 1 .. Fields /\ d = 10 + i
    BY <1>2, <1>4
  <2> HIDE DEF i
  <2>2. calls[d] = SetenvIfPresent(i, e)
    BY <2>1, ObservedCalls
  <2>3. /\ Fault(i) \in Variables
        /\ e[ChildFault(i)] \in AnyValue
    BY <2>1, VariableNames DEF Environments, AnyValue
  <2> QED
    BY <2>2, <2>3 DEF Proper, SetenvIfPresent
<1> QED
  BY <1>2, <1>3, <1>4

LEMMA HelperProper ==
    ASSUME NEW d \in 1 .. 5 + Fields + Fields
    PROVE  Proper(ClearHelperEnvironment[d])
<1>1. Unset \in AnyValue \ {Empty}
  BY ValuesAssumption DEF AnyValue
<1>2. Fields \in Nat
  BY FieldsFacts
<1>3. \E w \in Variables : ClearHelperEnvironment[d] = Assign(w, Unset)
  <2>1. CASE d \in 1 .. 5
    BY <2>1, HelperCalls, VariableNames
  <2>2. CASE d > 5 /\ d <= 5 + Fields
    <3> DEFINE i == d - 5
    <3>1. i \in 1 .. Fields /\ d = 5 + i
      BY <1>2, <2>2
    <3> HIDE DEF i
    <3> QED
      BY <3>1, HelperCalls, VariableNames
  <2>3. CASE d > 5 + Fields
    <3> DEFINE i == d - 5 - Fields
    <3>1. i \in 1 .. Fields /\ d = 5 + Fields + i
      BY <1>2, <2>3
    <3> HIDE DEF i
    <3> QED
      BY <3>1, HelperCalls, VariableNames
  <2> QED
    BY <1>2, <2>1, <2>2, <2>3
<1> QED
  BY <1>1, <1>3 DEF Proper

\* The shell's environment is that of all.
LEMMA EnvInvInit == EnvInit => EnvInv
<1> SUFFICES ASSUME EnvInit PROVE EnvInv
  OBVIOUS
<1>1. PICK e \in [Variables -> {Unset, Empty, On, Own, Asked}] :
         /\ ShellEnvironment(e)
         /\ environment = [k \in 0 .. MaxDepth |-> e]
  BY DEF EnvInit
<1>2. e \in Environments
  BY <1>1 DEF Environments
<1>3. /\ \A v \in Variables \ ChildFaults : e[v] # Empty
      /\ \A v \in ChildFaults : e[v] \in {Unset, Empty, Asked}
  BY <1>1, ValuesAssumption DEF ShellEnvironment, Variables
<1>4. \A k \in 0 .. MaxDepth : environment[k] = e
  BY <1>1
<1>5. 0 \in 0 .. MaxDepth /\ MaxDepth \in Nat
  BY DepthAssumption
<1>6. /\ depth = 0 /\ kind = "none" /\ child = environment[0]
      /\ done = 0 /\ failures = 0
      /\ optedIn \in [1 .. MaxDepth -> SUBSET OptIn]
  BY DEF EnvInit
<1>7. Len(FaultFields) \in Nat
  BY FieldsFacts DEF Fields
<1>8. EnvTypeOK
  BY <1>1, <1>2, <1>3, <1>4, <1>5, <1>6, <1>7, FailuresAssumption DEF EnvTypeOK
<1> QED
  BY <1>3, <1>4, <1>5, <1>6, <1>8 DEF EnvInv, OwnObservation, FaultsAsRequested

\* What there is to make of the calls that Calls stands for.
LEMMA CallsOfKind ==
    ASSUME EnvTypeOK, kind = "observed" => depth < MaxDepth
    PROVE  /\ kind = "observed" =>
                /\ Len(Calls) = 10 + Fields
                /\ \A d \in 1 .. 10 + Fields : Proper(Calls[d])
           /\ kind = "helper" =>
                /\ Len(Calls) = 5 + Fields + Fields
                /\ \A d \in 1 .. 5 + Fields + Fields : Proper(Calls[d])
<1>1. CASE kind = "observed"
  <2> DEFINE k == depth + 1
             e == environment[depth]
             chosen == optedIn[depth + 1]
  <2>1. k \in 0 .. MaxDepth /\ e \in Environments
    BY <1>1, DepthAssumption DEF EnvTypeOK
  <2>2. Calls = SetupObservedChild(k, chosen, e)
    BY <1>1 DEF Calls
  <2> HIDE DEF k, e, chosen
  <2> QED
    BY <1>1, <2>1, <2>2, ObservedCalls, ObservedProper
<1>2. CASE kind = "helper"
  <2>1. Calls = ClearHelperEnvironment
    BY <1>2 DEF Calls
  <2> QED
    BY <1>2, <2>1, HelperCalls, HelperProper
<1> QED
  BY <1>1, <1>2

LEMMA EnvCallKeeps == EnvInv /\ Call => EnvInv'
<1> SUFFICES ASSUME EnvInv, Call PROVE EnvInv'
  OBVIOUS
<1>1. /\ kind \in {"observed", "helper"} /\ done < Len(Calls)
      /\ done' = done + 1 /\ UNCHANGED <<depth, environment, optedIn, kind>>
      /\ \/ Makes(Calls[done + 1]) /\ failures' = failures
         \/ failures < MaxFailures /\ failures' = failures + 1 /\ child' = child
  BY DEF Call, Makes
<1>2. /\ EnvTypeOK /\ (kind = "observed" => depth < MaxDepth)
      /\ done \in Nat /\ depth \in 0 .. MaxDepth /\ MaxDepth \in Nat
      /\ child \in Environments /\ environment[depth] \in Environments
  BY DepthAssumption DEF EnvInv, EnvTypeOK
<1>3. Fields \in Nat
  BY FieldsFacts
<1>4. /\ kind = "observed" => done < 10 + Fields /\ Len(Calls) = 10 + Fields
      /\ kind = "helper" =>
            done < 5 + Fields + Fields /\ Len(Calls) = 5 + Fields + Fields
  BY <1>1, <1>2, CallsOfKind
<1>5. Makes(Calls[done + 1]) =>
         /\ child' \in Environments
         /\ \A v \in Variables \ ChildFaults : child'[v] # Empty
  <2> SUFFICES ASSUME Makes(Calls[done + 1])
               PROVE  /\ child' \in Environments
                      /\ \A v \in Variables \ ChildFaults : child'[v] # Empty
    OBVIOUS
  <2>1. kind = "observed" => done + 1 \in 1 .. 10 + Fields
    BY <1>2, <1>3, <1>4
  <2>2. kind = "helper" => done + 1 \in 1 .. 5 + Fields + Fields
    BY <1>2, <1>3, <1>4
  <2>3. Proper(Calls[done + 1])
    BY <1>1, <1>2, <2>1, <2>2, CallsOfKind
  <2>4. \A v \in Variables \ ChildFaults : child[v] # Empty
    BY DEF EnvInv, EnvTypeOK
  <2> QED
    BY <1>2, <2>3, <2>4, ProperMakes
<1>6. EnvTypeOK'
  <2>1. failures' \in 0 .. MaxFailures
    BY <1>1, FailuresAssumption DEF EnvInv, EnvTypeOK
  <2>2. done' \in 0 .. 10 + 2 * Len(FaultFields)
    BY <1>1, <1>2, <1>3, <1>4 DEF Fields
  <2>3. /\ child' \in Environments
        /\ \A v \in Variables \ ChildFaults : child'[v] # Empty
    BY <1>1, <1>5 DEF EnvInv, EnvTypeOK
  <2> QED
    BY <1>1, <2>1, <2>2, <2>3 DEF EnvInv, EnvTypeOK
<1>7. ASSUME kind = "observed", failures' = 0 PROVE ObservedSoFar'
  <2>1. failures = 0 /\ Makes(Calls[done + 1])
    BY <1>1, <1>7, FailuresAssumption DEF EnvInv, EnvTypeOK
  <2>2. ObservedSoFar
    BY <1>7, <2>1 DEF EnvInv
  <2>3. Makes(SetupObservedChild(depth + 1, optedIn[depth + 1],
                                 environment[depth])[done + 1])
    BY <1>7, <2>1 DEF Calls
  <2>4. depth \in Nat /\ depth + 1 \in 0 .. MaxDepth
    BY <1>2, <1>7
  <2> QED
    BY <1>1, <1>2, <1>4, <1>7, <2>2, <2>3, <2>4, ObservedCallKeeps
<1>8. ASSUME kind = "helper", failures' = 0 PROVE HelperSoFar'
  <2>1. failures = 0 /\ Makes(Calls[done + 1])
    BY <1>1, <1>8, FailuresAssumption DEF EnvInv, EnvTypeOK
  <2>2. HelperSoFar
    BY <1>8, <2>1 DEF EnvInv
  <2>3. Makes(ClearHelperEnvironment[done + 1])
    BY <1>8, <2>1 DEF Calls
  <2> QED
    BY <1>1, <1>2, <1>4, <1>8, <2>2, <2>3, HelperCallKeeps
<1>9. /\ kind' = "observed" => depth' < MaxDepth /\ done' <= 10 + Fields
      /\ kind' = "helper" => done' <= 5 + Fields + Fields
  BY <1>1, <1>2, <1>3, <1>4
<1>10. OwnObservation' /\ FaultsAsRequested'
  BY <1>1 DEF EnvInv, OwnObservation, FaultsAsRequested
<1> QED
  BY <1>1, <1>6, <1>7, <1>8, <1>9, <1>10 DEF EnvInv

\* The command of the next capture gets the environment its child has made.
LEMMA EnvExecKeeps == EnvInv /\ Exec => EnvInv'
<1> SUFFICES ASSUME EnvInv, Exec PROVE EnvInv'
  OBVIOUS
<1> DEFINE k == depth + 1
<1>1. /\ kind = "observed" /\ failures = 0 /\ kind' = "none"
      /\ depth' = k /\ environment' = [environment EXCEPT ![k] = child]
      /\ UNCHANGED <<optedIn, child, done, failures>>
  BY DEF Exec
<1>2. /\ MaxDepth \in Nat /\ depth \in 0 .. MaxDepth /\ k \in 1 .. MaxDepth
      /\ environment \in [0 .. MaxDepth -> Environments]
      /\ child \in Environments
  BY <1>1, DepthAssumption DEF EnvInv, EnvTypeOK
<1>3. done = 10 + Fields /\ Fields \in Nat
  BY <1>1, CallsOfKind, FieldsFacts DEF EnvInv, Exec
<1>4. /\ environment'[k] = child
      /\ \A j \in 0 .. depth : environment'[j] = environment[j]
      /\ \A j \in 0 .. MaxDepth : j # k => environment'[j] = environment[j]
      /\ 0 \in 0 .. depth
  BY <1>1, <1>2
<1>5. SelfSoFar /\ FaultsSoFar
  BY <1>1 DEF EnvInv, ObservedSoFar
<1>6. \A i \in 1 .. Fields : /\ ChildFault(i) \in ChildFaults
                            /\ environment[depth][ChildFault(i)]
                                  = environment[0][ChildFault(i)]
                            /\ environment[0][ChildFault(i)] \in {Unset, Empty, Asked}
  BY <1>2, VariableNames DEF EnvInv
<1>7. \A v \in ChildFaults : child[v] = environment[0][v]
  <2>1. \A v \in ChildFaults : \E i \in 1 .. Fields : v = ChildFault(i)
    BY FieldsFacts DEF ChildFaults
  <2> QED
    BY <1>5, <1>6, <2>1 DEF FaultsSoFar
<1>8. /\ \A v \in Identity : child[v] = k
      /\ \A v \in OptIn : child[v] = On <=> v \in optedIn[k]
  <2>1. /\ child[<<"run_id">>] = k
        /\ child[<<"resource_log">>] = k
        /\ child[<<"call_log">>] = k
        /\ child[<<"call_log_args">>] = OptInResult(<<"call_log_args">>)
        /\ child[<<"call_log_result">>] = OptInResult(<<"call_log_result">>)
    BY <1>3, <1>5 DEF SelfSoFar
  <2> QED
    BY <2>1, ValuesAssumption DEF Identity, OptIn, OptInResult
<1>9. \A i \in 1 .. Fields :
         child[Fault(i)] = IF environment[0][ChildFault(i)] = Asked
                           THEN Asked ELSE environment[0][Fault(i)]
  <2> SUFFICES ASSUME NEW i \in 1 .. Fields
               PROVE  child[Fault(i)] = IF environment[0][ChildFault(i)] = Asked
                                        THEN Asked ELSE environment[0][Fault(i)]
    OBVIOUS
  <2>1. child[Fault(i)] = FaultResult(i)
    BY <1>3, <1>5 DEF FaultsSoFar
  <2>2. depth # 0 => environment[depth][Fault(i)] =
              IF environment[0][ChildFault(i)] = Asked
              THEN Asked ELSE environment[0][Fault(i)]
    <3>1. depth # 0 => depth \in 1 .. depth
      BY <1>2
    <3> QED
      BY <3>1, FieldsFacts DEF EnvInv, FaultsAsRequested
  <2>3. Asked \notin {Unset, Empty}
    BY ValuesAssumption
  <2>4. CASE depth = 0
    BY <1>6, <2>1, <2>3, <2>4 DEF FaultResult
  <2>5. CASE depth # 0
    BY <1>6, <2>1, <2>2, <2>3, <2>5 DEF FaultResult
  <2> QED
    BY <2>4, <2>5
<1>10. EnvTypeOK'
  BY <1>1, <1>2 DEF EnvInv, EnvTypeOK
<1>11. \A j \in 0 .. MaxDepth :
          /\ \A v \in Variables \ ChildFaults : environment'[j][v] # Empty
          /\ \A v \in ChildFaults :
                /\ environment'[j][v] = environment'[0][v]
                /\ environment'[0][v] \in {Unset, Empty, Asked}
  <2>1. /\ \A v \in Variables \ ChildFaults : child[v] # Empty
        /\ \A j \in 0 .. MaxDepth :
              /\ \A v \in Variables \ ChildFaults : environment[j][v] # Empty
              /\ \A v \in ChildFaults :
                    /\ environment[j][v] = environment[0][v]
                    /\ environment[0][v] \in {Unset, Empty, Asked}
    BY DEF EnvInv, EnvTypeOK
  <2> QED
    BY <1>4, <1>7, <2>1
<1>12. \A j \in 1 .. k : j = k \/ (j \in 1 .. depth /\ j \in 0 .. depth)
  BY <1>2
<1>13. OwnObservation'
  <2>1. \A j \in 1 .. depth :
           /\ \A v \in Identity : environment[j][v] = j
           /\ \A v \in OptIn : environment[j][v] = On <=> v \in optedIn[j]
    BY DEF EnvInv, OwnObservation
  <2> QED
    BY <1>1, <1>4, <1>8, <1>12, <2>1 DEF OwnObservation
<1>14. FaultsAsRequested'
  <2>1. \A j \in 1 .. depth : \A i \in 1 .. Fields :
           environment[j][Fault(i)] =
              IF environment[0][ChildFault(i)] = Asked
              THEN Asked ELSE environment[0][Fault(i)]
    BY FieldsFacts DEF EnvInv, FaultsAsRequested
  <2>2. \A j \in 1 .. k : \A i \in 1 .. Fields :
           environment'[j][Fault(i)] =
              IF environment'[0][ChildFault(i)] = Asked
              THEN Asked ELSE environment'[0][Fault(i)]
    BY <1>4, <1>9, <1>12, <2>1
  <2> QED
    BY <1>1, <2>2, FieldsFacts DEF FaultsAsRequested
<1> QED
  BY <1>1, <1>10, <1>11, <1>13, <1>14 DEF EnvInv

LEMMA EnvInvNext == EnvInv /\ [EnvNext]_envVars => EnvInv'
<1> SUFFICES ASSUME EnvInv, [EnvNext]_envVars PROVE EnvInv'
  OBVIOUS
<1>1. CASE Fork
  <2>1. /\ kind' \in {"observed", "helper"} /\ depth < MaxDepth
        /\ child' = environment[depth] /\ done' = 0 /\ failures' = 0
        /\ UNCHANGED <<depth, environment, optedIn>>
    BY <1>1 DEF Fork
  <2>2. Fields \in Nat /\ Len(FaultFields) \in Nat
    BY FieldsFacts DEF Fields
  <2>3. depth \in 0 .. MaxDepth /\ environment[depth] \in Environments
    BY DEF EnvInv, EnvTypeOK
  <2>4. EnvTypeOK'
    <3>1. \A v \in Variables \ ChildFaults : child'[v] # Empty
      BY <2>1, <2>3 DEF EnvInv
    <3> QED
      BY <2>1, <2>2, <2>3, <3>1, FailuresAssumption DEF EnvInv, EnvTypeOK
  <2>5. ObservedSoFar'
    <3>1. \A i \in 1 .. Fields : ~(done' >= 10 + i)
      BY <2>1, <2>2
    <3> QED
      BY <2>1, <3>1 DEF ObservedSoFar, SelfSoFar, FaultsSoFar
  <2>6. HelperSoFar'
    <3>1. \A i \in 1 .. Fields : ~(done' >= 5 + i) /\ ~(done' >= 5 + Fields + i)
      BY <2>1, <2>2
    <3> QED
      BY <2>1, <3>1 DEF HelperSoFar
  <2>7. OwnObservation' /\ FaultsAsRequested'
    BY <2>1 DEF EnvInv, OwnObservation, FaultsAsRequested
  <2> QED
    BY <2>1, <2>2, <2>4, <2>5, <2>6, <2>7 DEF EnvInv
<1>2. CASE Call
  BY <1>2, EnvCallKeeps
<1>3. CASE Exec
  BY <1>3, EnvExecKeeps
<1>4. CASE ChildEnds
  <2>1. /\ kind' = "ended"
        /\ UNCHANGED <<depth, environment, optedIn, child, done, failures>>
    BY <1>4 DEF ChildEnds
  <2> QED
    BY <2>1 DEF EnvInv, EnvTypeOK, OwnObservation, FaultsAsRequested
<1>5. CASE UNCHANGED envVars
  BY <1>5 DEF envVars, EnvInv, EnvTypeOK, OwnObservation, FaultsAsRequested,
     ObservedSoFar, SelfSoFar, FaultsSoFar, HelperSoFar, FaultResult, OptInResult
<1> QED
  BY <1>1, <1>2, <1>3, <1>4, <1>5 DEF EnvNext, EnvTerminating

\* A variable of a child has a value, and an empty one is only ever a request:
\* what the tools act on is never the empty string.
THEOREM EnvTypeCorrect == EnvSpec => []EnvTypeOK
<1>1. EnvInv => EnvTypeOK
  BY DEF EnvInv
<1> QED
  BY <1>1, EnvInvInit, EnvInvNext, PTL DEF EnvSpec

\* However deep captures nest, an observed command writes to the logs of its
\* own capture, and its argument and result values are recorded only if that
\* capture was asked to.
THEOREM OwnObservationHolds == EnvSpec => []OwnObservation
<1>1. EnvInv => OwnObservation
  BY DEF EnvInv
<1> QED
  BY <1>1, EnvInvInit, EnvInvNext, PTL DEF EnvSpec

\* A fault that was asked for of the shell reaches every command nested in it,
\* whatever the number of fields and of captures.
THEOREM FaultsAsRequestedHolds == EnvSpec => []FaultsAsRequested
<1>1. EnvInv => FaultsAsRequested
  BY DEF EnvInv
<1> QED
  BY <1>1, EnvInvInit, EnvInvNext, PTL DEF EnvSpec

\* The calls for a helper name every variable there is.
THEOREM HelperSeesNothingHolds == EnvSpec => []HelperSeesNothing
<1>1. EnvInv => HelperSeesNothing
  <2> SUFFICES ASSUME EnvInv, kind = "helper", done = Len(Calls), failures = 0,
                      NEW v \in Variables
               PROVE  child[v] = Unset
    BY DEF HelperSeesNothing
  <2>1. HelperSoFar /\ done = 5 + Fields + Fields /\ Fields \in Nat
    BY CallsOfKind, FieldsFacts DEF EnvInv
  <2>2. CASE v \in Identity \cup OptIn
    BY <2>1, <2>2 DEF HelperSoFar, Identity, OptIn
  <2>3. ASSUME NEW i \in 1 .. Fields
        PROVE  child[Fault(i)] = Unset /\ child[ChildFault(i)] = Unset
    <3>1. done >= 5 + i /\ done >= 5 + Fields + i
      BY <2>1
    <3> QED
      BY <2>1, <3>1 DEF HelperSoFar
  <2> QED
    BY <2>2, <2>3, VariableNames
<1> QED
  BY <1>1, EnvInvInit, EnvInvNext, PTL DEF EnvSpec

-----------------------------------------------------------------------------
(* MCLaunch: the command line, the paths and the environment together.     *)

\* The invariant of the part that moves, and the types of all three.
LaunchInv ==
    /\ component \in {"run", "capture", "paths", "environment"}
    /\ LaunchTypeOK
    /\ component = "run" => PassInv
    /\ component = "capture" => runPc = "none" /\ CliInv
    /\ component = "paths" => PathsInv
    /\ component = "environment" => EnvInv

\* Makers that stand still.
LEMMA IdlePaths ==
    ASSUME NoPaths, <<"a">> \in Arguments PROVE PathsTypeOK
<1>1. <<>> \in Seq(Chars) /\ Len(<<>>) = 0 /\ 0 < PathLen
  BY EmptySeq, PathLenAssumption
<1> QED
  BY <1>1 DEF NoPaths, PathsTypeOK, Chars

\* An environment that is not there.
LEMMA IdleEnvironment == NoEnvironment => EnvTypeOK
<1> SUFFICES ASSUME NoEnvironment PROVE EnvTypeOK
  OBVIOUS
<1>1. MaxDepth \in Nat /\ MaxFailures \in Nat /\ Fields \in Nat /\ Unset # Empty
  BY DepthAssumption, FailuresAssumption, ValuesAssumption, FieldsFacts
<1>2. [v \in Variables |-> Unset] \in Environments
  BY DEF Environments
<1>3. environment \in [0 .. MaxDepth -> Environments] /\ child = environment[0]
  BY <1>2 DEF NoEnvironment
<1>4. child = [v \in Variables |-> Unset]
  BY <1>1 DEF NoEnvironment
<1>5. optedIn \in [1 .. MaxDepth -> SUBSET OptIn] /\ kind = "none"
  BY DEF NoEnvironment
<1>6. /\ depth = 0 /\ 0 \in 0 .. MaxDepth /\ failures = 0 /\ 0 \in 0 .. MaxFailures
      /\ done = 0 /\ 0 \in 0 .. 10 + 2 * Len(FaultFields)
  BY <1>1 DEF NoEnvironment, Fields
<1> QED
  BY <1>1, <1>2, <1>3, <1>4, <1>5, <1>6, Zenon DEF EnvTypeOK

\* A command line that nobody reads.
LEMMA IdleArguments == NoArguments => CliTypeOK
<1> SUFFICES ASSUME NoArguments PROVE CliTypeOK
  OBVIOUS
<1>1. argv = <<>> /\ err = FALSE /\ posix = FALSE /\ pc = "done"
  BY DEF NoArguments, Start
<1>2. Start(argv, err)
  BY DEF NoArguments, Start
<1>3. argv \in Seq(Words)
  BY <1>1
<1> QED
  BY <1>1, <1>2, <1>3, StartTyped

\* Each part starts with its own invariant.
LEMMA LaunchInvInit ==
    ASSUME LaunchInit, <<"a">> \in Arguments PROVE LaunchInv
<1>1. CASE component = "run" /\ RunInit /\ NoPaths /\ NoEnvironment
  BY <1>1, RunStarts, RunTypesInit, IdlePaths, IdleEnvironment
     DEF LaunchInv, LaunchTypeOK
<1>2. CASE component = "capture" /\ CliInit /\ NoRun /\ NoPaths /\ NoEnvironment
  <2>1. CliInv /\ CliTypeOK
    <3>1. PICK vector \in Vectors, failed \in BOOLEAN : Start(vector, failed)
      BY <1>2 DEF CliInit
    <3>2. argv = vector /\ err = failed /\ argv \in Seq(Words)
      BY <3>1, WordsAssumption DEF Start
    <3>3. posix \in BOOLEAN /\ pc = "parse"
      BY <1>2 DEF CliInit
    <3> QED
      BY <3>1, <3>2, <3>3, StartTyped, StartRead DEF Started
  <2> QED
    BY <1>2, <2>1, IdlePaths, IdleEnvironment DEF NoRun, LaunchInv, LaunchTypeOK
<1>3. CASE component = "paths" /\ NoArguments /\ PathsInit /\ NoEnvironment
  BY <1>3, IdleArguments, PathsInvInit, IdleEnvironment
     DEF LaunchInv, LaunchTypeOK, PathsInv
<1>4. CASE component = "environment" /\ NoArguments /\ NoPaths /\ EnvInit
  BY <1>4, IdleArguments, IdlePaths, EnvInvInit DEF LaunchInv, LaunchTypeOK, EnvInv
<1> QED
  BY <1>1, <1>2, <1>3, <1>4 DEF LaunchInit

\* A part that stands still keeps its types.
LEMMA CliStands == CliTypeOK /\ UNCHANGED cliVars => CliTypeOK'
BY DEF CliTypeOK, cliVars

LEMMA PathsStand == PathsTypeOK /\ UNCHANGED pathsVars => PathsTypeOK'
BY DEF PathsTypeOK, pathsVars

LEMMA EnvStands == EnvTypeOK /\ UNCHANGED envVars => EnvTypeOK'
BY DEF EnvTypeOK, envVars

\* A part that moves keeps its invariant, and the other two their types.
LEMMA LaunchInvNext ==
    ASSUME LaunchInv, [LaunchNext]_<<component, launchVars>> PROVE LaunchInv'
<1>1. CASE ArgumentsMove
  <2>1. /\ component \in {"run", "capture"} /\ RunNext
        /\ component' = component /\ UNCHANGED pathsVars /\ UNCHANGED envVars
    BY <1>1 DEF ArgumentsMove
  <2>2. PathsTypeOK' /\ EnvTypeOK'
    BY <2>1, PathsStand, EnvStands DEF LaunchInv, LaunchTypeOK
  <2>3. CASE component = "run"
    <3>1. PassInv' /\ CliTypeOK'
      BY <2>1, <2>3, PassInvNext, RunTypesKept DEF LaunchInv, LaunchTypeOK
    <3> QED
      BY <2>1, <2>2, <2>3, <3>1 DEF LaunchInv, LaunchTypeOK
  <2>4. CASE component = "capture"
    <3>1. [CliNext]_cliVars /\ runPc' = "none"
      BY <2>1, <2>4 DEF LaunchInv, RunNext, OutputArgument, LogArgument, ToolArgument,
         ArgumentsEnd, MakeDirectory, FillVector, SpawnWithVector, ReadVector,
         RunTerminating, CliNext, runVars
    <3>2. CliInv' /\ CliTypeOK'
      BY <2>4, <3>1, CliInvNext, TypesKept DEF LaunchInv, LaunchTypeOK
    <3> QED
      BY <2>1, <2>2, <2>4, <3>1, <3>2 DEF LaunchInv, LaunchTypeOK
  <2> QED
    BY <2>1, <2>3, <2>4
<1>2. CASE PathsMove
  <2>1. /\ component = "paths" /\ PathsNext
        /\ component' = component /\ UNCHANGED cliVars /\ UNCHANGED envVars
    BY <1>2 DEF PathsMove
  <2>2. PathsInv'
    BY <2>1, PathsInvNext DEF LaunchInv
  <2> QED
    BY <2>1, <2>2, CliStands, EnvStands DEF LaunchInv, LaunchTypeOK, PathsInv
<1>3. CASE EnvironmentMoves
  <2>1. /\ component = "environment" /\ EnvNext
        /\ component' = component /\ UNCHANGED cliVars /\ UNCHANGED pathsVars
    BY <1>3 DEF EnvironmentMoves
  <2>2. EnvInv'
    BY <2>1, EnvInvNext DEF LaunchInv
  <2> QED
    BY <2>1, <2>2, CliStands, PathsStand DEF LaunchInv, LaunchTypeOK, EnvInv
<1>4. CASE UNCHANGED <<component, launchVars>>
  <2>1. /\ component' = component /\ UNCHANGED <<runVars, cliVars>>
        /\ UNCHANGED cliVars /\ UNCHANGED pathsVars /\ UNCHANGED envVars
    BY <1>4 DEF launchVars
  <2>2. LaunchTypeOK'
    BY <2>1, CliStands, PathsStand, EnvStands DEF LaunchInv, LaunchTypeOK
  <2>3. component = "run" => PassInv'
    BY <2>1, PassInvNext DEF LaunchInv
  <2>4. component = "capture" => runPc' = "none" /\ CliInv'
    BY <2>1, CliInvNext DEF LaunchInv, runVars
  <2>5. component = "paths" => PathsInv'
    BY <2>1, PathsInvNext DEF LaunchInv
  <2>6. component = "environment" => EnvInv'
    BY <2>1, EnvInvNext DEF LaunchInv
  <2> QED
    BY <2>1, <2>2, <2>3, <2>4, <2>5, <2>6 DEF LaunchInv
<1> QED
  BY <1>1, <1>2, <1>3, <1>4 DEF LaunchNext

\* The types of the command lines, the paths and the environments, whichever of
\* the three moves, for any of their constants.  <<"a">> is what a maker of
\* MCLaunch wants that never moves.
THEOREM LaunchTypeCorrect ==
    ASSUME <<"a">> \in Arguments PROVE LaunchSpec => []LaunchTypeOK
<1>1. LaunchInit => LaunchInv
  BY LaunchInvInit
<1>2. LaunchInv /\ [LaunchNext]_<<component, launchVars>> => LaunchInv'
  BY LaunchInvNext
<1>3. LaunchInv => LaunchTypeOK
  BY DEF LaunchInv
<1> QED
  BY <1>1, <1>2, <1>3, PTL DEF LaunchSpec
=============================================================================
