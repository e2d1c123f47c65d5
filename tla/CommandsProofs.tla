---------------------------- MODULE CommandsProofs ----------------------------
(***************************************************************************)
(* What the commands of p101-inspect promise, for any arguments, analyses, *)
(* expectations and sizes: the path of inspect-capture is whole, nothing   *)
(* that was loaded leaks, and the verdicts of model verify and model check *)
(* are those of all lines and of all packs.                                *)
(***************************************************************************)
EXTENDS Commands, Expectations, RulePacks, SequenceTheorems,
        FiniteSetTheorems, TLAPS

\* The buffer before and after locate_capture_program.
Located ==
    /\ program \in Seq(Chars)
    /\ pc = "locate" => capture_program = Initially
    /\ CaptureProgramWhole

\* A copy that ends within the buffer changes what it covers, and nothing
\* before it.
LEMMA CopiedFacts ==
    ASSUME NEW size \in Nat, NEW buffer, DOMAIN buffer = 1 .. size,
           NEW offset \in Nat, NEW text, NEW len \in Nat, Len(text) = len,
           offset + len <= size
    PROVE  /\ DOMAIN CopiedTo(buffer, offset, text) = 1 .. size
           /\ \A i \in 1 .. len : CopiedTo(buffer, offset, text)[offset + i] = text[i]
           /\ \A i \in 1 .. offset : CopiedTo(buffer, offset, text)[i] = buffer[i]
<1> DEFINE new == CopiedTo(buffer, offset, text)
<1>1. new = [i \in 1 .. size \cup (offset + 1 .. offset + len) |->
                IF i \in offset + 1 .. offset + len THEN text[i - offset]
                                                    ELSE buffer[i]]
  BY DEF CopiedTo
<1>2. 1 .. size \cup (offset + 1 .. offset + len) = 1 .. size
  <2>1. offset + 1 .. offset + len \subseteq 1 .. size
    OBVIOUS
  <2> QED
    BY <2>1
<1>3. new = [i \in 1 .. size |->
                IF i \in offset + 1 .. offset + len THEN text[i - offset]
                                                    ELSE buffer[i]]
  BY <1>1, <1>2
<1> HIDE DEF new
<1>4. DOMAIN new = 1 .. size
  BY <1>3
<1>5. ASSUME NEW i \in 1 .. len PROVE new[offset + i] = text[i]
  <2>1. /\ offset + i \in 1 .. size
        /\ offset + i \in offset + 1 .. offset + len
        /\ offset + i - offset = i
    OBVIOUS
  <2> QED
    BY <1>3, <2>1
<1>6. ASSUME NEW i \in 1 .. offset PROVE new[i] = buffer[i]
  <2>1. i \in 1 .. size /\ i \notin offset + 1 .. offset + len
    OBVIOUS
  <2> QED
    BY <1>3, <2>1
<1> QED
  BY <1>4, <1>5, <1>6 DEF new

\* The elements of two sequences in a row.
LEMMA ElementsOfTwo ==
    ASSUME NEW S, NEW a \in Seq(S), NEW b \in Seq(S)
    PROVE  /\ a \o b \in Seq(S)
           /\ Len(a \o b) = Len(a) + Len(b)
           /\ \A i \in 1 .. Len(a) : (a \o b)[i] = a[i]
           /\ \A i \in 1 .. Len(b) : (a \o b)[Len(a) + i] = b[i]
<1>1. Len(a) \in Nat /\ Len(b) \in Nat
  BY LenProperties
<1>2. ASSUME NEW i \in 1 .. Len(a) PROVE (a \o b)[i] = a[i]
  <2>1. i \in 1 .. Len(a) + Len(b) /\ i <= Len(a)
    BY <1>1
  <2> QED
    BY <2>1, ConcatProperties
<1>3. ASSUME NEW i \in 1 .. Len(b) PROVE (a \o b)[Len(a) + i] = b[i]
  <2>1. /\ Len(a) + i \in 1 .. Len(a) + Len(b)
        /\ ~(Len(a) + i <= Len(a)) /\ Len(a) + i - Len(a) = i
    BY <1>1
  <2> QED
    BY <2>1, ConcatProperties
<1> QED
  BY <1>2, <1>3, ConcatProperties

\* "/inspect-capture" with its terminator, character by character.
LEMMA SuffixFacts ==
    /\ Len(Name) \in Nat
    /\ Len(Suffix) = Len(Name) + 2
    /\ Suffix[1] = "/"
    /\ \A i \in 1 .. Len(Name) : Suffix[i + 1] = Name[i]
    /\ Suffix[Len(Name) + 2] = NUL
<1> DEFINE All == Chars \cup {NUL}
           head == <<"/">>
           last == <<NUL>>
<1>1. /\ Name \in Seq(All) /\ Len(Name) \in Nat
      /\ \A i \in 1 .. Len(Name) : Name[i] \in All
  BY NamesAssumption, LenProperties
<1>2. /\ head \in Seq(All) /\ Len(head) = 1 /\ head[1] = "/"
      /\ last \in Seq(All) /\ Len(last) = 1 /\ last[1] = NUL
  BY NamesAssumption
<1>3. Suffix = (head \o Name) \o last
  BY DEF Suffix
<1> DEFINE front == head \o Name
           n == Len(Name)
<1>4. n \in Nat /\ n = Len(Name)
  BY <1>1
<1> HIDE DEF All, head, last, n
<1>5. /\ front \in Seq(All) /\ Len(front) = 1 + n
      /\ \A i \in 1 .. 1 : front[i] = head[i]
      /\ \A i \in 1 .. n : front[1 + i] = Name[i]
  <2>1. head \in Seq(All) /\ Name \in Seq(All)
    BY <1>1, <1>2
  <2>2. /\ front \in Seq(All) /\ Len(front) = Len(head) + Len(Name)
        /\ \A i \in 1 .. Len(head) : front[i] = head[i]
        /\ \A i \in 1 .. Len(Name) : front[Len(head) + i] = Name[i]
    BY <2>1, ElementsOfTwo
  <2> HIDE DEF front
  <2>3. Len(head) = 1 /\ Len(Name) = n
    BY <1>2, <1>4
  <2> QED
    BY <2>2, <2>3
<1> HIDE DEF front
<1>6. 1 + n \in Nat
  BY <1>4
<1>7. /\ Len(front \o last) = 1 + n + 1
      /\ \A i \in 1 .. 1 + n : (front \o last)[i] = front[i]
      /\ \A i \in 1 .. 1 : (front \o last)[1 + n + i] = last[i]
  <2> DEFINE both == front \o last
  <2>1. last \in Seq(All) /\ front \in Seq(All)
    BY <1>2, <1>5
  <2>2. /\ Len(both) = Len(front) + Len(last)
        /\ \A i \in 1 .. Len(front) : both[i] = front[i]
        /\ \A i \in 1 .. Len(last) : both[Len(front) + i] = last[i]
    BY <2>1, ElementsOfTwo
  <2> HIDE DEF both
  <2>3. Len(front) = 1 + n /\ Len(last) = 1
    BY <1>2, <1>5
  <2>4. /\ Len(both) = 1 + n + 1
        /\ \A i \in 1 .. 1 + n : both[i] = front[i]
        /\ \A i \in 1 .. 1 : both[1 + n + i] = last[i]
    BY <2>2, <2>3
  <2> QED
    BY <2>4 DEF both
<1>8. 1 + n + 1 = n + 2 /\ 1 \in 1 .. 1 /\ 1 \in 1 .. 1 + n
  BY <1>4
<1>9. (front \o last)[1] = "/"
  BY <1>2, <1>5, <1>7, <1>8
<1>10. (front \o last)[n + 2] = NUL
  BY <1>2, <1>7, <1>8
<1>11. ASSUME NEW i \in 1 .. n PROVE (front \o last)[i + 1] = Name[i]
  <2>1. i + 1 \in 1 .. 1 + n /\ i + 1 = 1 + i
    BY <1>4
  <2> QED
    BY <1>5, <1>7, <2>1
<1>12. Len(front \o last) = n + 2
  BY <1>7, <1>8
<1>13. Suffix = front \o last
  BY <1>3 DEF front
<1>14. /\ n \in Nat /\ Len(Suffix) = n + 2 /\ Suffix[1] = "/"
       /\ \A i \in 1 .. n : Suffix[i + 1] = Name[i]
       /\ Suffix[n + 2] = NUL
  BY <1>4, <1>9, <1>10, <1>11, <1>12, <1>13
<1> QED
  BY <1>14 DEF n

\* The fallback with its terminator, character by character.
LEMMA FallbackFacts ==
    /\ Len(Name \o <<NUL>>) = Len(Name) + 1
    /\ \A i \in 1 .. Len(Name) : (Name \o <<NUL>>)[i] = Name[i]
    /\ (Name \o <<NUL>>)[Len(Name) + 1] = NUL
<1> DEFINE All == Chars \cup {NUL}
           last == <<NUL>>
<1>1. Name \in Seq(All) /\ Len(Name) \in Nat
  BY NamesAssumption, LenProperties
<1>2. last \in Seq(All) /\ Len(last) = 1 /\ last[1] = NUL
  OBVIOUS
<1> HIDE DEF All, last
<1>3. /\ Len(Name \o last) = Len(Name) + 1
      /\ \A i \in 1 .. Len(Name) + 1 :
            (Name \o last)[i] = IF i <= Len(Name) THEN Name[i]
                                ELSE last[i - Len(Name)]
  BY <1>1, <1>2, ConcatProperties
<1>4. /\ \A i \in 1 .. Len(Name) : (Name \o last)[i] = Name[i]
      /\ (Name \o last)[Len(Name) + 1] = last[1]
  BY <1>1, <1>3
<1> QED
  BY <1>2, <1>3, <1>4 DEF last

\* The static initializer is the fallback.
LEMMA InitLocated == Init => Located
<1> SUFFICES ASSUME Init PROVE Located
  OBVIOUS
<1> QED
  BY NamesAssumption DEF Init, Located, CaptureProgramWhole, Initially

\* A name without a slash, or one too long: the fallback is written over
\* itself.
LEMMA FallbackLocated ==
    ASSUME Located, pc = "locate", pc' = "main", program' = program,
           \A k \in LastSlash : ~Fits(k - 1),
           capture_program' = CopiedTo(capture_program, 0, Name \o <<NUL>>)
    PROVE  Located'
<1> DEFINE text == Name \o <<NUL>>
           n == Len(Name)
<1>1. n \in Nat /\ PathSize \in Nat /\ n < PathSize
  BY NamesAssumption, LenProperties
<1>2. Len(text) = n + 1 /\ text[n + 1] = NUL /\ \A i \in 1 .. n : text[i] = Name[i]
  BY FallbackFacts
<1>3. DOMAIN capture_program = 1 .. PathSize
  BY DEF Located, CaptureProgramWhole
<1> HIDE DEF text, n
<1>6. /\ DOMAIN capture_program' = 1 .. PathSize
      /\ \A i \in 1 .. n + 1 : capture_program'[i] = text[i]
  <2>1. 0 + (n + 1) <= PathSize /\ n + 1 \in Nat /\ \A i \in 1 .. n + 1 : 0 + i = i
    BY <1>1
  <2>2. capture_program' = CopiedTo(capture_program, 0, text)
    BY DEF text
  <2>3. /\ DOMAIN CopiedTo(capture_program, 0, text) = 1 .. PathSize
        /\ \A i \in 1 .. n + 1 : CopiedTo(capture_program, 0, text)[0 + i] = text[i]
    BY <1>1, <1>2, <1>3, <2>1, CopiedFacts
  <2> QED
    BY <2>1, <2>2, <2>3
<1>7. Reads(Name)'
  BY <1>1, <1>2, <1>6 DEF Reads, n
<1>8. \A k \in LastSlash : k + Len(Name) >= PathSize
  <2> SUFFICES ASSUME NEW k \in LastSlash PROVE k + n >= PathSize
    BY DEF n
  <2>1. k \in Nat
    BY LenProperties DEF LastSlash, Slashes, Located
  <2>2. ~(k - 1 <= PathSize - (n + 2))
    BY SuffixFacts DEF Fits, n
  <2> QED
    BY <1>1, <2>1, <2>2
<1>9. LastSlash' = LastSlash
  BY DEF LastSlash, Slashes
<1> QED
  BY <1>6, <1>7, <1>8, <1>9 DEF Located, CaptureProgramWhole

\* The path beside p101-inspect: two copies, the second of which ends at the
\* last byte of the buffer at most.
LEMMA BesideLocated ==
    ASSUME Located, pc = "locate", pc' = "main", program' = program,
           NEW k \in LastSlash, Fits(k - 1),
           capture_program' =
              CopiedTo(CopiedTo(CopiedTo(capture_program, 0, Name \o <<NUL>>),
                                0, SubSeq(program, 1, k - 1)),
                       k - 1, Suffix)
    PROVE  Located'
<1> DEFINE n == Len(Name)
           fallback == CopiedTo(capture_program, 0, Name \o <<NUL>>)
           directory == SubSeq(program, 1, k - 1)
           below == CopiedTo(fallback, 0, directory)
           text == SubSeq(program, 1, k) \o Name
<1>1. /\ n \in Nat /\ PathSize \in Nat /\ n < PathSize
      /\ k \in Nat /\ k >= 1 /\ k <= Len(program) /\ Len(program) \in Nat
      /\ program[k] = "/" /\ program \in Seq(Chars)
  BY NamesAssumption, LenProperties DEF Located, LastSlash, Slashes
<1>2. /\ Len(Suffix) = n + 2 /\ Suffix[1] = "/" /\ Suffix[n + 2] = NUL
      /\ \A i \in 1 .. n : Suffix[i + 1] = Name[i]
  BY SuffixFacts
<1>3. k + n + 1 <= PathSize
  <2>1. k - 1 <= PathSize - (n + 2)
    BY <1>2 DEF Fits
  <2> QED
    BY <1>1, <2>1
<1>4. Len(directory) = k - 1 /\ \A i \in 1 .. k - 1 : directory[i] = program[i]
  <2>1. \A i \in 1 .. k - 1 : program[i] \in Chars
    BY <1>1
  <2> QED
    BY <1>1, <2>1, SubSeqProperties
<1>5. /\ Len(text) = k + n
      /\ \A i \in 1 .. k : text[i] = program[i]
      /\ \A i \in 1 .. n : text[k + i] = Name[i]
  <2> DEFINE start == SubSeq(program, 1, k)
  <2>1. \A i \in 1 .. k : program[i] \in Chars
    BY <1>1
  <2>2. /\ start \in Seq(Chars) /\ Len(start) = k
        /\ \A i \in 1 .. k : start[i] = program[i]
    BY <1>1, <2>1, SubSeqProperties
  <2> HIDE DEF start
  <2>3. /\ Len(start \o Name) = k + n
        /\ \A i \in 1 .. k + n :
              (start \o Name)[i] = IF i <= k THEN start[i] ELSE Name[i - k]
    BY <2>2, NamesAssumption, ConcatProperties
  <2>4. /\ \A i \in 1 .. k : (start \o Name)[i] = start[i]
        /\ \A i \in 1 .. n : (start \o Name)[k + i] = Name[i]
    BY <1>1, <2>3
  <2> QED
    BY <2>2, <2>3, <2>4 DEF start
<1>6. DOMAIN fallback = 1 .. PathSize
  <2>1. DOMAIN capture_program = 1 .. PathSize
    BY DEF Located, CaptureProgramWhole
  <2> DEFINE first == Name \o <<NUL>>
  <2>2. Len(first) = n + 1
    BY FallbackFacts
  <2>3. n + 1 \in Nat /\ 0 + (n + 1) <= PathSize
    BY <1>1
  <2>4. fallback = CopiedTo(capture_program, 0, first)
    OBVIOUS
  <2> HIDE DEF n, first, fallback
  <2> QED
    BY <1>1, <2>1, <2>2, <2>3, <2>4, CopiedFacts
<1> HIDE DEF n, fallback, directory, text
<1>7. /\ DOMAIN below = 1 .. PathSize
      /\ \A i \in 1 .. k - 1 : below[i] = program[i]
  <2>1. k - 1 \in Nat /\ 0 + (k - 1) <= PathSize /\ \A i \in 1 .. k - 1 : 0 + i = i
    BY <1>1, <1>3
  <2>2. /\ DOMAIN below = 1 .. PathSize
        /\ \A i \in 1 .. k - 1 : below[0 + i] = directory[i]
    BY <1>1, <1>4, <1>6, <2>1, CopiedFacts
  <2> QED
    BY <1>4, <2>1, <2>2
<1> HIDE DEF below
<1>8. /\ DOMAIN capture_program' = 1 .. PathSize
      /\ \A i \in 1 .. k - 1 : capture_program'[i] = program[i]
      /\ \A i \in 1 .. n + 2 : capture_program'[k - 1 + i] = Suffix[i]
  <2> DEFINE new == CopiedTo(below, k - 1, Suffix)
  <2>1. k - 1 \in Nat /\ n + 2 \in Nat /\ k - 1 + (n + 2) <= PathSize
    BY <1>1, <1>3
  <2>2. /\ DOMAIN new = 1 .. PathSize
        /\ \A i \in 1 .. n + 2 : new[k - 1 + i] = Suffix[i]
        /\ \A i \in 1 .. k - 1 : new[i] = below[i]
    BY ONLY <1>1, <1>2, <1>7, <2>1, CopiedFacts
  <2>3. capture_program' = new
    BY DEF new, below, fallback, directory
  <2> HIDE DEF new
  <2> QED
    BY <1>7, <2>2, <2>3
<1>9. /\ \A i \in 1 .. k : capture_program'[i] = program[i]
      /\ \A i \in 1 .. n : capture_program'[k + i] = Name[i]
      /\ capture_program'[k + n + 1] = NUL
  <2>1. capture_program'[k] = "/"
    <3>1. 1 \in 1 .. n + 2 /\ k - 1 + 1 = k
      BY <1>1
    <3> QED
      BY <1>2, <1>8, <3>1
  <2>2. ASSUME NEW i \in 1 .. n PROVE capture_program'[k + i] = Name[i]
    <3>1. i + 1 \in 1 .. n + 2 /\ k - 1 + (i + 1) = k + i
      BY <1>1
    <3> QED
      BY <1>2, <1>8, <3>1
  <2>3. capture_program'[k + n + 1] = NUL
    <3>1. n + 2 \in 1 .. n + 2 /\ k - 1 + (n + 2) = k + n + 1
      BY <1>1
    <3> QED
      BY <1>2, <1>8, <3>1
  <2>4. ASSUME NEW i \in 1 .. k PROVE capture_program'[i] = program[i]
    <3>1. i \in 1 .. k - 1 \/ i = k
      BY <1>1
    <3> QED
      BY <1>1, <1>8, <2>1, <3>1
  <2> QED
    BY <2>2, <2>3, <2>4
<1>10. Len(text) < PathSize /\ capture_program'[Len(text) + 1] = NUL
  BY <1>1, <1>3, <1>5, <1>9
<1>11. ASSUME NEW i \in 1 .. Len(text) PROVE capture_program'[i] = text[i]
  <2>1. CASE i <= k
    BY <1>1, <1>5, <1>9, <2>1
  <2>2. CASE i > k
    <3>1. i - k \in 1 .. n /\ k + (i - k) = i
      BY <1>1, <1>5, <2>2
    <3> QED
      BY <1>5, <1>9, <3>1
  <2> QED
    BY <1>1, <1>5, <2>1, <2>2
<1>12. Reads(text)'
  BY <1>10, <1>11 DEF Reads, text
<1>13. k \in LastSlash'
  BY DEF LastSlash, Slashes
<1> QED
  BY <1>8, <1>12, <1>13 DEF Located, CaptureProgramWhole, text

\* Nothing else writes to the buffer.
LEMMA NextLocated == Located /\ [Next]_vars => Located'
<1> SUFFICES ASSUME Located, [Next]_vars PROVE Located'
  OBVIOUS
<1>1. CASE LocateCaptureProgram
  BY <1>1, FallbackLocated, BesideLocated DEF LocateCaptureProgram
<1>2. CASE \/ Main \/ Elsewhere \/ LessonCommand \/ FailBeforeLoad
           \/ CreateMember \/ LoadDone \/ LoadFails \/ BodyElsewhere
           \/ ModelExplain \/ InterleavingCommand \/ UnloadAnalysis
  <2>1. UNCHANGED <<program, capture_program>> /\ pc # "locate"
    BY <1>2 DEF Main, Elsewhere, LessonCommand, FailBeforeLoad, CreateMember,
       LoadDone, LoadFails, BodyElsewhere, ModelExplain, InterleavingCommand,
       UnloadAnalysis
  <2>2. pc' # "locate"
    BY <1>2, <2>1 DEF Main, Elsewhere, LessonCommand, FailBeforeLoad,
       CreateMember, LoadDone, LoadFails, BodyElsewhere, ModelExplain,
       InterleavingCommand, UnloadAnalysis, Exits, Verdict, Chosen, Named,
       Model, Loading
  <2> QED
    BY <2>1, <2>2 DEF Located, CaptureProgramWhole, Reads, LastSlash, Slashes
<1>3. CASE UNCHANGED vars
  BY <1>3 DEF vars, Located, CaptureProgramWhole, Reads, LastSlash, Slashes
<1> QED
  BY <1>1, <1>2, <1>3 DEF Next, Terminating

\* The program that capture and run spawn is whole: the inspect-capture beside
\* p101-inspect if the buffer can hold its path, else the bare name.
THEOREM CaptureProgramWholeHolds == Spec => []CaptureProgramWhole
<1>1. Located => CaptureProgramWhole
  BY DEF Located
<1> QED
  BY <1>1, InitLocated, NextLocated, PTL DEF Spec

-----------------------------------------------------------------------------
(* The life of the loaded analysis.                                        *)

Names == {"analyze", "run", "capture", "view", "help", "lesson",
          "interleaving", "verify", "check", "explain", "compare", "usage"}

LEMMA ChosenIsName == Chosen \in Names
BY DEF Chosen, Names, Named

\* An object that is a member was made and is still there; any other was
\* never made or is gone.  Nothing is loaded but between load and the exit.
Life ==
    /\ loaded \subseteq Objects
    /\ made \in [Objects -> 0 .. 1]
    /\ destroyed \in [Objects -> 0 .. 1]
    /\ \A o \in loaded : made[o] = 1 /\ destroyed[o] = 0
    /\ \A o \in Objects \ loaded : destroyed[o] = made[o]
    /\ pc \in {"locate", "main", "load"} =>
          \A o \in Objects \ loaded : made[o] = 0
    /\ pc \notin {"load", "body", "unload"} => loaded = {}
    /\ pc = "body" => loaded = Objects

\* unload_analysis destroys what there is and leaves nothing behind.
LEMMA DestroyAllEmpties ==
    ASSUME Life, DestroyAll
    PROVE  /\ loaded' = {} /\ made' = made
           /\ destroyed' \in [Objects -> 0 .. 1]
           /\ \A o \in Objects : destroyed'[o] = made'[o]
<1>1. /\ loaded' = {} /\ made' = made
      /\ destroyed' = [o \in Objects |-> IF o \in loaded THEN destroyed[o] + 1
                                                       ELSE destroyed[o]]
  BY DEF DestroyAll
<1>2. \A o \in Objects : destroyed'[o] = made[o] /\ made[o] \in 0 .. 1
  BY <1>1 DEF Life
<1>3. destroyed' \in [Objects -> 0 .. 1]
  BY <1>1, <1>2
<1> QED
  BY <1>1, <1>2, <1>3

LEMMA LifeInit == Init => Life
BY DEF Init, Life

LEMMA LifeNext == Life /\ [Next]_vars => Life'
<1> SUFFICES ASSUME Life, [Next]_vars PROVE Life'
  OBVIOUS
<1>1. CASE LocateCaptureProgram
  BY <1>1 DEF LocateCaptureProgram, Life, lifeVars
<1>2. CASE Main
  <2>1. UNCHANGED <<loaded, made, destroyed>> /\ pc = "main"
    BY <1>2 DEF Main, lifeVars
  <2>2. pc' \in {"done", "load"} \cup (Names \ {"usage", "help"})
    BY <1>2, ChosenIsName DEF Main, Exits
  <2> QED
    BY <2>1, <2>2 DEF Life, Names
<1>3. CASE Elsewhere \/ LessonCommand \/ FailBeforeLoad
  <2>1. UNCHANGED <<loaded, made, destroyed>> /\ loaded = {} /\ pc' = "done"
    BY <1>3 DEF Elsewhere, LessonCommand, FailBeforeLoad, Exits, lifeVars, Life
  <2> QED
    BY <2>1 DEF Life
<1>4. CASE CreateMember
  <2>1. PICK i \in 1 .. 3 :
           /\ loaded = {CreateOrder[j] : j \in 1 .. i - 1}
           /\ loaded' = loaded \cup {CreateOrder[i]}
           /\ made' = [made EXCEPT ![CreateOrder[i]] = @ + 1]
    BY <1>4 DEF CreateMember
  <2>2. PICK o \in Objects : o = CreateOrder[i] /\ o \notin loaded
    <3>1. CASE i = 1
      <4>1. loaded = {}
        BY <2>1, <3>1
      <4> QED
        BY <3>1, <4>1 DEF CreateOrder, Objects
    <3>2. CASE i = 2
      <4>1. loaded = {"err"}
        BY <2>1, <3>2 DEF CreateOrder
      <4> QED
        BY <3>2, <4>1 DEF CreateOrder, Objects
    <3>3. CASE i = 3
      <4>1. loaded = {"err", "model"}
        <5>1. 1 .. i - 1 = {1, 2}
          BY <3>3
        <5> QED
          BY <2>1, <5>1 DEF CreateOrder
      <4> QED
        BY <3>3, <4>1 DEF CreateOrder, Objects
    <3> QED
      BY <3>1, <3>2, <3>3
  <2>3. made[o] = 0 /\ destroyed[o] = 0 /\ pc = "load"
    BY <1>4, <2>2 DEF CreateMember, Life
  <2>4. /\ loaded' = loaded \cup {o} /\ made' = [made EXCEPT ![o] = 1]
        /\ UNCHANGED <<destroyed, pc>>
    <3>1. made' = [made EXCEPT ![o] = made[o] + 1]
      BY <2>1, <2>2
    <3> QED
      <4>1. UNCHANGED <<destroyed, pc>>
        BY <1>4 DEF CreateMember
      <4>2. made[o] + 1 = 1
        BY <2>3
      <4> QED
        BY <2>1, <2>2, <3>1, <4>1, <4>2
  <2> QED
    BY <2>2, <2>3, <2>4 DEF Life
<1>5. CASE LoadDone
  BY <1>5 DEF LoadDone, Life, lifeVars
<1>6. CASE LoadFails
  <2>1. pc' \in {"unload", "done"}
    BY <1>6 DEF LoadFails, Exits
  <2>2. Life /\ DestroyAll
    BY <1>6 DEF LoadFails
  <2> QED
    BY <2>1, <2>2, DestroyAllEmpties DEF Life
<1>7. CASE BodyElsewhere \/ ModelExplain \/ InterleavingCommand
  <2>1. UNCHANGED <<loaded, made, destroyed>> /\ pc' = "unload"
    BY <1>7 DEF BodyElsewhere, ModelExplain, InterleavingCommand, Verdict, lifeVars
  <2> QED
    BY <2>1 DEF Life
<1>8. CASE UnloadAnalysis
  <2>1. pc' = "done" /\ DestroyAll
    BY <1>8 DEF UnloadAnalysis
  <2> QED
    BY <2>1, DestroyAllEmpties DEF Life
<1>9. CASE UNCHANGED vars
  BY <1>9 DEF vars, Life
<1> QED
  BY <1>1, <1>2, <1>3, <1>4, <1>5, <1>6, <1>7, <1>8, <1>9 DEF Next, Terminating

\* Every object load_analysis_directory makes is destroyed once, wherever it
\* fails and whichever command called it.
THEOREM NothingLeaksHolds == Spec => []NothingLeaks
<1>1. Life => NothingLeaks
  <2> SUFFICES ASSUME Life PROVE NothingLeaks
    OBVIOUS
  <2>1. \A o \in Objects : destroyed[o] <= made[o] /\ made[o] <= 1
    BY DEF Life
  <2>2. pc = "body" => \A o \in Objects : destroyed[o] < made[o]
    BY DEF Life
  <2>3. pc = "done" => destroyed = made
    BY DEF Life
  <2> QED
    BY <2>1, <2>2, <2>3 DEF NothingLeaks
<1>2. Init => Life
  BY LifeInit
<1> QED
  BY <1>1, <1>2, LifeNext, PTL DEF Spec

-----------------------------------------------------------------------------
(* model check.                                                            *)

LEMMA PackRules ==
    /\ RulePack["concurrency"] =
          <<Forbid("P101-POLICY-SYNC-001", "P101-SYNC-*")>>
    /\ RulePack["resource-clean"] =
          <<Forbid("P101-POLICY-RESOURCE-001", "P101-FD-*"),
            Forbid("P101-POLICY-RESOURCE-002", "P101-ALLOC-*"),
            Forbid("P101-POLICY-RESOURCE-003", "P101-RESOURCE-*")>>
    /\ RulePack["secure-c"] = SecureC
BY DEF RulePack, PackNames

\* The rules of every pack can be gone through one by one.
LEMMA PackLength ==
    ASSUME NEW pack \in PackNames
    PROVE  /\ Len(RulePack[pack]) \in Nat
           /\ DOMAIN RulePack[pack] = 1 .. Len(RulePack[pack])
<1>1. CASE pack = "concurrency"
  BY <1>1, PackRules
<1>2. CASE pack = "resource-clean"
  BY <1>2, PackRules
<1>3. CASE pack = "secure-c"
  BY <1>3, PackRules DEF SecureC
<1> QED
  BY <1>1, <1>2, <1>3 DEF PackNames

\* A rule of these packs is violated if there is a finding like its pattern.
LEMMA ForbidViolated ==
    ASSUME NEW identifier, NEW pattern
    PROVE  Violated(Forbid(identifier, pattern))
              <=> AnalysisHasFinding(checkLoaded, pattern)
BY DEF Violated, RuleHasEvidence, Forbid, Rule

\* Every pattern of a pack is one of secure-c.
LEMMA SecureIsStrictest ==
    ASSUME NEW pack \in PackNames, Breaks(pack)
    PROVE  Breaks("secure-c")
<1> DEFINE Has(pattern) == AnalysisHasFinding(checkLoaded, pattern)
<1>1. Breaks("secure-c") <=>
         Has("P101-FD-*") \/ Has("P101-ALLOC-*") \/ Has("P101-RESOURCE-*")
         \/ Has("P101-SYNC-*")
  <2>1. DOMAIN SecureC = 1 .. 4
    BY DEF SecureC
  <2>2. /\ Violated(SecureC[1]) <=> Has("P101-FD-*")
        /\ Violated(SecureC[2]) <=> Has("P101-ALLOC-*")
        /\ Violated(SecureC[3]) <=> Has("P101-RESOURCE-*")
        /\ Violated(SecureC[4]) <=> Has("P101-SYNC-*")
    BY ForbidViolated DEF SecureC
  <2>3. \A i \in 1 .. 4 : i = 1 \/ i = 2 \/ i = 3 \/ i = 4
    OBVIOUS
  <2> HIDE DEF Has
  <2> QED
    BY <2>1, <2>2, <2>3, PackRules DEF Breaks
<1>2. CASE pack = "concurrency"
  <2>1. Violated(Forbid("P101-POLICY-SYNC-001", "P101-SYNC-*"))
    BY <1>2, PackRules DEF Breaks
  <2> QED
    BY <1>1, <2>1, ForbidViolated
<1>3. CASE pack = "resource-clean"
  <2>1. \/ Violated(Forbid("P101-POLICY-RESOURCE-001", "P101-FD-*"))
        \/ Violated(Forbid("P101-POLICY-RESOURCE-002", "P101-ALLOC-*"))
        \/ Violated(Forbid("P101-POLICY-RESOURCE-003", "P101-RESOURCE-*"))
    BY <1>3, PackRules DEF Breaks
  <2> QED
    BY <1>1, <2>1, ForbidViolated
<1>4. CASE pack = "secure-c"
  BY <1>4
<1> QED
  BY <1>2, <1>3, <1>4 DEF PackNames

\* The arguments before the one looked at are pairs, of whose packs there is
\* a violation if and only if one is broken.
BrokenBefore == \E i \in 1 .. index : i % 2 = 0 /\ Breaks(checkArgv[i])

CheckInv ==
    /\ checkArgv \in Seq(STRING)
    /\ index \in 0 .. Len(checkArgv) /\ index % 2 = 0
    /\ rule_index \in Nat
    /\ violations \in Nat
    /\ \A i \in 1 .. index :
          IF i % 2 = 1 THEN checkArgv[i] = "--rules"
          ELSE checkArgv[i] \in PackNames
    /\ checkPc \in {"load", "pack"} => rule_index = 0
    /\ checkPc \in {"load", "pack"} => (violations > 0 <=> BrokenBefore)
    /\ checkPc = "rule" =>
          /\ IsPair
          /\ violations > 0 <=>
                \/ BrokenBefore
                \/ \E i \in 1 .. rule_index :
                      /\ i \in DOMAIN RulePack[checkArgv[index + 2]]
                      /\ Violated(RulePack[checkArgv[index + 2]][i])
    /\ CheckedAgainstAll

LEMMA CheckInvInit == CheckInit => CheckInv
<1> SUFFICES ASSUME CheckInit PROVE CheckInv
  OBVIOUS
<1>1. checkArgv \in Seq(STRING) /\ Len(checkArgv) \in Nat
  BY VectorsAssumption, LenProperties DEF CheckInit
<1> QED
  BY <1>1 DEF CheckInit, CheckInv, BrokenBefore, CheckedAgainstAll

LEMMA CheckInvNext == CheckInv /\ [CheckNext]_checkVars => CheckInv'
<1> SUFFICES ASSUME CheckInv, [CheckNext]_checkVars PROVE CheckInv'
  OBVIOUS
<1>1. /\ Len(checkArgv) \in Nat /\ index \in Nat
      /\ DOMAIN checkArgv = 1 .. Len(checkArgv)
  BY LenProperties DEF CheckInv
<1>2. ASSUME UNCHANGED <<checkArgv, index, checkLoaded>>
      PROVE  /\ BrokenBefore' <=> BrokenBefore
             /\ IsPair' <=> IsPair
             /\ \A pack : Breaks(pack)' <=> Breaks(pack)
             /\ \A rule : Violated(rule)' <=> Violated(rule)
  BY <1>2 DEF BrokenBefore, Breaks, IsPair, Violated, RuleHasEvidence
<1>3. CASE LoadToCheck
  <2>1. UNCHANGED <<checkArgv, index, rule_index, checkLoaded, violations>>
    BY <1>3 DEF LoadToCheck
  <2>2. /\ checkPc = "load"
        /\ checkPc' = "pack" \/ (checkPc' = "done" /\ checkExit' = "trouble")
    BY <1>3 DEF LoadToCheck, CheckExits
  <2> QED
    BY <1>2, <2>1, <2>2 DEF CheckInv, CheckedAgainstAll
<1>4. CASE FindRulePack
  <2>1. UNCHANGED <<checkArgv, index, rule_index, checkLoaded, violations>>
    BY <1>4 DEF FindRulePack
  <2>2. /\ checkPc = "pack"
        /\ \/ checkPc' = "rule" /\ IsPair
           \/ checkPc' = "done" /\ checkExit' = "trouble"
    BY <1>4 DEF FindRulePack, CheckExits
  <2>3. rule_index = 0
    BY <2>2 DEF CheckInv
  <2> QED
    BY <1>2, <2>1, <2>2, <2>3 DEF CheckInv, CheckedAgainstAll
<1>5. CASE CheckRule
  <2> DEFINE rules == RulePack[checkArgv[index + 2]]
             r == rule_index + 1
  <2>1. /\ checkPc = "rule" /\ rule_index < Len(rules) /\ rule_index' = r
        /\ UNCHANGED <<checkArgv, index, checkLoaded>>
        /\ \/ ~Violated(rules[r]) /\ violations' = violations /\ checkPc' = checkPc
           \/ /\ Violated(rules[r]) /\ violations' = violations + 1
              /\ checkPc' = checkPc
           \/ /\ checkPc' = "done" /\ checkExit' = "trouble"
              /\ violations' = violations
    BY <1>5 DEF CheckRule, CheckExits
  <2>2. /\ IsPair /\ rule_index \in Nat /\ violations \in Nat
        /\ violations > 0 <=>
               \/ BrokenBefore
               \/ \E i \in 1 .. rule_index : i \in DOMAIN rules /\ Violated(rules[i])
    BY <2>1 DEF CheckInv
  <2>3. /\ Len(rules) \in Nat /\ DOMAIN rules = 1 .. Len(rules)
    BY <2>2, PackLength DEF IsPair
  <2>4. r \in DOMAIN rules /\ 1 .. r = 1 .. rule_index \cup {r}
    BY <2>1, <2>2, <2>3
  <2>5. rules' = rules
    BY <2>1
  <2>6. CASE checkPc' = "rule"
    <3>1. violations' \in Nat /\ rule_index' \in Nat
      BY <2>1, <2>2
    <3>2. violations' > 0 <=>
             \/ BrokenBefore
             \/ \E i \in 1 .. r : i \in DOMAIN rules /\ Violated(rules[i])
      <4> HIDE DEF r, rules
      <4>1. violations' > 0 <=> violations > 0 \/ Violated(rules[r])
        BY <2>1, <2>2, <2>6
      <4> QED
        BY <2>2, <2>4, <4>1
    <3> QED
      BY <1>2, <2>1, <2>2, <2>5, <2>6, <3>1, <3>2 DEF CheckInv, CheckedAgainstAll
  <2>7. CASE checkPc' = "done" /\ checkExit' = "trouble" /\ violations' = violations
    BY <1>2, <2>1, <2>2, <2>7 DEF CheckInv, CheckedAgainstAll
  <2> QED
    BY <2>1, <2>6, <2>7
<1>6. CASE PackDone
  <2> DEFINE pack == checkArgv[index + 2]
  <2>1. /\ checkPc = "rule" /\ rule_index = Len(RulePack[pack])
        /\ rule_index' = 0 /\ index' = index + 2 /\ checkPc' = "pack"
        /\ UNCHANGED <<checkArgv, checkLoaded, violations>>
    BY <1>6 DEF PackDone
  <2>2. /\ index + 1 < Len(checkArgv) /\ checkArgv[index + 1] = "--rules"
        /\ pack \in PackNames
        /\ violations > 0 <=>
               \/ BrokenBefore
               \/ \E i \in 1 .. rule_index :
                     i \in DOMAIN RulePack[pack] /\ Violated(RulePack[pack][i])
    BY <2>1 DEF CheckInv, IsPair
  <2>3. violations > 0 <=> BrokenBefore \/ Breaks(pack)
    BY <2>1, <2>2, PackLength DEF Breaks
  <2>4. /\ index + 2 \in 0 .. Len(checkArgv) /\ (index + 2) % 2 = 0
        /\ (index + 1) % 2 = 1 /\ 1 .. index + 2 = 1 .. index \cup {index + 1, index + 2}
    BY <1>1, <2>2 DEF CheckInv
  <2>5. \A q : Breaks(q)' <=> Breaks(q)
    BY <2>1 DEF Breaks, Violated, RuleHasEvidence
  <2>6. BrokenBefore' <=> BrokenBefore \/ Breaks(pack)
    BY <2>1, <2>4, <2>5 DEF BrokenBefore
  <2>7. \A i \in 1 .. index + 2 :
           IF i % 2 = 1 THEN checkArgv[i] = "--rules" ELSE checkArgv[i] \in PackNames
    BY <2>2, <2>4 DEF CheckInv
  <2> HIDE DEF pack
  <2> QED
    BY <2>1, <2>3, <2>4, <2>6, <2>7 DEF CheckInv, CheckedAgainstAll
<1>7. CASE CheckDone
  <2>1. /\ checkPc = "pack" /\ index >= Len(checkArgv) /\ checkPc' = "done"
        /\ checkExit' = IF violations = 0 THEN "success" ELSE "findings"
        /\ UNCHANGED <<checkArgv, index, rule_index, checkLoaded, violations>>
    BY <1>7 DEF CheckDone, CheckExits
  <2>2. index = Len(checkArgv) /\ violations \in Nat
    <3> DEFINE n == Len(checkArgv)
    <3>1. /\ n \in Nat /\ index \in Nat /\ index \in 0 .. n /\ index >= n
          /\ violations \in Nat
      BY <1>1, <2>1 DEF CheckInv
    <3> HIDE DEF n
    <3>2. index = n
      BY <3>1
    <3> QED
      BY <3>1, <3>2 DEF n
  <2>3. checkExit' = "findings" <=>
           \E i \in DOMAIN checkArgv : i % 2 = 0 /\ Breaks(checkArgv[i])
    <3>1. violations > 0 <=> BrokenBefore
      BY <2>1 DEF CheckInv
    <3>2. checkExit' = "findings" <=> violations > 0
      BY <2>1, <2>2
    <3> QED
      BY <1>1, <2>2, <3>1, <3>2 DEF BrokenBefore
  <2>4. \A i \in DOMAIN checkArgv :
           IF i % 2 = 1 THEN checkArgv[i] = "--rules" ELSE checkArgv[i] \in PackNames
    BY <1>1, <2>2 DEF CheckInv
  <2>5. checkExit' = "findings" => Breaks("secure-c")
    <3> SUFFICES ASSUME checkExit' = "findings" PROVE Breaks("secure-c")
      OBVIOUS
    <3>1. PICK i \in DOMAIN checkArgv : i % 2 = 0 /\ Breaks(checkArgv[i])
      BY <2>3
    <3>2. i % 2 # 1
      BY <3>1
    <3>3. checkArgv[i] \in PackNames
      BY <2>4, <3>2
    <3> QED
      BY <3>1, <3>3, SecureIsStrictest
  <2>6. Len(checkArgv) % 2 = 0
    BY <2>2 DEF CheckInv
  <2>7. CheckedAgainstAll'
    BY <1>2, <2>1, <2>3, <2>4, <2>5, <2>6 DEF CheckedAgainstAll
  <2> QED
    BY <1>2, <2>1, <2>7 DEF CheckInv
<1>8. CASE UNCHANGED checkVars
  <2>1. UNCHANGED <<checkArgv, index, rule_index, checkLoaded, violations,
                    checkPc, checkExit>>
    BY <1>8 DEF checkVars
  <2> QED
    BY <1>2, <2>1 DEF CheckInv, CheckedAgainstAll
<1> QED
  BY <1>3, <1>4, <1>5, <1>6, <1>7, <1>8 DEF CheckNext, CheckTerminating

\* model check decides all the packs it is given, for argument vectors of any
\* length and whatever was loaded.
THEOREM CheckedAgainstAllHolds == CheckSpec => []CheckedAgainstAll
<1>1. CheckInv => CheckedAgainstAll
  BY DEF CheckInv
<1> QED
  BY <1>1, CheckInvInit, CheckInvNext, PTL DEF CheckSpec
-----------------------------------------------------------------------------
(* The verdict of model verify: what the loop has read of the file.        *)

\* The lines up to n whose condition does not hold.
Missed(n) == {i \in 2 .. n : ~IsSkipped(file[i]) /\ ~Satisfied(file[i])}

\* The lines up to n are read: none is malformed, and those with a condition
\* that does not hold are reported and counted.
ReadTo(n) ==
    /\ \A i \in 2 .. n : IsSkipped(file[i]) \/ ~IsMalformed(file[i])
    /\ reported = Missed(n)
    /\ IsFiniteSet(reported)
    /\ failures = Cardinality(reported)

\* The stream holds the lines behind n.
Behind(n) ==
    /\ rest \in Seq({file[i] : i \in DOMAIN file})
    /\ Len(rest) = Len(file) - n
    /\ \A i \in 1 .. Len(rest) : rest[i] = file[n + i]

\* Before the header there is nothing to report; at a line, the lines before it
\* are read; after the last without a failure, they all are.
VerifyInv ==
    /\ file \in ExpectationFiles \cup {NoFile}
    /\ facts \in VerifyLoads
    /\ receipt_status \in {"success", "findings"}
    /\ verifyPc \in {"load", "open", "header", "line", "close", "done"}
    /\ verifyPc \in {"load", "open", "header"} =>
          /\ reported = {} /\ failures = 0 /\ ~verifyFailed
          /\ verifyPc # "load" => file # NoFile
    /\ verifyPc = "header" => rest = file
    /\ verifyPc \in {"line", "close"} => file # NoFile
    /\ verifyPc = "line" =>
          /\ ~verifyFailed
          /\ Len(file) >= 1 /\ file[1] = Header
          /\ line_number \in 1 .. Len(file)
          /\ Behind(line_number)
          /\ ReadTo(line_number)
    /\ verifyPc = "close" /\ ~verifyFailed =>
          Len(file) >= 1 /\ file[1] = Header /\ ReadTo(Len(file))
    /\ verifyPc = "done" /\ verifyExit # "trouble" =>
          /\ file # NoFile => Len(file) >= 1 /\ file[1] = Header
          /\ ReadTo(Len(file))
          /\ verifyExit = "success" <=> failures = 0

\* A file is a sequence, and so is no file at all.
LEMMA FileFacts ==
    ASSUME file \in ExpectationFiles \cup {NoFile}
    PROVE  /\ file \in Seq({file[i] : i \in DOMAIN file})
           /\ Len(file) \in Nat
           /\ DOMAIN file = 1 .. Len(file)
<1> DEFINE S == {file[i] : i \in DOMAIN file}
<1>1. file \in Seq(S)
  <2>1. CASE file \in ExpectationFiles
    BY <2>1, FilesAssumption
  <2>2. CASE file = NoFile
    <3>1. NoFile[1] \in {NoFile[i] : i \in DOMAIN NoFile}
      BY DEF NoFile
    <3>2. NoFile \in Seq({NoFile[i] : i \in DOMAIN NoFile})
      BY <3>1 DEF NoFile
    <3> QED
      BY <2>2, <3>2
  <2> QED
    BY <2>1, <2>2
<1> HIDE DEF S
<1>2. Len(file) \in Nat /\ DOMAIN file = 1 .. Len(file)
  BY <1>1, LenProperties
<1> QED
  BY <1>1, <1>2 DEF S

\* What is read stays read while the file, the facts and the reports do.
LEMMA ReadToStays ==
    ASSUME NEW n,
           UNCHANGED <<file, facts, receipt_status, reported, failures>>
    PROVE  ReadTo(n)' <=> ReadTo(n)
BY DEF ReadTo, Missed, Satisfied

LEMMA BehindStays ==
    ASSUME NEW n, UNCHANGED <<file, rest>>
    PROVE  Behind(n)' <=> Behind(n)
BY DEF Behind

\* Behind the header no line is read yet, and nothing is reported.
LEMMA NoneRead ==
    ASSUME NEW n \in Nat, n <= 1, reported = {}, failures = 0
    PROVE  ReadTo(n)
<1>1. 2 .. n = {}
  OBVIOUS
<1> QED
  BY <1>1, FS_EmptySet DEF ReadTo, Missed

LEMMA VerifyInvInit == VerifyInit => VerifyInv
BY DEF VerifyInit, VerifyInv

\* A line that ReadLine gets past is read, and the stream holds one less.
LEMMA LineIsRead ==
    ASSUME VerifyInv, ReadLine, verifyPc' = "line", NEW n, n = line_number
    PROVE  /\ line_number' = n + 1 /\ n + 1 \in 1 .. Len(file)
           /\ Behind(n + 1)'
           /\ ReadTo(n + 1)'
<1> DEFINE S == {file[i] : i \in DOMAIN file}
           line == Head(rest)
<1>1. /\ verifyPc = "line" /\ rest # <<>> /\ rest' = Tail(rest)
      /\ line_number' = n + 1
      /\ UNCHANGED <<file, facts, receipt_status>>
  BY DEF ReadLine, NextLine
<1>2. /\ n \in 1 .. Len(file) /\ Behind(n) /\ ReadTo(n)
      /\ Len(file) \in Nat
  BY <1>1, FileFacts DEF VerifyInv
<1>3. /\ rest \in Seq(S) /\ Len(rest) = Len(file) - n
      /\ \A i \in 1 .. Len(rest) : rest[i] = file[n + i]
  BY <1>2 DEF Behind
<1> HIDE DEF S
<1>4. /\ Tail(rest) \in Seq(S) /\ Len(Tail(rest)) = Len(rest) - 1
      /\ \A i \in 1 .. Len(Tail(rest)) : Tail(rest)[i] = rest[i + 1]
      /\ Len(rest) \in Nat \ {0}
  BY <1>1, <1>3, HeadTailProperties, EmptySeq
<1>5. n + 1 \in 1 .. Len(file)
  BY <1>2, <1>3, <1>4
<1>6. line = file[n + 1]
  <2>1. line = rest[1]
    OBVIOUS
  <2>2. 1 \in 1 .. Len(rest)
    BY <1>4
  <2> QED
    BY <1>3, <2>1, <2>2
<1>7. Behind(n + 1)'
  <2>1. Len(rest') = Len(file) - (n + 1)
    BY <1>1, <1>2, <1>3, <1>4
  <2>2. ASSUME NEW i \in 1 .. Len(rest') PROVE rest'[i] = file[n + 1 + i]
    <3>1. rest'[i] = rest[i + 1] /\ i + 1 \in 1 .. Len(rest)
      BY <1>1, <1>4
    <3>2. n + (i + 1) = n + 1 + i
      BY <1>2
    <3> QED
      BY <1>3, <3>1, <3>2
  <2>3. rest' \in Seq({file'[i] : i \in DOMAIN file'})
    BY <1>1, <1>4 DEF S
  <2> QED
    BY <1>1, <2>1, <2>2, <2>3 DEF Behind
<1> HIDE DEF line
<1>8. \/ /\ IsSkipped(line) \/ (~IsMalformed(line) /\ Satisfied(line))
         /\ UNCHANGED <<failures, reported>>
      \/ /\ ~IsSkipped(line) /\ ~IsMalformed(line) /\ ~Satisfied(line)
         /\ reported' = reported \cup {n + 1}
         /\ failures' = failures + 1
  BY <1>1 DEF ReadLine, line
<1>9. /\ \A i \in 2 .. n + 1 : IsSkipped(file[i]) \/ ~IsMalformed(file[i])
      /\ reported' = Missed(n + 1)
      /\ IsFiniteSet(reported')
      /\ failures' = Cardinality(reported')
  <2>1. 2 .. n + 1 = (2 .. n) \cup {n + 1} /\ n + 1 \notin 2 .. n
    BY <1>2
  <2>2. /\ \A i \in 2 .. n : IsSkipped(file[i]) \/ ~IsMalformed(file[i])
        /\ reported = Missed(n) /\ IsFiniteSet(reported)
        /\ failures = Cardinality(reported)
    BY <1>2 DEF ReadTo
  <2>3. \A i \in 2 .. n + 1 : IsSkipped(file[i]) \/ ~IsMalformed(file[i])
    BY <1>6, <1>8, <2>1, <2>2
  <2>4. CASE /\ IsSkipped(line) \/ (~IsMalformed(line) /\ Satisfied(line))
             /\ UNCHANGED <<failures, reported>>
    <3>1. Missed(n + 1) = Missed(n)
      BY <1>6, <2>1, <2>4 DEF Missed
    <3> QED
      BY <2>2, <2>3, <2>4, <3>1
  <2>5. CASE /\ ~IsSkipped(line) /\ ~IsMalformed(line) /\ ~Satisfied(line)
             /\ reported' = reported \cup {n + 1}
             /\ failures' = failures + 1
    <3>1. Missed(n + 1) = Missed(n) \cup {n + 1}
      BY <1>6, <2>1, <2>5 DEF Missed
    <3>2. n + 1 \notin reported
      BY <2>1, <2>2 DEF Missed
    <3>3. /\ IsFiniteSet(reported \cup {n + 1})
          /\ Cardinality(reported \cup {n + 1}) = Cardinality(reported) + 1
      BY <2>2, <3>2, FS_AddElement
    <3> QED
      BY <2>2, <2>3, <2>5, <3>1, <3>3
  <2> QED
    BY <1>8, <2>4, <2>5
<1>10. ReadTo(n + 1)'
  BY <1>1, <1>9 DEF ReadTo, Missed, Satisfied
<1> QED
  BY <1>1, <1>5, <1>7, <1>10

LEMMA VerifyInvNext == VerifyInv /\ [VerifyNext]_verifyVars => VerifyInv'
<1> SUFFICES ASSUME VerifyInv, [VerifyNext]_verifyVars PROVE VerifyInv'
  OBVIOUS
<1> USE FileFacts
<1>1. CASE LoadToVerify
  <2>1. /\ verifyPc = "load" /\ reported = {} /\ failures = 0 /\ ~verifyFailed
        /\ UNCHANGED <<file, facts, receipt_status, reported, failures,
                       verifyFailed>>
    BY <1>1 DEF LoadToVerify, VerifyInv
  <2>2. CASE VerifyExits("trouble")
    BY <2>1, <2>2 DEF VerifyExits, VerifyInv
  <2>3. CASE file # NoFile /\ verifyPc' = "open"
    BY <2>1, <2>3 DEF VerifyInv
  <2>4. CASE file = NoFile /\ VerifyExits("success")
    <3>1. Len(file) = 1
      BY <2>4 DEF NoFile
    <3>2. ReadTo(1)
      BY <2>1, NoneRead
    <3>3. ReadTo(1)'
      BY <2>1, <3>2, ReadToStays
    <3>4. Len(file') = 1
      BY <2>1, <3>1
    <3>5. ReadTo(Len(file))'
      BY <3>3, <3>4 DEF ReadTo, Missed
    <3> QED
      BY <2>1, <2>4, <3>5 DEF VerifyExits, VerifyInv
  <2> QED
    BY <1>1, <2>2, <2>3, <2>4 DEF LoadToVerify
<1>2. CASE OpenExpectations
  BY <1>2 DEF OpenExpectations, VerifyExits, VerifyInv
<1>3. CASE ReadHeader
  <2>1. /\ verifyPc = "header" /\ reported = {} /\ failures = 0 /\ ~verifyFailed
        /\ rest = file /\ file # NoFile /\ line_number' = 1
        /\ UNCHANGED <<file, facts, receipt_status, reported, failures>>
    BY <1>3 DEF ReadHeader, VerifyInv
  <2>2. CASE verifyFailed' = TRUE /\ verifyPc' = "close"
    BY <2>1, <2>2 DEF VerifyInv
  <2>3. CASE /\ rest # <<>> /\ Head(rest) = Header /\ rest' = Tail(rest)
             /\ verifyPc' = "line" /\ UNCHANGED verifyFailed
    <3> DEFINE S == {file[i] : i \in DOMAIN file}
    <3>1. file \in Seq(S) /\ Len(file) \in Nat /\ file # <<>>
      BY <2>1, <2>3 DEF VerifyInv
    <3> HIDE DEF S
    <3>2. /\ Tail(file) \in Seq(S) /\ Len(Tail(file)) = Len(file) - 1
          /\ \A i \in 1 .. Len(Tail(file)) : Tail(file)[i] = file[i + 1]
          /\ Len(file) \in Nat \ {0}
      BY <3>1, HeadTailProperties, EmptySeq
    <3>3. file[1] = Header /\ Len(file) >= 1
      BY <2>1, <2>3, <3>2
    <3>4. Behind(1)'
      <4>1. \A i \in 1 .. Len(rest') : rest'[i] = file[1 + i]
        BY <2>1, <2>3, <3>2
      <4> QED
        BY <2>1, <2>3, <3>2, <4>1 DEF Behind, S
    <3>5. ReadTo(1)'
      BY <2>1, NoneRead, ReadToStays
    <3>6. Behind(line_number)' /\ ReadTo(line_number)'
      BY <2>1, <3>4, <3>5 DEF Behind, ReadTo, Missed
    <3>7. line_number' \in 1 .. Len(file')
      BY <2>1, <3>2
    <3> QED
      BY <2>1, <2>3, <3>3, <3>6, <3>7 DEF VerifyInv
  <2> QED
    BY <1>3, <2>2, <2>3 DEF ReadHeader
<1>4. CASE ReadLine
  <2>1. /\ verifyPc = "line" /\ ~verifyFailed
        /\ UNCHANGED <<file, facts, receipt_status, verifyExit>>
        /\ file # NoFile /\ Len(file) >= 1 /\ file[1] = Header
    BY <1>4 DEF ReadLine, VerifyInv
  <2>2. CASE verifyPc' = "line" /\ ~verifyFailed'
    <3> PICK n : n = line_number
      OBVIOUS
    <3>1. /\ line_number' = n + 1 /\ n + 1 \in 1 .. Len(file)
          /\ Behind(n + 1)'
          /\ ReadTo(n + 1)'
      BY <1>4, <2>2, LineIsRead
    <3>2. Behind(line_number)' /\ ReadTo(line_number)'
      BY <3>1 DEF Behind, ReadTo, Missed
    <3> QED
      BY <2>1, <2>2, <3>1, <3>2 DEF VerifyInv
  <2>3. CASE verifyPc' = "close" /\ verifyFailed' = TRUE
    BY <2>1, <2>3 DEF VerifyInv
  <2>4. \/ verifyPc' = "line" /\ ~verifyFailed'
        \/ verifyPc' = "close" /\ verifyFailed' = TRUE
    BY <1>4, <2>1 DEF ReadLine
  <2> QED
    BY <2>2, <2>3, <2>4
<1>5. CASE EndOfFile
  <2>1. /\ verifyPc = "line" /\ ~verifyFailed /\ verifyPc' = "close"
        /\ UNCHANGED <<file, rest, facts, receipt_status, line_number, failures,
                       reported, verifyExit>>
        /\ file # NoFile /\ Len(file) >= 1 /\ file[1] = Header
        /\ line_number \in 1 .. Len(file)
        /\ Behind(line_number) /\ ReadTo(line_number) /\ Len(file) \in Nat
    BY <1>5 DEF EndOfFile, VerifyInv
  <2>2. CASE verifyFailed'
    BY <2>1, <2>2 DEF VerifyInv
  <2>3. CASE rest = <<>>
    <3>1. Len(file) - line_number = 0
      BY <2>1, <2>3 DEF Behind
    <3>2. line_number = Len(file)
      BY <2>1, <3>1
    <3>3. ReadTo(Len(file))
      BY <2>1, <3>2
    <3>4. ReadTo(Len(file))'
      BY <2>1, <3>3, ReadToStays DEF ReadTo, Missed, Satisfied
    <3> QED
      BY <2>1, <3>4 DEF VerifyInv
  <2> QED
    BY <1>5, <2>2, <2>3 DEF EndOfFile
<1>6. CASE CloseExpectations
  <2>1. /\ verifyPc = "close" /\ verifyPc' = "done"
        /\ verifyExit' = "trouble" \/ verifyExit' = VerdictStatus
        /\ UNCHANGED <<file, rest, facts, receipt_status, line_number, failures,
                       reported, verifyFailed>>
    BY <1>6 DEF CloseExpectations, VerifyExits
  <2>2. CASE verifyExit' = "trouble"
    BY <2>1, <2>2 DEF VerifyInv
  <2>3. CASE verifyExit' = VerdictStatus /\ verifyExit' # "trouble"
    <3>1. ~verifyFailed
      BY <2>3 DEF VerdictStatus
    <3>2. Len(file) >= 1 /\ file[1] = Header /\ ReadTo(Len(file))
      BY <2>1, <3>1 DEF VerifyInv
    <3>3. ReadTo(Len(file))'
      BY <2>1, <3>2 DEF ReadTo, Missed, Satisfied
    <3>4. failures \in Nat
      <4>1. IsFiniteSet(reported) /\ failures = Cardinality(reported)
        BY <3>2 DEF ReadTo
      <4> QED
        BY <4>1, FS_CardinalityType
    <3>5. verifyExit' = "success" <=> failures = 0
      BY <2>3, <3>1, <3>4 DEF VerdictStatus
    <3> QED
      BY <2>1, <3>2, <3>3, <3>5 DEF VerifyInv
  <2> QED
    BY <2>1, <2>2, <2>3
<1>7. CASE UNCHANGED verifyVars
  <2>1. UNCHANGED <<file, rest, facts, receipt_status, line_number, failures,
                    reported, verifyFailed, verifyPc, verifyExit>>
    BY <1>7 DEF verifyVars
  <2> QED
    BY <2>1 DEF VerifyInv, Behind, ReadTo, Missed, Satisfied
<1> QED
  BY <1>1, <1>2, <1>3, <1>4, <1>5, <1>6, <1>7 DEF VerifyNext, VerifyTerminating

\* With its numbers plain, a line that is well formed holds exactly if it does
\* as a reader means it.
LEMMA SatisfiedAsMeant ==
    ASSUME VerifyInv, NEW i \in DOMAIN file, file \in ExpectationFiles,
           HasPlainNumber(file[i]), ~IsSkipped(file[i]), ~IsMalformed(file[i])
    PROVE  Satisfied(file[i]) <=> Means(file[i])
<1> DEFINE line == file[i]
<1>1. /\ Modulus \in Nat
      /\ Len(facts.findings) \in 0 .. Modulus - 1
      /\ Len(facts.nodes) \in 0 .. Modulus - 1
  BY AmountsAssumption DEF VerifyInv
<1>2. line.key \in {"finding_count", "min_nodes"} => line.value.digits \in Nat
  BY FilesAssumption
<1> HIDE DEF line
<1>3. HasPlainNumber(line) /\ ~IsMalformed(line)
  BY DEF line
<1>4. CASE line.key = "finding_count"
  <2>1. IsPlain(line.value)
    BY <1>3, <1>4 DEF HasPlainNumber
  <2>2. Satisfied(line) <=> Counted(Len(facts.findings), line.value)
    BY <1>4 DEF Satisfied
  <2>3. Means(line) <=>
           ~line.value.tail /\ Len(facts.findings) = line.value.digits
    BY <1>4 DEF Means
  <2>4. Counted(Len(facts.findings), line.value) <=>
           /\ line.value.digits < Modulus /\ ~line.value.tail
           /\ Len(facts.findings) = line.value.digits
    BY <2>1 DEF Counted, Strtoul, IsPlain
  <2>5. Len(facts.findings) = line.value.digits => line.value.digits < Modulus
    BY <1>1
  <2>6. Satisfied(line) <=> Means(line)
    BY <2>2, <2>3, <2>4, <2>5
  <2> QED
    BY <2>6 DEF line
<1>5. CASE line.key = "min_nodes"
  <2>1. IsPlain(line.value)
    BY <1>3, <1>5 DEF HasPlainNumber
  <2>2. Satisfied(line) <=> AtLeast(Len(facts.nodes), line.value)
    BY <1>5 DEF Satisfied
  <2>3. Means(line) <=>
           ~line.value.tail /\ Len(facts.nodes) >= line.value.digits
    BY <1>5 DEF Means
  <2>4. AtLeast(Len(facts.nodes), line.value) <=>
           /\ line.value.digits < Modulus /\ ~line.value.tail
           /\ Len(facts.nodes) >= line.value.digits
    BY <2>1 DEF AtLeast, Strtoul, IsPlain
  <2>5. Len(facts.nodes) >= line.value.digits => line.value.digits < Modulus
    BY <1>1, <1>2, <1>5
  <2>6. Satisfied(line) <=> Means(line)
    BY <2>2, <2>3, <2>4, <2>5
  <2> QED
    BY <2>6 DEF line
<1>6. CASE line.key = "min_edges"
  <2>1. line.value.colon /\ Strtoul(line.value.number).ok
    BY <1>3, <1>6 DEF IsMalformed, EdgeLineOK
  <2>2. IsPlain(line.value.number)
    BY <1>3, <1>6, <2>1 DEF HasPlainNumber
  <2>3. Satisfied(line) <=>
           AtLeast(EdgeCount(facts, line.value.name), line.value.number)
    BY <1>6 DEF Satisfied
  <2>4. Strtoul(line.value.number).value = line.value.number.digits
    BY <2>2 DEF Strtoul, IsPlain
  <2>5. Means(line) <=>
           EdgeCount(facts, line.value.name) >= line.value.number.digits
    BY <1>6 DEF Means
  <2>6. Satisfied(line) <=> Means(line)
    BY <2>1, <2>3, <2>4, <2>5 DEF AtLeast
  <2> QED
    BY <2>6 DEF line
<1>7. CASE line.key \notin {"finding_count", "min_nodes", "min_edges"}
  <2>1. Means(line) <=> Satisfied(line)
    BY <1>7 DEF Means
  <2> QED
    BY <2>1 DEF line
<1> QED
  BY <1>4, <1>5, <1>6, <1>7

\* model verify answers for the file as a set of conditions, for files of any
\* length and whatever was loaded.
THEOREM VerdictIsOfTheLinesHolds == VerifySpec => []VerdictIsOfTheLines
<1>1. VerifyInv => VerdictIsOfTheLines
  <2> DEFINE Body == {file[i] : i \in 2 .. Len(file)}
  <2> SUFFICES ASSUME VerifyInv, verifyPc = "done", verifyExit # "trouble",
                      file # NoFile
               PROVE  /\ file[1] = Header
                      /\ \A line \in Body : IsSkipped(line) \/ ~IsMalformed(line)
                      /\ (\A line \in Body : HasPlainNumber(line)) =>
                            (verifyExit = "success" <=>
                               \A line \in Body : IsSkipped(line) \/ Means(line))
    BY DEF VerdictIsOfTheLines
  <2>1. /\ file[1] = Header /\ ReadTo(Len(file))
        /\ verifyExit = "success" <=> failures = 0
        /\ file \in ExpectationFiles
    BY DEF VerifyInv
  <2>2. Len(file) \in Nat /\ DOMAIN file = 1 .. Len(file)
    BY FileFacts DEF VerifyInv
  <2>3. \A i \in 2 .. Len(file) : IsSkipped(file[i]) \/ ~IsMalformed(file[i])
    BY <2>1 DEF ReadTo
  <2>4. verifyExit = "success" <=> Missed(Len(file)) = {}
    <3>1. /\ reported = Missed(Len(file)) /\ IsFiniteSet(reported)
          /\ failures = Cardinality(reported)
      BY <2>1 DEF ReadTo
    <3> QED
      BY <2>1, <3>1, FS_EmptySet
  <2>5. ASSUME \A i \in 2 .. Len(file) : HasPlainNumber(file[i])
        PROVE  verifyExit = "success" <=>
                  \A i \in 2 .. Len(file) : IsSkipped(file[i]) \/ Means(file[i])
    <3>1. ASSUME NEW i \in 2 .. Len(file)
          PROVE  IsSkipped(file[i]) \/ Satisfied(file[i])
                    <=> IsSkipped(file[i]) \/ Means(file[i])
      <4>1. i \in DOMAIN file
        BY <2>2
      <4> QED
        BY <2>1, <2>3, <2>5, <4>1, SatisfiedAsMeant
    <3>2. Missed(Len(file)) = {}
             <=> \A i \in 2 .. Len(file) : IsSkipped(file[i]) \/ Satisfied(file[i])
      BY DEF Missed
    <3> QED
      BY <2>4, <3>1, <3>2
  <2> QED
    BY <2>1, <2>3, <2>5
<1> QED
  BY <1>1, VerifyInvInit, VerifyInvNext, PTL DEF VerifySpec

\* Every condition that does not hold is reported once, at its own line.
THEOREM DiagnosticsNameTheirLinesHolds ==
    VerifySpec => []DiagnosticsNameTheirLines
<1>1. VerifyInv => DiagnosticsNameTheirLines
  BY DEF VerifyInv, DiagnosticsNameTheirLines, ReadTo, Missed
<1> QED
  BY <1>1, VerifyInvInit, VerifyInvNext, PTL DEF VerifySpec
=============================================================================
