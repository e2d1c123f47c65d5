--------------------------- MODULE CommandLineProofs ---------------------------
(***************************************************************************)
(* Theorems about the command lines: how inspect-capture reads any vector  *)
(* of any length, whatever getopt does with operands, and how run fills    *)
(* the vector it is called with.                                           *)
(***************************************************************************)
EXTENDS RunArguments, SequenceTheorems, WellFoundedInduction, TLAPS

-----------------------------------------------------------------------------
(* Recursive functions.                                                    *)

\* A set of natural numbers that is not empty has a least one.
LEMMA LeastNumber ==
    ASSUME NEW T, T \subseteq Nat, T # {}
    PROVE  \E n \in T : \A m \in T : n <= m
<1>1. PICK n \in T : \A m \in T : ~ (<<m, n>> \in OpToRel(<, Nat))
  BY NatLessThanWellFounded, WFMin
<1>2. \A m \in T : ~ (m < n)
  BY <1>1 DEF OpToRel
<1> QED
  BY <1>2

\* Induction, over a set.
LEMMA Induction ==
    ASSUME NEW S, 0 \in S, \A n \in Nat : n \in S => n + 1 \in S
    PROVE  Nat \subseteq S
<1> SUFFICES ASSUME Nat \ S # {} PROVE FALSE
  OBVIOUS
<1>1. PICK n \in Nat \ S : \A m \in Nat \ S : n <= m
  BY LeastNumber
<1>2. n # 0 /\ n - 1 \in Nat /\ n - 1 \in S
  BY <1>1
<1> QED
  BY <1>1, <1>2

\* Each element is taken or not, and not behind one that is and wants it: the
\* form of IsValue and of IsRunValue.
Alternates(f, wants, n) ==
    f = [i \in 0 .. n |-> i > 1 /\ wants[i - 1] /\ ~f[i - 1]]

LEMMA AlternatesExists ==
    ASSUME NEW wants
    PROVE  \A n \in Nat : \E f : Alternates(f, wants, n)
<1> DEFINE S == {n \in Nat : \E f : Alternates(f, wants, n)}
<1>1. 0 \in S
  <2> DEFINE f == [i \in 0 .. 0 |-> FALSE]
  <2>1. [i \in 0 .. 0 |-> i > 1 /\ wants[i - 1] /\ ~f[i - 1]] = f
    <3>1. \A i \in 0 .. 0 : ~ (i > 1)
      OBVIOUS
    <3> QED
      BY <3>1
  <2> QED
    BY <2>1 DEF Alternates
<1>2. ASSUME NEW n \in Nat, n \in S PROVE n + 1 \in S
  <2>1. PICK f : Alternates(f, wants, n)
    BY <1>2
  <2> DEFINE g == [i \in 0 .. n + 1 |-> i > 1 /\ wants[i - 1] /\ ~f[i - 1]]
  <2>2. \A i \in 0 .. n : g[i] = f[i]
    BY <2>1 DEF Alternates
  <2>3. \A i \in 0 .. n + 1 : i > 1 => i - 1 \in 0 .. n
    OBVIOUS
  <2>4. \A i \in 0 .. n + 1 :
           (i > 1 /\ wants[i - 1] /\ ~f[i - 1]) = (i > 1 /\ wants[i - 1] /\ ~g[i - 1])
    <3> SUFFICES ASSUME NEW i \in 0 .. n + 1
                 PROVE  (i > 1 /\ wants[i - 1] /\ ~f[i - 1])
                           <=> (i > 1 /\ wants[i - 1] /\ ~g[i - 1])
      OBVIOUS
    <3> CASE i > 1
      BY <2>2, <2>3
    <3> QED
      OBVIOUS
  <2>5. Alternates(g, wants, n + 1)
    BY <2>4 DEF Alternates
  <2> QED
    BY <2>5
<1>3. Nat \subseteq S
  <2> HIDE DEF S
  <2> QED
    BY <1>1, <1>2, Induction
<1> QED
  BY <1>3

\* Which arguments are values, step by step.
LEMMA ValuesRead ==
    ASSUME argv \in Seq(Words)
    PROVE  \A i \in 0 .. Len(argv) + 1 :
              IsValue[i] <=> i > 1 /\ WantsValue(argv[i - 1]) /\ ~IsValue[i - 1]
<1> DEFINE wants == [i \in 0 .. Len(argv) |-> WantsValue(argv[i])]
<1>1. Len(argv) + 1 \in Nat
  OBVIOUS
<1>2. PICK n, w : n \in Nat /\ n = Len(argv) + 1 /\ w = wants
  BY <1>1
<1>3. PICK f : Alternates(f, w, n)
  BY <1>2, AlternatesExists
<1>4. f = [i \in 0 .. Len(argv) + 1 |-> i > 1 /\ WantsValue(argv[i - 1]) /\ ~f[i - 1]]
  <2>1. \A i \in 0 .. n :
           (i > 1 /\ w[i - 1] /\ ~f[i - 1]) = (i > 1 /\ WantsValue(argv[i - 1]) /\ ~f[i - 1])
    BY <1>2
  <2> QED
    BY <1>2, <1>3, <2>1 DEF Alternates
<1>5. IsValue = [i \in 0 .. Len(argv) + 1 |->
                    i > 1 /\ WantsValue(argv[i - 1]) /\ ~IsValue[i - 1]]
  BY <1>4 DEF IsValue
<1> QED
  BY <1>5

\* Each element of a sequence is kept or not: the form of OperandsTo.
Collects(f, keep, list, n) ==
    f = [i \in 0 .. n |-> IF i = 0 THEN <<>>
                          ELSE IF keep[i] THEN Append(f[i - 1], list[i])
                                          ELSE f[i - 1]]

LEMMA CollectsExists ==
    ASSUME NEW keep, NEW list
    PROVE  \A n \in Nat : \E f : Collects(f, keep, list, n)
<1> DEFINE S == {n \in Nat : \E f : Collects(f, keep, list, n)}
           Step0(f, i) == IF i = 0 THEN <<>>
                          ELSE IF keep[i] THEN Append(f[i - 1], list[i])
                                          ELSE f[i - 1]
<1>1. 0 \in S
  <2> DEFINE f == [i \in 0 .. 0 |-> <<>>]
  <2>1. f = [i \in 0 .. 0 |-> Step0(f, i)]
    <3>1. \A i \in 0 .. 0 : Step0(f, i) = <<>>
      OBVIOUS
    <3> HIDE DEF Step0
    <3> QED
      BY <3>1
  <2>2. Collects(f, keep, list, 0)
    BY <2>1 DEF Collects
  <2> QED
    BY <2>2
<1>2. ASSUME NEW n \in Nat, n \in S PROVE n + 1 \in S
  <2>1. PICK f : Collects(f, keep, list, n)
    BY <1>2
  <2> DEFINE g == [i \in 0 .. n + 1 |-> Step0(f, i)]
  <2>2. \A i \in 0 .. n : g[i] = f[i]
    <3>1. f = [i \in 0 .. n |-> Step0(f, i)]
      BY <2>1 DEF Collects
    <3> HIDE DEF Step0
    <3> QED
      BY <3>1
  <2>3. \A i \in 0 .. n + 1 : i # 0 => i - 1 \in 0 .. n
    OBVIOUS
  <2>4. \A i \in 0 .. n + 1 : Step0(f, i) = Step0(g, i)
    <3> SUFFICES ASSUME NEW i \in 0 .. n + 1 PROVE Step0(f, i) = Step0(g, i)
      OBVIOUS
    <3> CASE i # 0
      BY <2>2, <2>3
    <3> QED
      OBVIOUS
  <2>5. Collects(g, keep, list, n + 1)
    BY <2>4 DEF Collects
  <2> QED
    BY <2>5
<1>3. Nat \subseteq S
  <2> HIDE DEF S
  <2> QED
    BY <1>1, <1>2, Induction
<1> QED
  BY <1>3

LEMMA OperandsRecursion ==
    ASSUME argv \in Seq(Words)
    PROVE  \A i \in 0 .. Len(argv) :
              OperandsTo[i] = IF i = 0 THEN <<>>
                              ELSE IF ~IsValue[i] /\ IsOperand(argv[i])
                                   THEN Append(OperandsTo[i - 1], argv[i])
                                   ELSE OperandsTo[i - 1]
<1> DEFINE keeps == [i \in 0 .. Len(argv) |-> ~IsValue[i] /\ IsOperand(argv[i])]
<1>1. PICK n, k, l : n \in Nat /\ n = Len(argv) /\ k = keeps /\ l = argv
  <2>1. Len(argv) \in Nat
    OBVIOUS
  <2> HIDE DEF keeps
  <2> QED
    BY <2>1
<1>2. PICK f : Collects(f, k, l, n)
  BY <1>1, CollectsExists
<1>3. f = [i \in 0 .. Len(argv) |->
              IF i = 0 THEN <<>>
              ELSE IF ~IsValue[i] /\ IsOperand(argv[i])
                   THEN Append(f[i - 1], argv[i]) ELSE f[i - 1]]
  <2>1. \A i \in 0 .. n :
           (IF i = 0 THEN <<>>
            ELSE IF k[i] THEN Append(f[i - 1], l[i]) ELSE f[i - 1])
           = (IF i = 0 THEN <<>>
              ELSE IF ~IsValue[i] /\ IsOperand(argv[i])
                   THEN Append(f[i - 1], argv[i]) ELSE f[i - 1])
    BY <1>1
  <2> HIDE DEF keeps
  <2> QED
    BY <1>1, <1>2, <2>1 DEF Collects
<1>4. OperandsTo = [i \in 0 .. Len(argv) |->
              IF i = 0 THEN <<>>
              ELSE IF ~IsValue[i] /\ IsOperand(argv[i])
                   THEN Append(OperandsTo[i - 1], argv[i]) ELSE OperandsTo[i - 1]]
  BY <1>3 DEF OperandsTo
<1> QED
  BY <1>4

LEMMA OperandsKept ==
    ASSUME argv \in Seq(Words)
    PROVE  /\ OperandsTo[0] = <<>>
           /\ \A i \in 1 .. Len(argv) :
                 OperandsTo[i] = IF ~IsValue[i] /\ IsOperand(argv[i])
                                 THEN Append(OperandsTo[i - 1], argv[i])
                                 ELSE OperandsTo[i - 1]
<1>1. 0 \in 0 .. Len(argv) /\ \A i \in 1 .. Len(argv) : i \in 0 .. Len(argv) /\ i # 0
  OBVIOUS
<1> QED
  BY <1>1, OperandsRecursion

\* What is read of the same arguments is the same.
LEMMA ReadingStays ==
    ASSUME argv' = argv
    PROVE  IsValue' = IsValue /\ OperandsTo' = OperandsTo
<1>1. IsValue' = IsValue
  BY DEF IsValue
<1>2. OperandsTo' = OperandsTo
  BY <1>1 DEF OperandsTo
<1> QED
  BY <1>1, <1>2

-----------------------------------------------------------------------------
(* Cli.                                                                    *)

\* The argument getopt read last.
Latest == argv[optind - 1]

\* A letter that was acted on, in an option that is not a value.
Acted(i, k) ==
    /\ i < optind /\ ~IsValue[i] /\ IsOption(argv[i])
    /\ i = optind - 1 => k <= Len(Letters[argv[i]]) - Len(cluster)

\* What getopt went through, also when it met a mistake there.
Passed ==
    /\ \A i \in 1 .. optind - 1 : ~IsValue[i] => argv[i] # "--"
    /\ DOMAIN options = {"flags", "report_dir"} /\ options.flags \subseteq Flags
    /\ \A flag \in options.flags :
          \E i \in DOMAIN argv : IsOption(argv[i]) /\
              \E k \in DOMAIN Letters[argv[i]] :
                  Acted(i, k) /\ Letters[argv[i]][k] = flag

\* Where it is: in front of an argument that is no value, or in a cluster.
Between ==
    IF cluster = <<>> THEN ~IsValue[optind]
    ELSE /\ optind > 1 /\ ~IsValue[optind - 1] /\ IsOption(Latest)
         /\ cluster \in Seq(STRING)
         /\ Len(cluster) <= Len(Letters[Latest])
         /\ \A j \in DOMAIN cluster :
               cluster[j] = Letters[Latest][Len(Letters[Latest]) - Len(cluster) + j]
         /\ value = IF Latest \in DOMAIN Attached THEN Attached[Latest] ELSE Null

\* What was understood of it.
Understood ==
    /\ posix => \A i \in 1 .. optind - 1 : ~IsValue[i] => IsOption(argv[i])
    /\ operands = OperandsTo[optind - 1]
    /\ \/ operands = <<>>
       \/ \E i \in 1 .. optind - 1 : ~IsValue[i] /\ ~IsOption(argv[i])
    /\ \A i \in DOMAIN argv : IsOption(argv[i]) =>
          \A k \in DOMAIN Letters[argv[i]] : Acted(i, k) =>
              /\ Letters[argv[i]][k] \in options.flags \cup {"o"}
              /\ Letters[argv[i]][k] = "o" => options.report_dir # Null
    /\ options.report_dir # Null =>
          \E i \in DOMAIN argv :
              /\ IsOption(argv[i]) /\ Acted(i, Len(Letters[argv[i]]))
              /\ \/ /\ argv[i] \in DOMAIN Attached
                    /\ options.report_dir = Attached[argv[i]]
                 \/ /\ WantsValue(argv[i]) /\ i < Len(argv)
                    /\ options.report_dir = argv[i + 1]

Stopped ==
    /\ cluster = <<>>
    /\ optind <= Len(argv) =>
          argv[optind] = "--" \/ (posix /\ IsOperand(argv[optind]))
    /\ command = CommandArgv

\* A letter that is none, or an -o that has no value.
Mistaken(i) ==
    /\ ~IsValue[i] /\ IsOption(argv[i])
    /\ \/ \E k \in DOMAIN Letters[argv[i]] : Letters[argv[i]][k] \notin Flags \cup {"o"}
       \/ WantsValue(argv[i]) /\ i = Len(argv)

\* An error is from before, or for a reason.
Blamed ==
    \/ optind = 1
    \/ "h" \in options.flags
    \/ pc = "done" /\ ~Acceptable /\ Between /\ Understood /\ Stopped
    \/ \E i \in 1 .. optind - 1 : Mistaken(i)

CliInv ==
    /\ argv \in Seq(Words) /\ optind \in 1 .. Len(argv) + 1
    /\ pc \in {"unborn", "parse", "parsed", "run", "done"}
    /\ argv = <<"--help">> =>
          pc # "run" /\ (pc = "parsed" => "h" \in options.flags)
    /\ argv # <<"--help">> =>
          /\ Passed
          /\ err => Blamed
          /\ ~err => Between /\ Understood
          /\ ~err /\ pc \notin {"unborn", "parse"} => Stopped
    /\ pc = "run" => ~err /\ "h" \notin options.flags /\ Acceptable
    /\ pc = "done" /\ exit # "trouble" => ~err

\* What is left of argv begins at optind.
LEMMA LeftFacts ==
    ASSUME argv \in Seq(Words), optind \in 1 .. Len(argv) + 1
    PROVE  /\ Left # <<>> <=> optind <= Len(argv)
           /\ optind <= Len(argv) =>
                 /\ Head(Left) = argv[optind]
                 /\ Tail(Left) = SubSeq(argv, optind + 1, Len(argv))
           /\ SubSeq(argv, Len(argv) + 1, Len(argv)) = <<>>
           /\ SubSeq(argv, Len(argv) + 2, Len(argv)) = <<>>
<1> DEFINE n == Len(argv)
<1>1. n \in Nat /\ \A i \in 1 .. n : argv[i] \in Words
  BY LenProperties
<1>2. /\ Left \in Seq(Words)
      /\ Len(Left) = IF optind <= n THEN n - optind + 1 ELSE 0
      /\ \A j \in 1 .. n - optind + 1 : Left[j] = argv[optind + j - 1]
  BY <1>1, SubSeqProperties DEF Left
<1>3. Left # <<>> <=> optind <= Len(argv)
  BY <1>1, <1>2, EmptySeq
<1>4. /\ SubSeq(argv, n + 1, n) \in Seq(Words) /\ Len(SubSeq(argv, n + 1, n)) = 0
      /\ SubSeq(argv, n + 2, n) \in Seq(Words) /\ Len(SubSeq(argv, n + 2, n)) = 0
  BY <1>1, SubSeqProperties
<1>5. ASSUME optind <= n
      PROVE  Head(Left) = argv[optind] /\ Tail(Left) = SubSeq(argv, optind + 1, n)
  <2>1. Left # <<>> /\ Len(Left) = n - optind + 1
    BY <1>2, <1>3, <1>5
  <2>2. Head(Left) = argv[optind]
    BY <1>1, <1>2, <1>5, <2>1
  <2>3. /\ Tail(Left) \in Seq(Words) /\ Len(Tail(Left)) = n - optind
        /\ \A j \in 1 .. n - optind : Tail(Left)[j] = Left[j + 1]
    BY <1>1, <1>2, <1>5, <2>1, HeadTailProperties
  <2>4. /\ SubSeq(argv, optind + 1, n) \in Seq(Words)
        /\ Len(SubSeq(argv, optind + 1, n)) = n - optind
        /\ \A j \in 1 .. n - optind : SubSeq(argv, optind + 1, n)[j] = argv[optind + j]
    BY <1>1, <1>5, SubSeqProperties
  <2>5. \A j \in 1 .. n - optind : Tail(Left)[j] = SubSeq(argv, optind + 1, n)[j]
    BY <1>1, <1>2, <1>5, <2>3, <2>4
  <2>6. Tail(Left) = SubSeq(argv, optind + 1, n)
    BY <2>3, <2>4, <2>5, SeqEqual
  <2> QED
    BY <2>2, <2>6
<1> QED
  BY <1>3, <1>4, <1>5, EmptySeq

LEMMA LettersFacts ==
    ASSUME NEW word, IsOption(word)
    PROVE  /\ Letters[word] \in Seq(STRING) /\ Len(Letters[word]) \in Nat \ {0}
           /\ DOMAIN Letters[word] = 1 .. Len(Letters[word])
           /\ \A k \in 1 .. Len(Letters[word]) - 1 : Letters[word][k] # "o"
           /\ word \in DOMAIN Attached =>
                 Letters[word][Len(Letters[word])] = "o" /\ Attached[word] # Null
           /\ WantsValue(word) <=>
                 Letters[word][Len(Letters[word])] = "o" /\ word \notin DOMAIN Attached
           /\ word # "--"
<1>1. Letters[word] \in Seq(STRING) /\ Letters[word] # <<>>
  BY LettersAssumption DEF IsOption
<1> QED
  BY <1>1, LettersAssumption, WordsAssumption, LenProperties, EmptySeq
     DEF IsOption, WantsValue

\* The argument at optind is there and is a word.
LEMMA WordFacts ==
    ASSUME argv \in Seq(Words)
    PROVE  /\ Len(argv) \in Nat /\ DOMAIN argv = 1 .. Len(argv)
           /\ \A i \in 1 .. Len(argv) : argv[i] \in Words /\ argv[i] # Null
BY WordsAssumption, LenProperties

\* Nothing but the rest of main's state changes.
LEMMA GetoptStands ==
    ASSUME UNCHANGED <<posix, argv, optind, cluster, value, operands, options>>
    PROVE  /\ Passed' <=> Passed
           /\ Between' <=> Between
           /\ Understood' <=> Understood
           /\ \A i : Mistaken(i)' <=> Mistaken(i)
<1>1. IsValue' = IsValue /\ OperandsTo' = OperandsTo
  BY ReadingStays
<1>2. \A i, k : Acted(i, k)' <=> Acted(i, k)
  BY <1>1 DEF Acted
<1>3. Passed' <=> Passed
  BY <1>1, <1>2 DEF Passed
<1>4. Between' <=> Between
  BY <1>1 DEF Between, Latest
<1>5. Understood' <=> Understood
  BY <1>1, <1>2 DEF Understood
<1>6. \A i : Mistaken(i)' <=> Mistaken(i)
  BY <1>1 DEF Mistaken
<1> QED
  BY <1>3, <1>4, <1>5, <1>6

\* What a step of getopt leaves behind it.
Moved == Passed' /\ (err' => Blamed') /\ (~err' => Between' /\ Understood')

LEMMA NextArgumentMoves ==
    ASSUME CliInv, NextArgument PROVE Moved
<1> DEFINE p == optind
           n == Len(argv)
<1>1. /\ argv # <<"--help">> /\ ~err /\ cluster = <<>> /\ p <= n
      /\ IsOption(argv[p])
      /\ cluster' = Letters[argv[p]]
      /\ value' = IF argv[p] \in DOMAIN Attached THEN Attached[argv[p]] ELSE Null
      /\ optind' = p + 1
      /\ UNCHANGED <<posix, argv, operands, options, err>>
  BY DEF NextArgument
<1>2. /\ argv \in Seq(Words) /\ p \in 1 .. n /\ n \in Nat /\ DOMAIN argv = 1 .. n
      /\ Passed /\ Between /\ Understood
  BY <1>1, WordFacts DEF CliInv
<1>3. IsValue' = IsValue /\ OperandsTo' = OperandsTo
  BY <1>1, ReadingStays
<1>4. ~IsValue[p]
  BY <1>1, <1>2 DEF Between
<1>5. \A i \in DOMAIN argv : IsOption(argv[i]) => \A k \in DOMAIN Letters[argv[i]] :
         Acted(i, k)' <=> Acted(i, k)
  <2> SUFFICES ASSUME NEW i \in DOMAIN argv, IsOption(argv[i]),
                      NEW k \in DOMAIN Letters[argv[i]]
               PROVE  Acted(i, k)' <=> Acted(i, k)
    OBVIOUS
  <2>1. /\ i \in 1 .. n /\ k \in 1 .. Len(Letters[argv[i]])
        /\ Len(Letters[argv[i]]) \in Nat
    BY <1>2, LettersFacts
  <2>2. Acted(i, k)' <=> i < p /\ ~IsValue[i]
    <3>1. Acted(i, k)' <=>
            /\ i < p + 1 /\ ~IsValue[i]
            /\ i = p => k <= Len(Letters[argv[i]]) - Len(Letters[argv[p]])
      BY <1>1, <1>2, <1>3, <2>1 DEF Acted, IsOption
    <3>2. CASE i = p
      <4>1. ~ (k <= Len(Letters[argv[i]]) - Len(Letters[argv[p]]))
        BY <2>1, <3>2
      <4> QED
        BY <1>2, <3>1, <3>2, <4>1
    <3>3. CASE i # p
      <4>1. i < p + 1 <=> i < p
        BY <1>2, <2>1, <3>3
      <4> QED
        BY <3>1, <3>3, <4>1
    <3> QED
      BY <3>2, <3>3
  <2>3. Acted(i, k) <=> i < p /\ ~IsValue[i]
    <3>1. Len(cluster) = 0
      BY <1>1
    <3> QED
      BY <1>2, <2>1, <3>1 DEF Acted
  <2> QED
    BY <1>2, <2>1, <2>2, <2>3
<1>6. Passed'
  <2>1. \A i \in 1 .. p : ~IsValue[i] => argv[i] # "--"
    BY <1>1, <1>2, LettersFacts DEF Passed
  <2> QED
    BY <1>1, <1>2, <1>3, <1>5, <2>1 DEF Passed
<1>7. Between'
  <2>1. /\ cluster' # <<>> /\ cluster' \in Seq(STRING)
        /\ Len(cluster') \in Nat /\ DOMAIN cluster' = 1 .. Len(cluster')
        /\ Latest' = argv[p]
    BY <1>1, <1>2, LettersFacts, EmptySeq DEF Latest
  <2> QED
    BY <1>1, <1>2, <1>3, <1>4, <2>1 DEF Between
<1>8. Understood'
  <2>1. posix' => \A i \in 1 .. p : ~IsValue[i] => IsOption(argv[i])
    BY <1>1, <1>2 DEF Understood
  <2>2. operands' = OperandsTo[p]
    BY <1>1, <1>2, OperandsKept DEF Understood, IsOperand
  <2>3. \/ operands' = <<>>
        \/ \E i \in 1 .. p : ~IsValue[i] /\ ~IsOption(argv[i])
    BY <1>1, <1>2 DEF Understood
  <2>4. \A i \in DOMAIN argv : IsOption(argv[i]) =>
          \A k \in DOMAIN Letters[argv[i]] : Acted(i, k)' =>
              /\ Letters[argv[i]][k] \in options.flags \cup {"o"}
              /\ Letters[argv[i]][k] = "o" => options.report_dir # Null
    BY <1>2, <1>5 DEF Understood
  <2>5. options.report_dir # Null =>
          \E i \in DOMAIN argv :
              /\ IsOption(argv[i]) /\ Acted(i, Len(Letters[argv[i]]))'
              /\ \/ /\ argv[i] \in DOMAIN Attached
                    /\ options.report_dir = Attached[argv[i]]
                 \/ /\ WantsValue(argv[i]) /\ i < Len(argv)
                    /\ options.report_dir = argv[i + 1]
    <3>1. \A i \in DOMAIN argv : IsOption(argv[i]) =>
             (Acted(i, Len(Letters[argv[i]]))' <=> Acted(i, Len(Letters[argv[i]])))
      <4> SUFFICES ASSUME NEW i \in DOMAIN argv, IsOption(argv[i])
                   PROVE  Acted(i, Len(Letters[argv[i]]))'
                             <=> Acted(i, Len(Letters[argv[i]]))
        OBVIOUS
      <4>1. Len(Letters[argv[i]]) \in DOMAIN Letters[argv[i]]
        BY LettersFacts
      <4> QED
        BY <1>1, <1>5, <4>1
    <3> QED
      BY <1>2, <3>1 DEF Understood
  <2> QED
    BY <1>1, <1>2, <1>3, <2>1, <2>2, <2>3, <2>4, <2>5 DEF Understood
<1> QED
  BY <1>1, <1>6, <1>7, <1>8 DEF Moved

LEMMA PassOperandMoves ==
    ASSUME CliInv, PassOperand, argv # <<"--help">> PROVE Moved
<1> DEFINE p == optind
           n == Len(argv)
<1>1. /\ ~posix /\ ~err /\ cluster = <<>> /\ p <= n
      /\ ~IsOption(argv[p]) /\ argv[p] # "--"
      /\ operands' = Append(operands, argv[p])
      /\ optind' = p + 1
      /\ UNCHANGED <<posix, argv, cluster, value, options, err>>
  BY DEF PassOperand, IsOperand
<1>2. /\ argv \in Seq(Words) /\ p \in 1 .. n /\ n \in Nat /\ DOMAIN argv = 1 .. n
      /\ Passed /\ Between /\ Understood
  BY <1>1, WordFacts DEF CliInv
<1>3. IsValue' = IsValue /\ OperandsTo' = OperandsTo
  BY <1>1, ReadingStays
<1>4. ~IsValue[p]
  BY <1>1, <1>2 DEF Between
<1>5. \A i \in DOMAIN argv : IsOption(argv[i]) => \A k \in DOMAIN Letters[argv[i]] :
         Acted(i, k)' <=> Acted(i, k)
  <2> SUFFICES ASSUME NEW i \in DOMAIN argv, IsOption(argv[i]),
                      NEW k \in DOMAIN Letters[argv[i]]
               PROVE  Acted(i, k)' <=> Acted(i, k)
    OBVIOUS
  <2>1. /\ i \in 1 .. n /\ k \in 1 .. Len(Letters[argv[i]])
        /\ Len(Letters[argv[i]]) \in Nat /\ i # p
    BY <1>1, <1>2, LettersFacts
  <2>2. Len(cluster) = 0
    BY <1>1
  <2>3. Acted(i, k)' <=> i < p + 1 /\ ~IsValue[i]
    BY <1>1, <1>2, <1>3, <2>1, <2>2 DEF Acted, IsOption
  <2>4. Acted(i, k) <=> i < p /\ ~IsValue[i]
    BY <1>2, <2>1, <2>2 DEF Acted
  <2> QED
    BY <1>2, <2>1, <2>3, <2>4
<1>6. Passed'
  BY <1>1, <1>2, <1>3, <1>5 DEF Passed
<1>7. Between'
  <2>1. ~IsValue[p + 1]
    BY <1>1, <1>2, ValuesRead DEF WantsValue
  <2> QED
    BY <1>1, <1>3, <2>1 DEF Between
<1>8. Understood'
  <2>1. operands' = OperandsTo[p]
    BY <1>1, <1>2, <1>4, OperandsKept DEF Understood, IsOperand
  <2>2. \E i \in 1 .. p : ~IsValue[i] /\ ~IsOption(argv[i])
    BY <1>1, <1>2, <1>4
  <2>3. \A i \in DOMAIN argv : IsOption(argv[i]) =>
          \A k \in DOMAIN Letters[argv[i]] : Acted(i, k)' =>
              /\ Letters[argv[i]][k] \in options.flags \cup {"o"}
              /\ Letters[argv[i]][k] = "o" => options.report_dir # Null
    BY <1>2, <1>5 DEF Understood
  <2>4. options.report_dir # Null =>
          \E i \in DOMAIN argv :
              /\ IsOption(argv[i]) /\ Acted(i, Len(Letters[argv[i]]))'
              /\ \/ /\ argv[i] \in DOMAIN Attached
                    /\ options.report_dir = Attached[argv[i]]
                 \/ /\ WantsValue(argv[i]) /\ i < Len(argv)
                    /\ options.report_dir = argv[i + 1]
    <3>1. \A i \in DOMAIN argv : IsOption(argv[i]) =>
             (Acted(i, Len(Letters[argv[i]]))' <=> Acted(i, Len(Letters[argv[i]])))
      <4> SUFFICES ASSUME NEW i \in DOMAIN argv, IsOption(argv[i])
                   PROVE  Acted(i, Len(Letters[argv[i]]))'
                             <=> Acted(i, Len(Letters[argv[i]]))
        OBVIOUS
      <4>1. Len(Letters[argv[i]]) \in DOMAIN Letters[argv[i]]
        BY LettersFacts
      <4> QED
        BY <1>1, <1>5, <4>1
    <3> QED
      BY <1>2, <3>1 DEF Understood
  <2> QED
    BY <1>1, <1>2, <1>3, <2>1, <2>2, <2>3, <2>4 DEF Understood, IsOption, WantsValue
<1> QED
  BY <1>1, <1>6, <1>7, <1>8 DEF Moved

\* The place in its argument of the letter that getopt returns next.
Place == Len(Letters[Latest]) - Len(cluster) + 1

LEMMA LetterRead ==
    ASSUME CliInv, argv # <<"--help">>, ~err, cluster # <<>>
    PROVE  /\ argv \in Seq(Words) /\ Len(argv) \in Nat /\ DOMAIN argv = 1 .. Len(argv)
           /\ optind \in 2 .. Len(argv) + 1
           /\ ~IsValue[optind - 1] /\ IsOption(Latest)
           /\ IsValue[optind] <=> WantsValue(Latest)
           /\ Len(Letters[Latest]) \in Nat /\ Place \in 1 .. Len(Letters[Latest])
           /\ DOMAIN Letters[Latest] = 1 .. Len(Letters[Latest])
           /\ Head(cluster) = Letters[Latest][Place]
           /\ Len(cluster) = Len(Letters[Latest]) - Place + 1
           /\ Len(Tail(cluster)) = Len(Letters[Latest]) - Place
           /\ Tail(cluster) = <<>> <=> Place = Len(Letters[Latest])
           /\ Tail(cluster) \in Seq(STRING)
           /\ DOMAIN Tail(cluster) = 1 .. Len(Letters[Latest]) - Place
           /\ \A j \in DOMAIN Tail(cluster) :
                 Tail(cluster)[j] = Letters[Latest][Place + j]
           /\ value = IF Latest \in DOMAIN Attached THEN Attached[Latest] ELSE Null
           /\ Head(cluster) = "o" => Place = Len(Letters[Latest])
<1> DEFINE m == Len(Letters[Latest])
           c == Len(cluster)
<1>1. /\ argv \in Seq(Words) /\ optind \in 1 .. Len(argv) + 1
      /\ Len(argv) \in Nat /\ DOMAIN argv = 1 .. Len(argv) /\ Between
  BY WordFacts DEF CliInv
<1>2. /\ optind > 1 /\ ~IsValue[optind - 1] /\ IsOption(Latest)
      /\ cluster \in Seq(STRING) /\ c <= m
      /\ \A j \in DOMAIN cluster : cluster[j] = Letters[Latest][m - c + j]
      /\ value = IF Latest \in DOMAIN Attached THEN Attached[Latest] ELSE Null
  BY <1>1 DEF Between
<1>3. /\ m \in Nat \ {0} /\ DOMAIN Letters[Latest] = 1 .. m
      /\ \A k \in 1 .. m - 1 : Letters[Latest][k] # "o"
  BY <1>2, LettersFacts
<1>4. c \in Nat \ {0} /\ DOMAIN cluster = 1 .. c /\ Head(cluster) = cluster[1]
  BY <1>2, EmptySeq, LenProperties
<1>5. Place = m - c + 1 /\ Place \in 1 .. m
  BY <1>2, <1>3, <1>4 DEF Place
<1>6. Head(cluster) = Letters[Latest][Place]
  <2>1. 1 \in DOMAIN cluster
    BY <1>4
  <2> QED
    BY <1>2, <1>4, <1>5, <2>1
<1>7. /\ Tail(cluster) \in Seq(STRING) /\ Len(Tail(cluster)) = c - 1
      /\ \A j \in 1 .. c - 1 : Tail(cluster)[j] = cluster[j + 1]
  BY <1>2, <1>4, HeadTailProperties
<1>8. DOMAIN Tail(cluster) = 1 .. c - 1
  BY <1>7, LenProperties
<1>9. \A j \in 1 .. c - 1 : Tail(cluster)[j] = Letters[Latest][Place + j]
  <2> SUFFICES ASSUME NEW j \in 1 .. c - 1
               PROVE  Tail(cluster)[j] = Letters[Latest][Place + j]
    OBVIOUS
  <2>1. j + 1 \in DOMAIN cluster
    BY <1>4
  <2>2. m - c + (j + 1) = Place + j
    <3> HIDE DEF m, c
    <3> QED
      BY <1>3, <1>4, <1>5
  <2> QED
    BY <1>2, <1>7, <2>1, <2>2
<1>10. c = m - Place + 1 /\ c - 1 = m - Place
  BY <1>3, <1>4, <1>5
<1>11. Tail(cluster) = <<>> <=> Place = m
  <2>1. c - 1 = 0 <=> Place = m
    BY <1>3, <1>4, <1>5
  <2> QED
    BY <1>7, <2>1, EmptySeq
<1>12. IsValue[optind] <=> WantsValue(Latest)
  <2>1. optind \in 0 .. Len(argv) + 1
    BY <1>1
  <2> QED
    BY <1>1, <1>2, <2>1, ValuesRead DEF Latest
<1>13. Head(cluster) = "o" => Place = m
  BY <1>3, <1>5, <1>6
<1>14. /\ optind \in 2 .. Len(argv) + 1
       /\ DOMAIN Tail(cluster) = 1 .. m - Place
  BY <1>1, <1>2, <1>8, <1>10
<1>15. \A j \in DOMAIN Tail(cluster) : Tail(cluster)[j] = Letters[Latest][Place + j]
  BY <1>8, <1>9
<1>16. /\ Len(Tail(cluster)) = m - Place /\ c = m - Place + 1
  BY <1>7, <1>10
<1> QED
  BY <1>1, <1>2, <1>3, <1>5, <1>6, <1>7, <1>11, <1>12, <1>13, <1>14, <1>15, <1>16

\* The letter is the one that is acted on, whether or not getopt goes on to the
\* value behind it.
LEMMA LetterActedOn ==
    ASSUME CliInv, argv # <<"--help">>, ~err, cluster # <<>>,
           argv' = argv, cluster' = Tail(cluster),
           \/ optind' = optind
           \/ optind' = optind + 1 /\ Head(cluster) = "o" /\ WantsValue(Latest)
    PROVE  \A i \in DOMAIN argv : IsOption(argv[i]) =>
              \A k \in DOMAIN Letters[argv[i]] :
                 Acted(i, k)' <=> Acted(i, k) \/ (i = optind - 1 /\ k = Place)
<1> DEFINE m == Len(Letters[Latest])
<1> SUFFICES ASSUME NEW i \in DOMAIN argv, IsOption(argv[i]),
                    NEW k \in DOMAIN Letters[argv[i]]
             PROVE  Acted(i, k)' <=> Acted(i, k) \/ (i = optind - 1 /\ k = Place)
  OBVIOUS
<1>1. /\ Len(argv) \in Nat /\ i \in 1 .. Len(argv) /\ optind \in 2 .. Len(argv) + 1
      /\ ~IsValue[optind - 1] /\ (IsValue[optind] <=> WantsValue(Latest))
      /\ m \in Nat /\ Place \in 1 .. m
      /\ Len(cluster) = m - Place + 1 /\ Len(cluster') = m - Place
      /\ Head(cluster) = "o" => Place = m
  BY LetterRead
<1>2. k \in 1 .. Len(Letters[argv[i]]) /\ Len(Letters[argv[i]]) \in Nat
  BY LettersFacts
<1>3. IsValue' = IsValue
  BY ReadingStays
<1>4. CASE i = optind - 1
  <2>1. argv[i] = Latest /\ ~IsValue[i] /\ i < optind /\ k \in 1 .. m
    BY <1>1, <1>2, <1>4 DEF Latest
  <2>2. Acted(i, k) <=> k <= m - (m - Place + 1)
    BY <1>1, <1>4, <2>1 DEF Acted
  <2>3. CASE optind' = optind
    <3>1. Acted(i, k)' <=> k <= m - (m - Place)
      BY <1>1, <1>3, <1>4, <2>1, <2>3 DEF Acted, IsOption
    <3> QED
      BY <1>1, <1>4, <2>1, <2>2, <3>1
  <2>4. CASE optind' = optind + 1 /\ Head(cluster) = "o"
    <3>1. i < optind + 1 /\ i # optind + 1 - 1
      BY <1>1, <1>4
    <3>2. Acted(i, k)'
      <4>1. i < optind' /\ i # optind' - 1
        BY <1>1, <1>4, <2>4
      <4>2. ~IsValue'[i] /\ argv'[i] \in DOMAIN Letters
        BY <1>3, <2>1 DEF IsOption
      <4> QED
        BY <4>1, <4>2 DEF Acted, IsOption
    <3> QED
      BY <1>1, <1>4, <2>1, <2>2, <2>4, <3>2
  <2> QED
    BY <2>3, <2>4
<1>5. CASE i # optind - 1
  <2>1. Acted(i, k) <=> i < optind /\ ~IsValue[i]
    BY <1>5 DEF Acted
  <2>2. CASE optind' = optind
    BY <1>3, <1>5, <2>1, <2>2 DEF Acted, IsOption
  <2>3. CASE optind' = optind + 1 /\ WantsValue(Latest)
    <3>1. CASE i = optind
      <4>1. IsValue[i] /\ ~(i < optind)
        BY <1>1, <2>3, <3>1
      <4> QED
        BY <1>3, <1>5, <2>1, <4>1 DEF Acted
    <3>2. CASE i # optind
      <4>1. Acted(i, k)' <=> i < optind /\ ~IsValue[i]
        <5>1. (i < optind' <=> i < optind) /\ i # optind' - 1
          BY <1>1, <2>3, <3>2
        <5>2. IsValue'[i] = IsValue[i] /\ argv'[i] \in DOMAIN Letters
          BY <1>3 DEF IsOption
        <5> QED
          BY <5>1, <5>2 DEF Acted, IsOption
      <4> QED
        BY <1>5, <2>1, <4>1
    <3> QED
      BY <3>1, <3>2
  <2> QED
    BY <2>2, <2>3
<1> QED
  BY <1>4, <1>5

\* A letter that sets a flag.
LEMMA FlagMoves ==
    ASSUME CliInv, Option, argv # <<"--help">>, Head(cluster) \in Flags
    PROVE  Moved
<1> DEFINE q == optind - 1
           n == Len(argv)
           m == Len(Letters[Latest])
<1>1. /\ ~err /\ cluster # <<>> /\ Head(cluster) # "o"
      /\ options' = [options EXCEPT !.flags = @ \cup {Head(cluster)}]
      /\ cluster' = Tail(cluster)
      /\ UNCHANGED <<posix, argv, optind, value, operands, err>>
  BY DEF Option, Flags
<1>2. Passed /\ Understood
  BY <1>1 DEF CliInv
<1>3. /\ options.flags \subseteq Flags
      /\ options'.flags = options.flags \cup {Head(cluster)}
      /\ options'.report_dir = options.report_dir
  BY <1>1, <1>2 DEF Passed
<1>4. IsValue' = IsValue /\ OperandsTo' = OperandsTo
  BY <1>1, ReadingStays
<1>5. /\ DOMAIN argv = 1 .. n /\ n \in Nat /\ q \in 1 .. n /\ optind \in 2 .. n + 1
      /\ Latest = argv[q] /\ IsOption(argv[q]) /\ ~IsValue[q]
      /\ m \in Nat /\ Place \in 1 .. m /\ DOMAIN Letters[argv[q]] = 1 .. m
      /\ Letters[argv[q]][Place] = Head(cluster)
  <2>1. n \in Nat /\ optind \in 2 .. n + 1
    BY <1>1, LetterRead
  <2>2. q \in 1 .. n
    BY <2>1
  <2> QED
    BY <1>1, <2>1, <2>2, LetterRead DEF Latest
<1>6. \A i \in DOMAIN argv : IsOption(argv[i]) => \A k \in DOMAIN Letters[argv[i]] :
         Acted(i, k)' <=> Acted(i, k) \/ (i = q /\ k = Place)
  BY <1>1, LetterActedOn
<1>7. Passed'
  <2> SUFFICES ASSUME NEW flag \in options'.flags
               PROVE  \E i \in DOMAIN argv : IsOption(argv[i]) /\
                         \E k \in DOMAIN Letters[argv[i]] :
                            Acted(i, k)' /\ Letters[argv[i]][k] = flag
    <3>1. DOMAIN options' = {"flags", "report_dir"} /\ options'.flags \subseteq Flags
      BY <1>1, <1>2, <1>3 DEF Passed
    <3>2. \A i \in 1 .. optind - 1 : ~IsValue[i] => argv[i] # "--"
      BY <1>2 DEF Passed
    <3> QED
      BY <1>1, <1>4, <3>1, <3>2 DEF Passed, IsOption
  <2>1. CASE flag \in options.flags
    BY <1>2, <1>6, <2>1 DEF Passed
  <2>2. CASE flag = Head(cluster)
    <3>1. PICK i \in DOMAIN argv : i = q
      BY <1>5
    <3>2. PICK k \in DOMAIN Letters[argv[i]] : k = Place
      BY <1>5, <3>1
    <3>3. Acted(i, k)'
      BY <1>5, <1>6, <3>1, <3>2
    <3> QED
      BY <1>5, <2>2, <3>1, <3>2, <3>3
  <2> QED
    BY <1>3, <2>1, <2>2
<1>8. Between'
  <2>1. CASE Tail(cluster) = <<>>
    <3>1. Place = m /\ Letters[Latest][m] # "o"
      BY <1>1, <2>1, LetterRead
    <3>2. ~IsValue[optind]
      BY <1>1, <3>1, LetterRead DEF WantsValue
    <3> QED
      BY <1>1, <1>4, <2>1, <3>2 DEF Between
  <2>2. CASE Tail(cluster) # <<>>
    <3>1. /\ Tail(cluster) \in Seq(STRING) /\ Len(Tail(cluster)) = m - Place
          /\ \A j \in DOMAIN Tail(cluster) :
                Tail(cluster)[j] = Letters[Latest][Place + j]
          /\ DOMAIN Tail(cluster) = 1 .. m - Place
          /\ value = IF Latest \in DOMAIN Attached THEN Attached[Latest] ELSE Null
      BY <1>1, LetterRead
    <3>2. \A j \in DOMAIN Tail(cluster) :
             Tail(cluster)[j] = Letters[Latest][m - Len(Tail(cluster)) + j]
      <4>1. m - Len(Tail(cluster)) = Place
        BY <1>5, <3>1
      <4> QED
        BY <3>1, <4>1
    <3>3. Len(Tail(cluster)) <= m
      BY <1>5, <3>1
    <3>4. Latest' = Latest
      BY <1>1 DEF Latest
    <3>5. /\ optind' > 1 /\ ~IsValue'[optind' - 1] /\ IsOption(Latest)'
          /\ cluster' # <<>>
      BY <1>1, <1>4, <1>5, <2>2, <3>4 DEF IsOption
    <3> QED
      BY <1>1, <3>1, <3>2, <3>3, <3>4, <3>5 DEF Between
  <2> QED
    BY <2>1, <2>2
<1>9. Understood'
  <2>1. \A i \in DOMAIN argv : IsOption(argv[i]) =>
          \A k \in DOMAIN Letters[argv[i]] : Acted(i, k)' =>
              /\ Letters[argv[i]][k] \in options'.flags \cup {"o"}
              /\ Letters[argv[i]][k] = "o" => options'.report_dir # Null
    BY <1>1, <1>2, <1>3, <1>5, <1>6 DEF Understood
  <2>2. options'.report_dir # Null =>
          \E i \in DOMAIN argv :
              /\ IsOption(argv[i]) /\ Acted(i, Len(Letters[argv[i]]))'
              /\ \/ /\ argv[i] \in DOMAIN Attached
                    /\ options'.report_dir = Attached[argv[i]]
                 \/ /\ WantsValue(argv[i]) /\ i < Len(argv)
                    /\ options'.report_dir = argv[i + 1]
    <3>1. \A i \in DOMAIN argv : IsOption(argv[i]) =>
             Len(Letters[argv[i]]) \in DOMAIN Letters[argv[i]]
      BY LettersFacts
    <3>2. \A i \in DOMAIN argv : IsOption(argv[i]) /\ Acted(i, Len(Letters[argv[i]]))
             => Acted(i, Len(Letters[argv[i]]))'
      BY <1>1, <1>6, <3>1
    <3> QED
      BY <1>2, <1>3, <3>2 DEF Understood
  <2>3. /\ posix => \A i \in 1 .. optind - 1 : ~IsValue[i] => IsOption(argv[i])
        /\ operands = OperandsTo[optind - 1]
        /\ \/ operands = <<>>
           \/ \E i \in 1 .. optind - 1 : ~IsValue[i] /\ ~IsOption(argv[i])
    BY <1>2 DEF Understood
  <2> QED
    BY <1>1, <1>4, <2>1, <2>2, <2>3 DEF Understood, IsOption, WantsValue
<1> QED
  BY <1>1, <1>7, <1>8, <1>9 DEF Moved

\* -o with its value: what is left of its argument, or the next one.
LEMMA OptargMoves ==
    ASSUME CliInv, Option, argv # <<"--help">>, Head(cluster) = "o", ~err'
    PROVE  Moved
<1> DEFINE q == optind - 1
           n == Len(argv)
           m == Len(Letters[Latest])
<1>1. /\ ~err /\ cluster # <<>> /\ TakeOptarg
      /\ cluster' = Tail(cluster)
      /\ UNCHANGED <<posix, argv, value, operands>>
  BY DEF Option, Flags
<1>2. Passed /\ Understood
  BY <1>1 DEF CliInv
<1>3. IsValue' = IsValue /\ OperandsTo' = OperandsTo
  BY <1>1, ReadingStays
<1>4. /\ DOMAIN argv = 1 .. n /\ n \in Nat /\ q \in 1 .. n /\ optind \in 2 .. n + 1
      /\ Latest = argv[q] /\ IsOption(argv[q]) /\ ~IsValue[q]
      /\ m \in Nat /\ Place = m /\ DOMAIN Letters[argv[q]] = 1 .. m /\ m \in 1 .. m
      /\ Letters[argv[q]][m] = "o" /\ Tail(cluster) = <<>>
      /\ IsValue[optind] <=> WantsValue(Latest)
      /\ value = IF Latest \in DOMAIN Attached THEN Attached[Latest] ELSE Null
      /\ Latest \in DOMAIN Attached => Attached[Latest] # Null
      /\ WantsValue(Latest) <=> Latest \notin DOMAIN Attached
  <2>1. n \in Nat /\ optind \in 2 .. n + 1
    BY <1>1, LetterRead
  <2>2. q \in 1 .. n
    BY <2>1
  <2>3. Place = m /\ m \in 1 .. m /\ Letters[Latest][m] = "o"
    BY <1>1, LetterRead
  <2> QED
    BY <1>1, <2>1, <2>2, <2>3, LetterRead, LettersFacts DEF Latest
<1>5. /\ options'.flags = options.flags /\ DOMAIN options' = DOMAIN options
      /\ options'.report_dir # Null
      /\ \/ value # Null /\ optind' = optind /\ options'.report_dir = value
         \/ /\ value = Null /\ optind <= n /\ optind' = optind + 1
            /\ options'.report_dir = argv[optind]
  <2>1. DOMAIN options = {"flags", "report_dir"}
    BY <1>2 DEF Passed
  <2>2. CASE value # Null
    BY <1>1, <2>1, <2>2 DEF TakeOptarg
  <2>3. CASE value = Null
    <3>1. /\ optind <= n /\ optind' = optind + 1
          /\ options' = [options EXCEPT !.report_dir = argv[optind]]
      BY <1>1, <2>3 DEF TakeOptarg
    <3>2. argv[optind] # Null
      BY <1>4, <3>1, WordFacts DEF CliInv
    <3> QED
      BY <2>1, <2>3, <3>1, <3>2
  <2> QED
    BY <2>2, <2>3
<1>6. value = Null => WantsValue(Latest)
  BY <1>4
<1>7. \A i \in DOMAIN argv : IsOption(argv[i]) => \A k \in DOMAIN Letters[argv[i]] :
         Acted(i, k)' <=> Acted(i, k) \/ (i = q /\ k = m)
  BY <1>1, <1>4, <1>5, <1>6, LetterActedOn
<1>8. optind' - 1 = q \/ (optind' - 1 = optind /\ optind <= n /\ IsValue[optind])
  BY <1>4, <1>5, <1>6
<1>9. Passed'
  <2>1. \A i \in 1 .. optind' - 1 : ~IsValue[i] => argv[i] # "--"
    BY <1>2, <1>4, <1>8 DEF Passed
  <2>2. \A flag \in options'.flags :
           \E i \in DOMAIN argv : IsOption(argv[i]) /\
              \E k \in DOMAIN Letters[argv[i]] :
                 Acted(i, k)' /\ Letters[argv[i]][k] = flag
    BY <1>2, <1>5, <1>7 DEF Passed
  <2>3. DOMAIN options' = {"flags", "report_dir"} /\ options'.flags \subseteq Flags
    BY <1>2, <1>5 DEF Passed
  <2> QED
    BY <1>1, <1>3, <2>1, <2>2, <2>3 DEF Passed, IsOption
<1>10. Between'
  <2>1. CASE value # Null
    BY <1>1, <1>3, <1>4, <1>5, <2>1 DEF Between
  <2>2. CASE value = Null
    <3>1. optind \in 1 .. n /\ IsValue[optind] /\ optind' = optind + 1
      BY <1>4, <1>5, <1>6, <2>2
    <3>2. ~IsValue[optind + 1]
      <4>1. optind + 1 \in 0 .. n + 1 /\ optind + 1 - 1 = optind
        BY <1>4, <3>1
      <4>2. argv \in Seq(Words)
        BY DEF CliInv
      <4> QED
        BY <3>1, <4>1, <4>2, ValuesRead
    <3> QED
      BY <1>1, <1>3, <1>4, <3>1, <3>2 DEF Between
  <2> QED
    BY <2>1, <2>2
<1>11. Understood'
  <2>1. \A i \in DOMAIN argv : IsOption(argv[i]) =>
          \A k \in DOMAIN Letters[argv[i]] : Acted(i, k)' =>
              /\ Letters[argv[i]][k] \in options'.flags \cup {"o"}
              /\ Letters[argv[i]][k] = "o" => options'.report_dir # Null
    BY <1>2, <1>4, <1>5, <1>7 DEF Understood
  <2>2. \E i \in DOMAIN argv :
           /\ IsOption(argv[i]) /\ Acted(i, Len(Letters[argv[i]]))'
           /\ \/ /\ argv[i] \in DOMAIN Attached
                 /\ options'.report_dir = Attached[argv[i]]
              \/ /\ WantsValue(argv[i]) /\ i < Len(argv)
                 /\ options'.report_dir = argv[i + 1]
    <3>1. PICK i \in DOMAIN argv : i = q
      BY <1>4
    <3>2. PICK k \in DOMAIN Letters[argv[i]] : k = m
      BY <1>4, <3>1
    <3>3. Acted(i, k)' /\ k = Len(Letters[argv[i]])
      BY <1>4, <1>7, <3>1, <3>2
    <3>4. Acted(i, Len(Letters[argv[i]]))'
      BY <1>1, <3>3
    <3>5. CASE value # Null
      BY <1>4, <1>5, <3>1, <3>4, <3>5
    <3>6. CASE value = Null
      <4>1. i < n /\ i + 1 = optind
        BY <1>4, <1>5, <3>1, <3>6
      <4> QED
        BY <1>4, <1>5, <1>6, <3>1, <3>4, <3>6, <4>1
    <3> QED
      BY <3>5, <3>6
  <2>3. posix => \A i \in 1 .. optind' - 1 : ~IsValue[i] => IsOption(argv[i])
    BY <1>2, <1>4, <1>8 DEF Understood
  <2>4. operands = OperandsTo[optind' - 1]
    <3>1. CASE optind' - 1 = q
      BY <1>2, <3>1 DEF Understood
    <3>2. CASE optind' - 1 = optind /\ optind <= n /\ IsValue[optind]
      <4>1. OperandsTo[optind] = OperandsTo[optind - 1]
        BY <1>4, <3>2, OperandsKept DEF CliInv
      <4> QED
        BY <1>2, <3>2, <4>1 DEF Understood
    <3> QED
      BY <1>8, <3>1, <3>2
  <2>5. \/ operands = <<>>
        \/ \E i \in 1 .. optind' - 1 : ~IsValue[i] /\ ~IsOption(argv[i])
    BY <1>2, <1>4, <1>8 DEF Understood
  <2> QED
    BY <1>1, <1>3, <2>1, <2>2, <2>3, <2>4, <2>5 DEF Understood, IsOption, WantsValue
<1> QED
  BY <1>9, <1>10, <1>11 DEF Moved

\* A letter that is none, or an -o at the end.
LEMMA MistakeMoves ==
    ASSUME CliInv, Option, argv # <<"--help">>, err'
    PROVE  Moved
<1> DEFINE q == optind - 1
           n == Len(argv)
<1>1. /\ ~err /\ cluster # <<>>
      /\ cluster' = Tail(cluster)
      /\ UNCHANGED <<posix, argv, value, operands, options, optind>>
      /\ \/ Head(cluster) \notin Flags \cup {"o"}
         \/ Head(cluster) = "o" /\ value = Null /\ optind > n
  BY DEF Option, Flags, TakeOptarg
<1>2. Passed
  BY <1>1 DEF CliInv
<1>3. IsValue' = IsValue /\ OperandsTo' = OperandsTo
  BY <1>1, ReadingStays
<1>4. \A i \in DOMAIN argv : IsOption(argv[i]) => \A k \in DOMAIN Letters[argv[i]] :
         Acted(i, k)' <=> Acted(i, k) \/ (i = q /\ k = Place)
  BY <1>1, LetterActedOn
<1>5. Passed'
  BY <1>1, <1>2, <1>3, <1>4 DEF Passed, IsOption
<1>6. \E i \in 1 .. q : Mistaken(i)
  <2>1. /\ n \in Nat /\ optind \in 2 .. n + 1 /\ ~IsValue[q] /\ IsOption(argv[q])
        /\ Place \in DOMAIN Letters[argv[q]] /\ Letters[argv[q]][Place] = Head(cluster)
        /\ Head(cluster) = "o" => Place = Len(Letters[argv[q]])
        /\ value = IF argv[q] \in DOMAIN Attached THEN Attached[argv[q]] ELSE Null
    BY <1>1, LetterRead DEF Latest
  <2>2. q \in 1 .. q
    BY <2>1
  <2>3. Mistaken(q)
    <3>1. CASE Head(cluster) \notin Flags \cup {"o"}
      BY <2>1, <3>1 DEF Mistaken
    <3>2. CASE Head(cluster) = "o" /\ value = Null /\ optind > n
      <4>1. q = n
        BY <2>1, <3>2
      <4>2. WantsValue(argv[q])
        BY <2>1, <3>2, LettersFacts
      <4> QED
        BY <2>1, <4>1, <4>2 DEF Mistaken
    <3> QED
      BY <1>1, <3>1, <3>2
  <2> QED
    BY <2>2, <2>3
<1>7. \A i : Mistaken(i)' <=> Mistaken(i)
  BY <1>1, <1>3 DEF Mistaken, IsOption, WantsValue
<1>8. \E i \in 1 .. optind' - 1 : Mistaken(i)'
  BY <1>1, <1>6, <1>7
<1> QED
  BY <1>5, <1>8 DEF Moved, Blamed

\* Every step of getopt.
LEMMA GetoptMoves ==
    ASSUME CliInv, argv # <<"--help">>, NextArgument \/ PassOperand \/ Option
    PROVE  Moved
<1>1. CASE NextArgument
  BY <1>1, NextArgumentMoves
<1>2. CASE PassOperand
  BY <1>2, PassOperandMoves
<1>3. CASE Option
  <2>1. Head(cluster) \in Flags \/ Head(cluster) = "o" \/ err'
    BY <1>3 DEF Option
  <2> QED
    BY <1>3, <2>1, FlagMoves, OptargMoves, MistakeMoves
<1> QED
  BY <1>1, <1>2, <1>3

\* Reading: getopt goes on, or the loop ends.
LEMMA CliInvParses ==
    ASSUME CliInv, NextArgument \/ PassOperand \/ Option
    PROVE  CliInv'
<1>1. /\ pc = "parse" /\ pc' = pc /\ UNCHANGED <<argv, exit>>
      /\ argv \in Seq(Words) /\ Len(argv) \in Nat /\ optind \in 1 .. Len(argv) + 1
  BY WordFacts DEF CliInv, NextArgument, PassOperand, Option
<1>2. optind' \in 1 .. Len(argv) + 1
  <2>1. optind' = optind \/ (optind' = optind + 1 /\ optind <= Len(argv))
    BY DEF NextArgument, PassOperand, Option, TakeOptarg
  <2> QED
    BY <1>1, <2>1
<1>3. argv # <<"--help">> => Moved
  BY GetoptMoves
<1> QED
  BY <1>1, <1>2, <1>3 DEF CliInv, Moved

\* What getopt has read is kept when the loop has ended.
LEMMA CliInvParsed ==
    ASSUME CliInv,
           HelpAlone \/ EndOfOptions \/ ShowHelp \/ Refuse \/ CallRun
    PROVE  CliInv'
<1>1. CASE HelpAlone
  <2>1. "h" \in options'.flags
    BY <1>1 DEF HelpAlone
  <2> QED
    BY <1>1, <2>1 DEF HelpAlone, CliInv
<1>2. CASE EndOfOptions
  <2>1. /\ UNCHANGED <<posix, argv, optind, cluster, value, operands, options, err, exit>>
        /\ argv # <<"--help">> /\ pc = "parse" /\ pc' = "parsed"
    BY <1>2 DEF EndOfOptions
  <2>2. Passed' /\ (~err' => Between' /\ Understood')
    BY <2>1, GetoptStands DEF CliInv
  <2>3. err' => Blamed'
    BY <2>1, GetoptStands DEF CliInv, Blamed
  <2>4. ~err' => Stopped'
    <3>1. CommandArgv' = CommandArgv /\ IsOperand(argv[optind])' = IsOperand(argv[optind])
      BY <2>1 DEF CommandArgv, Left, IsOperand, IsOption
    <3>2. ~err => /\ cluster = <<>> /\ command' = CommandArgv
                  /\ optind <= Len(argv) =>
                        argv[optind] = "--" \/ (posix /\ IsOperand(argv[optind]))
      BY <1>2 DEF EndOfOptions
    <3> QED
      BY <2>1, <3>1, <3>2 DEF Stopped
  <2> QED
    BY <2>1, <2>2, <2>3, <2>4 DEF CliInv
<1>3. CASE ShowHelp \/ Refuse \/ CallRun
  <2>1. /\ UNCHANGED <<posix, argv, optind, cluster, value, operands, options, command>>
        /\ pc = "parsed" /\ pc' \in {"run", "done"}
        /\ ~err' => ~err
    BY <1>3 DEF ShowHelp, Refuse, CallRun, Exits
  <2>2. argv = <<"--help">> \/ (Passed' /\ (~err => Between' /\ Understood'))
    BY <2>1, GetoptStands DEF CliInv
  <2>3. argv = <<"--help">> \/ (~err => Stopped')
    <3>1. CommandArgv' = CommandArgv /\ IsOperand(argv[optind])' = IsOperand(argv[optind])
      BY <2>1 DEF CommandArgv, Left, IsOperand, IsOption
    <3> QED
      BY <2>1, <3>1 DEF Stopped, CliInv
  <2>4. Acceptable' <=> Acceptable
    BY <2>1 DEF Acceptable
  <2>5. err' => Blamed' \/ argv = <<"--help">>
    <3>1. CASE err
      BY <2>1, <3>1, GetoptStands DEF CliInv, Blamed
    <3>2. CASE ShowHelp
      BY <2>1, <3>2 DEF ShowHelp, Blamed
    <3>3. CASE Refuse /\ ~err
      BY <2>1, <2>2, <2>3, <2>4, <3>3 DEF Refuse, Exits, Blamed
    <3>4. CASE CallRun
      BY <3>1, <3>4 DEF CallRun
    <3> QED
      BY <1>3, <3>1, <3>2, <3>3, <3>4
  <2>6. argv = <<"--help">> => "h" \in options.flags
    BY <2>1 DEF CliInv
  <2>7. pc' = "run" => ~err' /\ "h" \notin options'.flags /\ Acceptable'
    BY <1>3, <2>1, <2>4 DEF ShowHelp, Refuse, CallRun, Exits
  <2>8. pc' = "done" /\ exit' # "trouble" => ~err'
    BY <1>3 DEF ShowHelp, Refuse, CallRun, Exits
  <2>9. argv' \in Seq(Words) /\ optind' \in 1 .. Len(argv') + 1
    BY <2>1 DEF CliInv
  <2> QED
    BY <2>1, <2>2, <2>3, <2>5, <2>6, <2>7, <2>8, <2>9 DEF CliInv
<1> QED
  BY <1>1, <1>2, <1>3

LEMMA CliInvNext ==
    ASSUME CliInv, [CliNext]_cliVars PROVE CliInv'
<1>1. CASE CliStep
  BY <1>1, CliInvParses, CliInvParsed DEF CliStep
<1>2. CASE UNCHANGED cliVars
  <2>1. UNCHANGED <<posix, argv, optind, cluster, value, operands, options, command,
                    err, pc, exit>>
    BY <1>2 DEF cliVars
  <2>2. /\ Passed' <=> Passed
        /\ Between' <=> Between
        /\ Understood' <=> Understood
        /\ \A i : Mistaken(i)' <=> Mistaken(i)
    BY <2>1, GetoptStands
  <2>3. Stopped' <=> Stopped
    BY <2>1 DEF Stopped, CommandArgv, Left, IsOperand, IsOption
  <2>4. Acceptable' <=> Acceptable
    BY <2>1 DEF Acceptable
  <2>5. Blamed' <=> Blamed
    BY <2>1, <2>2, <2>3, <2>4 DEF Blamed
  <2> QED
    BY <2>1, <2>2, <2>3, <2>4, <2>5 DEF CliInv
<1> QED
  BY <1>1, <1>2 DEF CliNext, CliTerminating

\* What main starts with, whatever the vector.
Started == argv \in Seq(Words) /\ Start(argv, err) /\ pc \in {"unborn", "parse"}

LEMMA StartRead == Started => CliInv
<1> SUFFICES ASSUME Started PROVE CliInv
  OBVIOUS
<1>1. /\ argv \in Seq(Words) /\ optind = 1 /\ cluster = <<>> /\ operands = <<>>
      /\ options = [flags |-> {}, report_dir |-> Null]
      /\ pc \in {"unborn", "parse"}
  BY DEF Started, Start, NoOptions
<1>2. Len(argv) \in Nat /\ DOMAIN argv = 1 .. Len(argv)
  BY <1>1, WordFacts
<1>3. Passed
  BY <1>1 DEF Passed
<1>4. ~IsValue[1] /\ OperandsTo[0] = <<>>
  BY <1>1, <1>2, ValuesRead, OperandsKept
<1>5. \A i \in DOMAIN argv : \A k : ~Acted(i, k)
  BY <1>1, <1>2 DEF Acted
<1>6. Understood
  BY <1>1, <1>2, <1>4, <1>5 DEF Understood
<1> QED
  BY <1>1, <1>2, <1>3, <1>4, <1>6 DEF CliInv, Between, Blamed

THEOREM CliInvariance == CliSpec => []CliInv
<1>1. CliInit => CliInv
  <2>1. CliInit => Started
    BY WordsAssumption DEF CliInit, Started, Start
  <2> QED
    BY <2>1, StartRead
<1>2. CliInv /\ [CliNext]_cliVars => CliInv'
  BY CliInvNext
<1> QED
  BY <1>1, <1>2, PTL DEF CliSpec

LEMMA MistakesFound ==
    ASSUME CliInv PROVE MistakesAreTrouble
<1> SUFFICES ASSUME NEW i \in DOMAIN argv,
                    pc \in {"run", "done"}, exit # "trouble", argv # <<"--help">>,
                    IsOption(argv[i]), ~IsValue[i],
                    \A j \in OptionsBefore(i) : IsOption(argv[j])
             PROVE  /\ \A k \in DOMAIN Letters[argv[i]] :
                          Letters[argv[i]][k] \in Flags \cup {"o"}
                    /\ WantsValue(argv[i]) => i < Len(argv)
  BY DEF MistakesAreTrouble
<1> DEFINE n == Len(argv)
<1>1. /\ argv \in Seq(Words) /\ n \in Nat /\ i \in 1 .. n /\ DOMAIN argv = 1 .. n
      /\ optind \in 1 .. n + 1
      /\ ~err /\ Passed /\ Between /\ Understood /\ Stopped
  BY WordFacts DEF CliInv
<1>2. i < optind
  <2> SUFFICES ASSUME optind <= i PROVE FALSE
    BY <1>1
  <2>1. /\ ~IsValue[optind] /\ optind \in 1 .. n
        /\ argv[optind] = "--" \/ IsOperand(argv[optind])
    BY <1>1 DEF Between, Stopped
  <2>2. ~IsOption(argv[optind])
    BY <2>1, LettersFacts DEF IsOperand
  <2> QED
    BY <1>1, <2>1, <2>2 DEF OptionsBefore
<1>3. \A k \in DOMAIN Letters[argv[i]] : Acted(i, k)
  <2>1. \A k \in DOMAIN Letters[argv[i]] : k <= Len(Letters[argv[i]]) - Len(cluster)
    <3>1. Len(cluster) = 0
      BY <1>1 DEF Stopped
    <3> QED
      BY <3>1, LettersFacts
  <2> QED
    BY <1>2, <2>1 DEF Acted
<1>4. \A k \in DOMAIN Letters[argv[i]] : Letters[argv[i]][k] \in Flags \cup {"o"}
  BY <1>1, <1>3 DEF Understood, Passed
<1>5. WantsValue(argv[i]) => i < Len(argv)
  <2> SUFFICES ASSUME WantsValue(argv[i]), i = n PROVE FALSE
    BY <1>1
  <2>1. IsValue[n + 1] /\ optind = n + 1
    BY <1>1, <1>2, ValuesRead
  <2> QED
    BY <1>1, <2>1 DEF Between, Stopped
<1> QED
  BY <1>4, <1>5

\* The loop has ended without an error.
Ended ==
    /\ argv \in Seq(Words) /\ optind \in 1 .. Len(argv) + 1
    /\ Passed /\ Between /\ Understood /\ Stopped

LEMMA WhereItStops ==
    ASSUME Ended
    PROVE  /\ argv \in Seq(Words) /\ Len(argv) \in Nat /\ DOMAIN argv = 1 .. Len(argv)
           /\ optind \in 1 .. Len(argv) + 1 /\ cluster = <<>> /\ Len(cluster) = 0
           /\ Passed /\ ~IsValue[optind] /\ Understood /\ Stopped
           /\ \A t \in Terminators :
                 t \in 1 .. Len(argv) /\ argv[t] = "--" /\ ~IsValue[t] /\ optind <= t
           /\ optind <= Len(argv) =>
                 argv[optind] = "--" \/ (posix /\ IsOperand(argv[optind]))
           /\ optind <= Len(argv) /\ argv[optind] = "--" =>
                 command = OperandsTo[optind - 1] \o SubSeq(argv, optind + 1, Len(argv))
           /\ ~ (optind <= Len(argv)) => command = OperandsTo[Len(argv)] \o <<>>
<1> DEFINE n == Len(argv)
<1>1. /\ argv \in Seq(Words) /\ n \in Nat /\ DOMAIN argv = 1 .. n
      /\ optind \in 1 .. n + 1 /\ cluster = <<>> /\ Len(cluster) = 0
      /\ Passed /\ ~IsValue[optind] /\ Understood /\ Stopped
  <2>1. /\ argv \in Seq(Words) /\ optind \in 1 .. Len(argv) + 1
        /\ Passed /\ Between /\ Understood /\ Stopped
    BY DEF Ended
  <2> QED
    BY <2>1, WordFacts DEF Between, Stopped
<1>2. \A t \in Terminators : t \in 1 .. n /\ argv[t] = "--" /\ ~IsValue[t] /\ optind <= t
  BY <1>1 DEF Terminators, Passed
<1>3. /\ Left # <<>> <=> optind <= n
      /\ optind <= n => /\ Head(Left) = argv[optind]
                        /\ Tail(Left) = SubSeq(argv, optind + 1, n)
      /\ SubSeq(argv, n + 1, n) = <<>> /\ SubSeq(argv, n + 2, n) = <<>>
  BY <1>1, LeftFacts
<1>4. optind <= n => argv[optind] = "--" \/ (posix /\ IsOperand(argv[optind]))
  BY <1>1 DEF Stopped
<1>5. optind <= n /\ argv[optind] = "--" =>
         command = OperandsTo[optind - 1] \o SubSeq(argv, optind + 1, n)
  BY <1>1, <1>3 DEF Stopped, Understood, CommandArgv
<1>6. ~ (optind <= n) => command = OperandsTo[n] \o <<>>
  <2>1. ~ (optind <= n) => optind = n + 1 /\ optind - 1 = n
    BY <1>1
  <2> QED
    BY <1>1, <1>3, <2>1 DEF Stopped, Understood, CommandArgv
<1> QED
  BY <1>1, <1>2, <1>4, <1>5, <1>6

\* What is before a terminator are the settings, what is behind it the command.
SettingsBefore(t) ==
    /\ command = SubSeq(argv, t + 1, Len(argv))
    /\ \A flag \in Flags :
          flag \in options.flags <=>
              \E i \in OptionsBefore(t) :
                  \E k \in DOMAIN Letters[argv[i]] : Letters[argv[i]][k] = flag
    /\ options.report_dir = Null <=>
          ~\E i \in OptionsBefore(t) :
              argv[i] \in DOMAIN Attached \/ WantsValue(argv[i])
    /\ options.report_dir # Null =>
          \E i \in OptionsBefore(t) :
              \/ /\ argv[i] \in DOMAIN Attached
                 /\ options.report_dir = Attached[argv[i]]
              \/ WantsValue(argv[i]) /\ options.report_dir = argv[i + 1]

LEMMA SettingsRead ==
    ASSUME Ended, NEW t \in Terminators, \A i \in OptionsBefore(t) : IsOption(argv[i])
    PROVE  SettingsBefore(t)
<1> DEFINE n == Len(argv)
<1>1. /\ argv \in Seq(Words) /\ n \in Nat /\ DOMAIN argv = 1 .. n
      /\ optind \in 1 .. n + 1 /\ Len(cluster) = 0
      /\ Passed /\ Understood
      /\ t \in 1 .. n /\ argv[t] = "--" /\ ~IsValue[t] /\ optind <= t /\ ~IsValue[optind]
      /\ optind <= n => argv[optind] = "--" \/ (posix /\ IsOperand(argv[optind]))
      /\ optind <= n /\ argv[optind] = "--" =>
            command = OperandsTo[optind - 1] \o SubSeq(argv, optind + 1, n)
  BY WhereItStops
<1>2. t = optind
  <2> SUFFICES ASSUME t # optind PROVE FALSE
    OBVIOUS
  <2>1. optind \in OptionsBefore(t) /\ optind <= n
    BY <1>1 DEF OptionsBefore
  <2> QED
    BY <1>1, <2>1, LettersFacts DEF IsOperand
<1>3. \A i \in 1 .. n :
         i \in OptionsBefore(t) <=> i < optind /\ ~IsValue[i]
  BY <1>1, <1>2 DEF OptionsBefore
<1>4. OptionsBefore(t) \subseteq 1 .. n
  BY <1>1 DEF OptionsBefore
<1>5. operands = <<>>
  <2>1. \A i \in 1 .. optind - 1 : ~IsValue[i] => IsOption(argv[i])
    BY <1>2 DEF OptionsBefore
  <2> QED
    BY <1>1, <2>1 DEF Understood
<1>6. command = SubSeq(argv, t + 1, Len(argv))
  <2>1. SubSeq(argv, optind + 1, n) \in Seq(Words)
    BY <1>1, <1>2, SubSeqProperties
  <2>2. <<>> \o SubSeq(argv, optind + 1, n) = SubSeq(argv, optind + 1, n)
    BY <2>1, ConcatEmptySeq
  <2>3. command = operands \o SubSeq(argv, optind + 1, n)
    <3>1. optind <= n /\ argv[optind] = "--"
      BY <1>1, <1>2
    <3> QED
      BY <1>1, <3>1 DEF Understood
  <2> QED
    BY <1>2, <1>5, <2>2, <2>3
<1>7. \A i \in 1 .. n : IsOption(argv[i]) => \A k \in DOMAIN Letters[argv[i]] :
         Acted(i, k) <=> i \in OptionsBefore(t)
  <2> SUFFICES ASSUME NEW i \in 1 .. n, IsOption(argv[i]),
                      NEW k \in DOMAIN Letters[argv[i]]
               PROVE  Acted(i, k) <=> i \in OptionsBefore(t)
    OBVIOUS
  <2>1. k <= Len(Letters[argv[i]]) - Len(cluster)
    BY <1>1, LettersFacts
  <2> QED
    BY <1>3, <2>1 DEF Acted
<1>8. ASSUME NEW flag \in Flags
      PROVE  flag \in options.flags <=>
                \E i \in OptionsBefore(t) :
                    \E k \in DOMAIN Letters[argv[i]] :
                        Letters[argv[i]][k] = flag
  <2>1. flag # "o"
    BY DEF Flags
  <2>2. flag \in options.flags =>
           \E i \in OptionsBefore(t) :
              \E k \in DOMAIN Letters[argv[i]] : Letters[argv[i]][k] = flag
    BY <1>1, <1>7 DEF Passed
  <2>3. ASSUME NEW i \in OptionsBefore(t), NEW k \in DOMAIN Letters[argv[i]],
               Letters[argv[i]][k] = flag
        PROVE  flag \in options.flags
    <3>1. i \in 1 .. n /\ IsOption(argv[i]) /\ Acted(i, k)
      BY <1>4, <1>7, <2>3
    <3> QED
      BY <1>1, <2>1, <2>3, <3>1 DEF Understood
  <2> QED
    BY <2>2, <2>3
<1>9. ASSUME options.report_dir # Null
      PROVE  \E i \in OptionsBefore(t) :
                \/ /\ argv[i] \in DOMAIN Attached
                   /\ options.report_dir = Attached[argv[i]]
                \/ WantsValue(argv[i]) /\ options.report_dir = argv[i + 1]
  <2>1. PICK i \in DOMAIN argv :
           /\ IsOption(argv[i]) /\ Acted(i, Len(Letters[argv[i]]))
           /\ \/ /\ argv[i] \in DOMAIN Attached
                 /\ options.report_dir = Attached[argv[i]]
              \/ WantsValue(argv[i]) /\ options.report_dir = argv[i + 1]
    BY <1>1, <1>9 DEF Understood
  <2>2. Len(Letters[argv[i]]) \in DOMAIN Letters[argv[i]]
    BY <2>1, LettersFacts
  <2> QED
    BY <1>1, <1>7, <2>1, <2>2
<1>10. options.report_dir = Null <=>
         ~\E i \in OptionsBefore(t) :
             argv[i] \in DOMAIN Attached \/ WantsValue(argv[i])
  <2>1. ASSUME NEW i \in OptionsBefore(t),
               argv[i] \in DOMAIN Attached \/ WantsValue(argv[i])
        PROVE  options.report_dir # Null
    <3>1. i \in 1 .. n /\ IsOption(argv[i])
      BY <1>4
    <3>2. PICK k \in DOMAIN Letters[argv[i]] : Letters[argv[i]][k] = "o"
      BY <2>1, <3>1, LettersFacts
    <3> QED
      BY <1>1, <1>7, <3>1, <3>2 DEF Understood
  <2> QED
    BY <1>9, <2>1
<1> QED
  BY <1>6, <1>8, <1>9, <1>10 DEF SettingsBefore

LEMMA Meant ==
    ASSUME CliInv PROVE ParsedAsMeant
<1> SUFFICES ASSUME pc = "run" PROVE ParsedAsMeant
  BY DEF ParsedAsMeant
<1> DEFINE n == Len(argv)
<1>1. Ended
  BY DEF CliInv, Ended
<1>2. /\ n \in Nat /\ DOMAIN argv = 1 .. n /\ optind \in 1 .. n + 1 /\ ~IsValue[optind]
      /\ \A t \in Terminators : t \in 1 .. n /\ optind <= t
  BY <1>1, WhereItStops
<1>3. ASSUME ~posix PROVE command = OperandsRead
  <2>1. CASE optind <= n
    <3>1. /\ argv[optind] = "--"
          /\ command = OperandsTo[optind - 1] \o SubSeq(argv, optind + 1, n)
      BY <1>1, <1>3, <2>1, WhereItStops
    <3>2. optind \in Terminators
      BY <1>2, <2>1, <3>1 DEF Terminators
    <3>3. EndRead = optind
      <4>1. \A t \in Terminators : optind <= t /\ t \in Nat
        BY <1>2
      <4>2. \A t \in Terminators :
               (\A u \in Terminators : t <= u) <=> t = optind
        BY <1>2, <3>2, <4>1
      <4> QED
        BY <3>2, <4>2 DEF EndRead
    <3> QED
      BY <3>1, <3>3 DEF OperandsRead
  <2>2. CASE ~ (optind <= n)
    <3>1. Terminators = {}
      BY <1>2, <2>2
    <3>2. EndRead = n + 1 /\ EndRead - 1 = n /\ EndRead + 1 = n + 2
      BY <1>2, <3>1 DEF EndRead
    <3>3. command = OperandsTo[n] \o <<>> /\ SubSeq(argv, n + 2, n) = <<>>
      BY <1>1, <2>2, WhereItStops, LeftFacts
    <3> QED
      BY <3>2, <3>3 DEF OperandsRead
  <2> QED
    BY <2>1, <2>2
<1>4. \A t \in Terminators :
         (\A i \in OptionsBefore(t) : IsOption(argv[i])) => SettingsBefore(t)
  BY <1>1, SettingsRead
<1> QED
  BY <1>3, <1>4 DEF ParsedAsMeant, SettingsBefore

\* The types: of CliTypeOK, what an element of argv decides is in CliInv.
LEMMA TypesKept ==
    ASSUME CliInv, CliTypeOK, [CliNext]_cliVars
    PROVE  CliTypeOK'
<1> USE DEF CliTypeOK
<1>1. /\ argv' = argv /\ posix' = posix
      /\ argv' \in Seq(Words) /\ optind' \in 1 .. Len(argv') + 1
      /\ pc' \in {"unborn", "parse", "parsed", "run", "done"}
  <2>1. CliInv'
    BY CliInvNext
  <2>2. argv' = argv /\ posix' = posix
    BY DEF CliNext, CliTerminating, cliVars, CliStep, HelpAlone, NextArgument,
           PassOperand, Option, EndOfOptions, ShowHelp, Refuse, CallRun, Exits
  <2> QED
    BY <2>1, <2>2 DEF CliInv
<1>2. \A i \in 1 .. Len(argv) : argv[i] \in Words
  BY WordFacts
<1>3. CASE HelpAlone
  BY <1>1, <1>3 DEF HelpAlone, Flags
<1>4. CASE NextArgument
  <2>1. argv[optind] \in DOMAIN Letters
    BY <1>4 DEF NextArgument, IsOption
  <2>2. cluster' \in Seq(STRING)
    BY <1>4, <2>1, LettersAssumption DEF NextArgument
  <2>3. value' \in {Null} \cup AttachedValues
    BY <1>4 DEF NextArgument, AttachedValues
  <2>4. UNCHANGED <<operands, options, command, err, exit>>
    BY <1>4 DEF NextArgument
  <2> QED
    BY <1>1, <2>2, <2>3, <2>4
<1>5. CASE PassOperand
  <2>1. operands' \in Seq(Words)
    <3>1. operands' = Append(operands, argv[optind]) /\ argv[optind] \in Words
      BY <1>2, <1>5 DEF PassOperand
    <3> QED
      BY <3>1, AppendProperties
  <2>2. UNCHANGED <<cluster, value, options, command, err, exit>>
    BY <1>5 DEF PassOperand
  <2> QED
    BY <1>1, <2>1, <2>2
<1>6. CASE Option
  <2>1. cluster' \in Seq(STRING)
    <3>1. cluster # <<>> /\ cluster' = Tail(cluster)
      BY <1>6 DEF Option
    <3> QED
      BY <3>1, HeadTailProperties
  <2>2. UNCHANGED <<value, operands, command, exit>>
    BY <1>6 DEF Option
  <2>3. options' \in [flags : SUBSET Flags,
                      report_dir : {Null} \cup Words \cup AttachedValues]
    <3>1. CASE Head(cluster) \in Flags
               /\ options' = [options EXCEPT !.flags = @ \cup {Head(cluster)}]
      BY <3>1
    <3>2. CASE TakeOptarg
      <4>1. \/ options' = options
            \/ options' = [options EXCEPT !.report_dir = value]
            \/ /\ options' = [options EXCEPT !.report_dir = argv[optind]]
               /\ argv[optind] \in Words
        BY <1>2, <3>2 DEF TakeOptarg
      <4> QED
        BY <4>1
    <3>3. CASE options' = options
      BY <3>3
    <3> QED
      BY <1>6, <3>1, <3>2, <3>3 DEF Option
  <2>4. err' \in BOOLEAN
    BY <1>6 DEF Option, TakeOptarg
  <2> QED
    BY <1>1, <2>1, <2>2, <2>3, <2>4
<1>7. CASE EndOfOptions
  <2>1. CommandArgv \in Seq(Words)
    <3>1. Left \in Seq(Words)
      <4>1. \A i \in optind .. Len(argv) : argv[i] \in Words
        BY <1>2
      <4> QED
        BY <4>1, SubSeqProperties DEF Left
    <3>2. Left # <<>> => Tail(Left) \in Seq(Words)
      BY <3>1, HeadTailProperties
    <3> QED
      BY <3>1, <3>2, ConcatProperties DEF CommandArgv
  <2>2. command' = Null \/ command' \in Seq(Words)
    BY <1>7, <2>1 DEF EndOfOptions
  <2>3. UNCHANGED <<cluster, value, operands, options, err, exit>>
    BY <1>7 DEF EndOfOptions
  <2> QED
    BY <1>1, <2>2, <2>3
<1>8. CASE ShowHelp \/ Refuse \/ CallRun
  <2>1. UNCHANGED <<cluster, value, operands, options, command>>
    BY <1>8 DEF ShowHelp, Refuse, CallRun, Exits
  <2>2. err' \in BOOLEAN /\ exit' \in {"none", "success", "trouble"}
    BY <1>8 DEF ShowHelp, Refuse, CallRun, Exits
  <2> QED
    BY <1>1, <2>1, <2>2
<1>9. CASE UNCHANGED cliVars
  BY <1>9 DEF cliVars
<1> QED
  BY <1>3, <1>4, <1>5, <1>6, <1>7, <1>8, <1>9 DEF CliNext, CliTerminating, CliStep

\* getopt never reads past the end of any vector, and what it sets has its type.
THEOREM CliTypeCorrect == CliSpec => []CliTypeOK
<1>1. CliInit => CliTypeOK
  <2> SUFFICES ASSUME CliInit PROVE CliTypeOK
    OBVIOUS
  <2>1. PICK vector \in Vectors, failed \in BOOLEAN : Start(vector, failed)
    BY DEF CliInit
  <2>2. argv \in Seq(Words) /\ Len(argv) \in Nat
    BY <2>1, WordsAssumption, LenProperties DEF Start
  <2> QED
    BY <2>1, <2>2 DEF CliInit, Start, NoOptions, CliTypeOK
<1>2. CliInv /\ CliTypeOK /\ [CliNext]_cliVars => CliTypeOK'
  BY TypesKept
<1> QED
  BY <1>1, <1>2, CliInvariance, PTL DEF CliSpec

\* The command line of inspect-capture is read as it is meant.
THEOREM ParsedAsMeantHolds == CliSpec => []ParsedAsMeant
<1>1. CliInv => ParsedAsMeant
  BY Meant
<1> QED
  BY <1>1, CliInvariance, PTL

\* A mistake in it is trouble.
THEOREM MistakesAreTroubleHolds == CliSpec => []MistakesAreTrouble
<1>1. CliInv => MistakesAreTrouble
  BY MistakesFound
<1> QED
  BY <1>1, CliInvariance, PTL

-----------------------------------------------------------------------------
(* RunArguments.                                                           *)

\* The slots allocated are for the command that is copied into them: nothing
\* moves index, or changes the arguments, from the allocation on.
Allocated ==
    /\ runArgv \in Seq(Words) /\ index \in Nat
    /\ runPc \in {"parse", "directory"} => capture_argv = <<>>
    /\ runPc \in {"vector", "spawn", "wait"} =>
          capture_argc = Len(Command) + Overhead
    /\ VectorFits

\* Before the loop there is no vector.
LEMMA AllocatedInit == RunInit => Allocated
BY RunAssumption DEF RunInit, Allocated, VectorFits

\* The length of four sequences in a row, as FillVector copies them.
LEMMA LengthOfFour ==
    ASSUME NEW S, NEW a \in Seq(S), NEW b \in Seq(S), NEW c \in Seq(S),
           NEW d \in Seq(S)
    PROVE  Len(((a \o b) \o c) \o d) = Len(a) + Len(b) + Len(c) + Len(d)
<1>1. a \o b \in Seq(S) /\ Len(a \o b) = Len(a) + Len(b)
  BY ConcatProperties
<1>2. /\ (a \o b) \o c \in Seq(S)
      /\ Len((a \o b) \o c) = Len(a \o b) + Len(c)
  BY <1>1, ConcatProperties
<1>3. Len(((a \o b) \o c) \o d) = Len((a \o b) \o c) + Len(d)
  BY <1>2, ConcatProperties
<1> QED
  BY <1>1, <1>2, <1>3

\* -A and -R: none, one or both of them.
LEMMA LogFlagsLength ==
    ASSUME NEW S, "-A" \in S, "-R" \in S
    PROVE  LogFlags \in Seq(S) /\ Len(LogFlags) \in 0 .. 2
<1> DEFINE a == IF "A" \in given.log THEN <<"-A">> ELSE <<>>
           r == IF "R" \in given.log THEN <<"-R">> ELSE <<>>
<1>1. a \in Seq(S) /\ Len(a) \in {0, 1}
  <2>1. CASE "A" \in given.log
    <3>1. a = <<"-A">>
      BY <2>1
    <3> QED
      BY <3>1
  <2>2. CASE "A" \notin given.log
    <3>1. a = <<>>
      BY <2>2
    <3> QED
      BY <3>1
  <2> QED
    BY <2>1, <2>2
<1>2. r \in Seq(S) /\ Len(r) \in {0, 1}
  <2>1. CASE "R" \in given.log
    <3>1. r = <<"-R">>
      BY <2>1
    <3> QED
      BY <3>1
  <2>2. CASE "R" \notin given.log
    <3>1. r = <<>>
      BY <2>2
    <3> QED
      BY <3>1
  <2> QED
    BY <2>1, <2>2
<1>3. LogFlags = a \o r
  BY DEF LogFlags
<1> HIDE DEF a, r
<1>4. a \o r \in Seq(S) /\ Len(a \o r) = Len(a) + Len(r)
  BY <1>1, <1>2, ConcatProperties
<1> QED
  BY <1>1, <1>2, <1>3, <1>4

\* However many options there are to pass, the vector is at most six longer
\* than the command.
LEMMA FilledLength ==
    ASSUME runArgv \in Seq(Words), index \in Nat
    PROVE  Len(Command) \in Nat /\ Len(Filled) \in Nat /\ Len(Filled) <= Len(Command) + 6
<1> DEFINE path == CapturePath[given.output]
           All  == Words \cup {"inspect-capture", "-A", "-R", "-o", "--", path}
           head == <<"inspect-capture">>
           tail == <<"-o", path, "--">>
<1>1. Command \in Seq(All) /\ Len(Command) \in Nat
  <2>1. Len(runArgv) \in Nat /\ \A i \in index + 1 .. Len(runArgv) : runArgv[i] \in All
    BY LenProperties
  <2>2. SubSeq(runArgv, index + 1, Len(runArgv)) \in Seq(All)
    BY <2>1, SubSeqProperties
  <2> QED
    BY <2>2, LenProperties DEF Command
<1>2. head \in Seq(All) /\ Len(head) = 1 /\ tail \in Seq(All) /\ Len(tail) = 3
  OBVIOUS
<1>3. LogFlags \in Seq(All) /\ Len(LogFlags) \in 0 .. 2
  BY LogFlagsLength
<1>4. Filled = ((head \o LogFlags) \o tail) \o Command
  BY DEF Filled
<1> HIDE DEF All, path, head, tail
<1>5. Len(Filled) = Len(head) + Len(LogFlags) + Len(tail) + Len(Command)
  <2>1. /\ head \in Seq(All) /\ LogFlags \in Seq(All)
        /\ tail \in Seq(All) /\ Command \in Seq(All)
    BY <1>1, <1>2, <1>3
  <2> DEFINE l == LogFlags
             c == Command
  <2> HIDE DEF l, c
  <2>2. Len(((head \o l) \o tail) \o c)
           = Len(head) + Len(l) + Len(tail) + Len(c)
    BY <2>1, LengthOfFour DEF l, c
  <2> QED
    BY <1>4, <2>2 DEF l, c
<1> DEFINE flags == Len(LogFlags)
           n     == Len(Command)
           total == Len(Filled)
<1>6. flags \in 0 .. 2 /\ n \in Nat /\ total = 1 + flags + 3 + n
  BY <1>1, <1>2, <1>3, <1>5
<1>7. n \in Nat /\ total \in Nat /\ total <= n + 6
  <2> HIDE DEF flags, n, total
  <2> QED
    BY <1>6
<1> QED
  BY <1>7

\* Each step of run_command.
LEMMA AllocatedNext ==
    Allocated /\ [RunNext]_<<runVars, cliVars>> => Allocated'
<1> SUFFICES ASSUME Allocated, [RunNext]_<<runVars, cliVars>> PROVE Allocated'
  OBVIOUS
<1>1. CASE OutputArgument \/ LogArgument \/ ToolArgument \/ ArgumentsEnd
  <2>1. /\ UNCHANGED <<runArgv, capture_argv, capture_argc>>
        /\ index' \in {index, index + 1, index + 2}
        /\ runPc = "parse" /\ runPc' \in {"parse", "directory", "done"}
    BY <1>1 DEF OutputArgument, LogArgument, ToolArgument, ArgumentsEnd, RunTrouble
  <2> QED
    BY <2>1 DEF Allocated, VectorFits
<1>2. CASE MakeDirectory
  BY <1>2 DEF MakeDirectory, RunTrouble, Allocated, VectorFits, Command
<1>3. CASE FillVector
  <2>1. /\ UNCHANGED <<runArgv, index, capture_argc>>
        /\ capture_argv' = Filled
        /\ capture_argc = Len(Command) + Overhead
        /\ runPc' = "spawn"
    BY <1>3 DEF FillVector, Allocated
  <2>2. Len(capture_argv') + 1 <= capture_argc
    BY <2>1, FilledLength, RunAssumption DEF Allocated
  <2> QED
    BY <2>1, <2>2 DEF Allocated, VectorFits, Command
<1>4. CASE SpawnWithVector
  <2>1. /\ UNCHANGED <<runArgv, index, capture_argv, capture_argc>>
        /\ runPc = "spawn" /\ runPc' \in {"wait", "done"}
    BY <1>4 DEF SpawnWithVector, RunTrouble
  <2> QED
    BY <2>1 DEF Allocated, VectorFits, Command
<1>5. CASE UNCHANGED runVars
  BY <1>5 DEF runVars, Allocated, VectorFits, Command
<1> QED
  BY <1>1, <1>2, <1>3, <1>4, <1>5 DEF RunNext, ReadVector, RunTerminating

\* capture_argv, with its NULL, never exceeds what calloc was asked for,
\* however long the command and whatever the options.
THEOREM VectorFitsHolds == RunSpec => []VectorFits
<1>1. Allocated => VectorFits
  BY DEF Allocated
<1> QED
  BY <1>1, AllocatedInit, AllocatedNext, PTL DEF RunSpec

\* The log flags, in front of everything.
LEMMA LogFlagsFacts ==
    /\ LogFlags \in Seq({"-A", "-R"})
    /\ Len(LogFlags) \in Nat
    /\ \A k \in 1 .. Len(LogFlags) : LogFlags[k] \in {"-A", "-R"}
    /\ "A" \in given.log <=> \E k \in 1 .. Len(LogFlags) : LogFlags[k] = "-A"
    /\ "R" \in given.log <=> \E k \in 1 .. Len(LogFlags) : LogFlags[k] = "-R"
<1> DEFINE a == IF "A" \in given.log THEN <<"-A">> ELSE <<>>
           r == IF "R" \in given.log THEN <<"-R">> ELSE <<>>
<1>1. CASE "A" \in given.log /\ "R" \in given.log
  <2>1. LogFlags = <<"-A">> \o <<"-R">>
    BY <1>1 DEF LogFlags
  <2> QED
    BY <1>1, <2>1
<1>2. CASE "A" \in given.log /\ "R" \notin given.log
  <2>1. LogFlags = <<"-A">>
    BY <1>2 DEF LogFlags
  <2> QED
    BY <1>2, <2>1
<1>3. CASE "A" \notin given.log /\ "R" \in given.log
  <2>1. LogFlags = <<"-R">>
    BY <1>3 DEF LogFlags
  <2> QED
    BY <1>3, <2>1
<1>4. CASE "A" \notin given.log /\ "R" \notin given.log
  <2>1. LogFlags = <<>>
    BY <1>4 DEF LogFlags
  <2> QED
    BY <1>4, <2>1
<1> QED
  BY <1>1, <1>2, <1>3, <1>4

\* What is behind the name of the program, and where.
Assembled(v, S, F, b1, b2, b3, C) ==
    /\ v \in Seq(S) /\ Len(v) = Len(F) + 3 + Len(C)
    /\ \A k \in 1 .. Len(F) : v[k] = F[k]
    /\ v[Len(F) + 1] = b1 /\ v[Len(F) + 2] = b2 /\ v[Len(F) + 3] = b3
    /\ SubSeq(v, Len(F) + 4, Len(v)) = C

LEMMA VectorParts ==
    ASSUME NEW S, NEW F \in Seq(S), NEW C \in Seq(S),
           NEW a, NEW b1 \in S, NEW b2 \in S, NEW b3 \in S
    PROVE  Assembled(Tail(<<a>> \o F \o <<b1, b2, b3>> \o C), S, F, b1, b2, b3, C)
<1> DEFINE T == S \cup {a}
           f == Len(F)
           c == Len(C)
           B == <<b1, b2, b3>>
           AF == <<a>> \o F
           AFB == AF \o B
           W == AFB \o C
           v == Tail(W)
<1>1. F \in Seq(T) /\ C \in Seq(T) /\ <<a>> \in Seq(T) /\ B \in Seq(T) /\ f \in Nat /\ c \in Nat
  OBVIOUS
<1>2. /\ AF \in Seq(T) /\ Len(AF) = f + 1
      /\ \A k \in 1 .. f : AF[k + 1] = F[k]
  BY <1>1
<1>3. /\ AFB \in Seq(T) /\ Len(AFB) = f + 4
      /\ \A k \in 1 .. f : AFB[k + 1] = F[k]
      /\ AFB[f + 2] = b1 /\ AFB[f + 3] = b2 /\ AFB[f + 4] = b3
  <2>1. Len(B) = 3 /\ B[1] = b1 /\ B[2] = b2 /\ B[3] = b3
    OBVIOUS
  <2> HIDE DEF AF, B
  <2>2. /\ AFB \in Seq(T) /\ Len(AFB) = f + 4
        /\ \A k \in 1 .. f + 4 :
              AFB[k] = IF k <= f + 1 THEN AF[k] ELSE B[k - (f + 1)]
    <3>1. /\ AFB \in Seq(T) /\ Len(AFB) = Len(AF) + Len(B)
          /\ \A k \in 1 .. Len(AF) + Len(B) :
                AFB[k] = IF k <= Len(AF) THEN AF[k] ELSE B[k - Len(AF)]
      BY <1>1, <1>2, ConcatProperties
    <3>2. Len(AF) + Len(B) = f + 4
      BY <1>1, <1>2, <2>1
    <3> HIDE DEF AFB
    <3> QED
      BY <1>2, <3>1, <3>2
  <2>3. \A k \in 1 .. f : AFB[k + 1] = F[k]
    BY <1>1, <1>2, <2>2
  <2>4. /\ f + 2 - (f + 1) = 1 /\ f + 3 - (f + 1) = 2 /\ f + 4 - (f + 1) = 3
        /\ {f + 2, f + 3, f + 4} \subseteq 1 .. f + 4
        /\ ~ (f + 2 <= f + 1) /\ ~ (f + 3 <= f + 1) /\ ~ (f + 4 <= f + 1)
    BY <1>1
  <2>5. AFB[f + 2] = B[1] /\ AFB[f + 3] = B[2] /\ AFB[f + 4] = B[3]
    BY <2>2, <2>4
  <2> QED
    BY <2>1, <2>2, <2>3, <2>5
<1>4. /\ W \in Seq(T) /\ Len(W) = f + 4 + c
      /\ \A k \in 1 .. f : W[k + 1] = F[k]
      /\ W[f + 2] = b1 /\ W[f + 3] = b2 /\ W[f + 4] = b3
      /\ \A k \in 1 .. c : W[f + 4 + k] = C[k]
  <2> HIDE DEF AFB
  <2>1. /\ W \in Seq(T) /\ Len(W) = Len(AFB) + c
        /\ \A k \in 1 .. Len(AFB) + c :
              W[k] = IF k <= Len(AFB) THEN AFB[k] ELSE C[k - Len(AFB)]
    <3>1. AFB \in Seq(T) /\ C \in Seq(T)
      BY <1>1, <1>3
    <3> QED
      BY <3>1, ConcatProperties
  <2> HIDE DEF W
  <2>2. \A k \in 1 .. f : W[k + 1] = F[k]
    <3>1. \A k \in 1 .. f : k + 1 \in 1 .. f + 4 + c /\ k + 1 <= f + 4
      BY <1>1
    <3> QED
      BY <1>3, <2>1, <3>1
  <2>3. W[f + 2] = b1 /\ W[f + 3] = b2 /\ W[f + 4] = b3
    <3>1. {f + 2, f + 3, f + 4} \subseteq 1 .. f + 4 + c
      BY <1>1
    <3> QED
      BY <1>1, <1>3, <2>1, <3>1
  <2>4. \A k \in 1 .. c : W[f + 4 + k] = C[k]
    <3> SUFFICES ASSUME NEW k \in 1 .. c PROVE W[f + 4 + k] = C[k]
      OBVIOUS
    <3>1. /\ f + 4 + k \in 1 .. f + 4 + c /\ ~ (f + 4 + k <= f + 4)
          /\ f + 4 + k - (f + 4) = k
      BY <1>1
    <3> QED
      BY <1>3, <2>1, <3>1
  <2> QED
    BY <1>3, <2>1, <2>2, <2>3, <2>4
<1>5. /\ v \in Seq(T) /\ Len(v) = f + 3 + c
      /\ \A k \in 1 .. f + 3 + c : v[k] = W[k + 1]
  <2>1. v = Tail(W)
    OBVIOUS
  <2> HIDE DEF W
  <2>2. W # <<>> /\ Len(W) - 1 = f + 3 + c
    BY <1>1, <1>4
  <2>3. /\ Tail(W) \in Seq(T) /\ Len(Tail(W)) = Len(W) - 1
        /\ \A k \in 1 .. Len(W) - 1 : Tail(W)[k] = W[k + 1]
    BY <1>4, <2>2, HeadTailProperties
  <2> QED
    BY <2>1, <2>2, <2>3
<1>6. /\ \A k \in 1 .. f : v[k] = F[k]
      /\ v[f + 1] = b1 /\ v[f + 2] = b2 /\ v[f + 3] = b3
      /\ \A k \in 1 .. c : v[f + 3 + k] = C[k]
  <2> HIDE DEF W
  <2> QED
    BY <1>1, <1>4, <1>5
<1>7. \A k \in 1 .. Len(v) : v[k] \in S
  <2> SUFFICES ASSUME NEW k \in 1 .. f + 3 + c PROVE v[k] \in S
    BY <1>5
  <2>1. CASE k <= f
    BY <1>1, <1>6, <2>1
  <2>2. CASE k \in {f + 1, f + 2, f + 3}
    BY <1>6, <2>2
  <2>3. CASE k > f + 3
    <3>1. k - (f + 3) \in 1 .. c /\ k = f + 3 + (k - (f + 3))
      BY <1>1, <2>3
    <3> QED
      BY <1>1, <1>6, <3>1
  <2> QED
    BY <1>1, <2>1, <2>2, <2>3
<1>8. v \in Seq(S)
  <2>1. v \in [1 .. Len(v) -> T] /\ Len(v) \in Nat
    BY <1>5, LenProperties
  <2>2. v \in [1 .. Len(v) -> S]
    BY <1>7, <2>1
  <2> QED
    BY <2>1, <2>2, SeqDef
<1>9. SubSeq(v, f + 4, Len(v)) = C
  <2>1. /\ SubSeq(v, f + 4, Len(v)) \in Seq(S) /\ Len(SubSeq(v, f + 4, Len(v))) = c
        /\ \A k \in 1 .. c : SubSeq(v, f + 4, Len(v))[k] = v[f + 3 + k]
    BY <1>1, <1>5, <1>7, <1>8
  <2> QED
    BY <1>1, <1>6, <2>1, SeqEqual
<1> QED
  BY <1>5, <1>6, <1>8, <1>9 DEF Assembled

\* The options run passes on.
LEMMA CaptureOptions ==
    /\ IsOption("-A") /\ ~WantsValue("-A") /\ "-A" \notin DOMAIN Attached
    /\ IsOption("-R") /\ ~WantsValue("-R") /\ "-R" \notin DOMAIN Attached
    /\ IsOption("-o") /\ WantsValue("-o") /\ "-o" \notin DOMAIN Attached
    /\ DOMAIN Letters["-A"] = {1} /\ Letters["-A"][1] = "A"
    /\ DOMAIN Letters["-R"] = {1} /\ Letters["-R"][1] = "R"
    /\ DOMAIN Letters["-o"] = {1} /\ Letters["-o"][1] = "o"
<1>1. /\ Letters["-A"] = <<"A">> /\ Letters["-R"] = <<"R">> /\ Letters["-o"] = <<"o">>
      /\ {"-A", "-R", "-o"} \subseteq DOMAIN Letters \ DOMAIN Attached
  BY CaptureAssumption
<1>2. \A letter : /\ Len(<<letter>>) = 1 /\ <<letter>>[1] = letter
                  /\ DOMAIN <<letter>> = {1}
  OBVIOUS
<1>3. /\ Letters["-A"][Len(Letters["-A"])] = "A"
      /\ Letters["-R"][Len(Letters["-R"])] = "R"
      /\ Letters["-o"][Len(Letters["-o"])] = "o"
  BY <1>1, <1>2
<1> QED
  BY <1>1, <1>2, <1>3 DEF IsOption, WantsValue

\* The vector in parts: what stands where, and what is a value.
Vector ==
    /\ argv = Tail(Filled)
    /\ Command \in Seq(Words)
    /\ given.output \in DOMAIN CapturePath

VectorLayout ==
    LET f == Len(LogFlags)
        path == CapturePath[given.output]
    IN  /\ f \in Nat /\ argv \in Seq(Words) /\ Len(argv) = f + 3 + Len(Command)
        /\ \A k \in 1 .. f : argv[k] = LogFlags[k] /\ argv[k] \in {"-A", "-R"}
        /\ argv[f + 1] = "-o" /\ argv[f + 2] = path /\ argv[f + 3] = "--"
        /\ SubSeq(argv, f + 4, Len(argv)) = Command
        /\ path \in Words \ {""}
        /\ \A k \in 1 .. f + 1 : ~IsValue[k] /\ IsOption(argv[k])
        /\ IsValue[f + 2] /\ ~IsValue[f + 3]

LEMMA VectorRead == Vector => VectorLayout
<1> SUFFICES ASSUME argv = Tail(Filled), Command \in Seq(Words),
                    given.output \in DOMAIN CapturePath
             PROVE  VectorLayout
  BY DEF Vector
<1> DEFINE f == Len(LogFlags)
           path == CapturePath[given.output]
<1>1. /\ path \in Words \ {""} /\ "-A" \in Words /\ "-R" \in Words
      /\ "-o" \in Words /\ "--" \in Words
  BY CaptureAssumption, WordsAssumption
<1>2. /\ f \in Nat /\ LogFlags \in Seq(Words)
      /\ \A k \in 1 .. f : LogFlags[k] \in {"-A", "-R"}
  <2>1. LogFlags \in Seq(Words)
    <3>1. {"-A", "-R"} \subseteq Words /\ LogFlags \in Seq({"-A", "-R"})
      BY <1>1, LogFlagsFacts
    <3>2. PICK S : S = {"-A", "-R"}
      OBVIOUS
    <3>3. PICK F \in Seq(S) : F = LogFlags
      BY <3>1, <3>2
    <3>4. F \in Seq(Words)
      BY <3>1, <3>2, SeqMonotonic
    <3> QED
      BY <3>3, <3>4
  <2> QED
    BY <2>1, LogFlagsFacts
<1>3. /\ argv \in Seq(Words) /\ Len(argv) = f + 3 + Len(Command)
      /\ \A k \in 1 .. f : argv[k] = LogFlags[k]
      /\ argv[f + 1] = "-o" /\ argv[f + 2] = path /\ argv[f + 3] = "--"
      /\ SubSeq(argv, f + 4, Len(argv)) = Command
  <2>1. PICK F, C, to, v :
           F \in Seq(Words) /\ C \in Seq(Words) /\ to \in Words /\ F = LogFlags /\ C = Command /\ to = path /\ v = argv
    BY <1>1, <1>2
  <2>2. v = Tail(<<"inspect-capture">> \o F \o <<"-o", to, "--">> \o C)
    BY <2>1 DEF Filled
  <2>3. PICK o, e, name :
           o \in Words /\ e \in Words /\ o = "-o" /\ e = "--" /\ name = "inspect-capture"
    BY <1>1
  <2>4. v = Tail(<<name>> \o F \o <<o, to, e>> \o C)
    BY <2>2, <2>3
  <2>5. /\ v \in Seq(Words) /\ Len(v) = Len(F) + 3 + Len(C)
        /\ \A k \in 1 .. Len(F) : v[k] = F[k]
        /\ v[Len(F) + 1] = o /\ v[Len(F) + 2] = to /\ v[Len(F) + 3] = e
        /\ SubSeq(v, Len(F) + 4, Len(v)) = C
    <3>1. Assembled(Tail(<<name>> \o F \o <<o, to, e>> \o C), Words, F, o, to, e, C)
      BY <2>1, <2>3, VectorParts
    <3>2. Assembled(v, Words, F, o, to, e, C)
      BY <2>4, <3>1
    <3> QED
      BY <3>2 DEF Assembled
  <2> QED
    BY <2>1, <2>3, <2>5
<1>4. /\ IsOption("-A") /\ ~WantsValue("-A")
      /\ IsOption("-R") /\ ~WantsValue("-R")
      /\ IsOption("-o") /\ WantsValue("-o")
  BY CaptureOptions
<1>5. \A k \in 1 .. f + 1 : IsOption(argv[k]) /\ (k <= f => ~WantsValue(argv[k]))
  <2> SUFFICES ASSUME NEW k \in 1 .. f + 1
               PROVE  IsOption(argv[k]) /\ (k <= f => ~WantsValue(argv[k]))
    OBVIOUS
  <2>1. CASE k = f + 1
    BY <1>2, <1>3, <1>4, <2>1
  <2>2. CASE k \in 1 .. f
    BY <1>2, <1>3, <1>4, <2>2
  <2>3. k = f + 1 \/ k \in 1 .. f
    BY <1>2
  <2> HIDE DEF f
  <2> QED
    BY <1>2, <2>1, <2>2, <2>3
<1>6. \A k \in 1 .. f + 1 : ~IsValue[k]
  <2> SUFFICES ASSUME NEW k \in 1 .. f + 1 PROVE ~IsValue[k]
    OBVIOUS
  <2>1. Len(Command) \in Nat /\ k \in 0 .. Len(argv) + 1
    BY <1>2, <1>3
  <2>2. k > 1 => k - 1 \in 1 .. f + 1 /\ k - 1 <= f
    BY <1>2
  <2>3. k > 1 => ~WantsValue(argv[k - 1])
    BY <1>5, <2>2
  <2> QED
    BY <1>3, <2>1, <2>3, ValuesRead
<1>7. IsValue[f + 2]
  <2>1. Len(Command) \in Nat /\ f + 2 \in 0 .. Len(argv) + 1 /\ f + 2 > 1 /\ f + 2 - 1 = f + 1
    BY <1>2, <1>3
  <2>2. ~IsValue[f + 1]
    BY <1>2, <1>6
  <2> QED
    BY <1>3, <1>4, <2>1, <2>2, ValuesRead
<1>8. ~IsValue[f + 3]
  <2>1. Len(Command) \in Nat /\ f + 3 \in 0 .. Len(argv) + 1 /\ f + 3 - 1 = f + 2
    BY <1>2, <1>3
  <2> QED
    BY <1>3, <1>7, <2>1, ValuesRead
<1> QED
  BY <1>1, <1>2, <1>3, <1>5, <1>6, <1>7, <1>8 DEF VectorLayout

\* Which arguments of run are values, step by step.
LEMMA RunValuesRead ==
    ASSUME runArgv \in Seq(Words)
    PROVE  \A i \in 0 .. Len(runArgv) + 1 :
              IsRunValue[i] <=>
                 i > 1 /\ TakesNext(runArgv[i - 1]) /\ ~IsRunValue[i - 1]
<1> DEFINE wants == [i \in 0 .. Len(runArgv) |-> TakesNext(runArgv[i])]
<1>1. Len(runArgv) + 1 \in Nat
  OBVIOUS
<1>2. PICK n, w : n \in Nat /\ n = Len(runArgv) + 1 /\ w = wants
  BY <1>1
<1>3. PICK f : Alternates(f, w, n)
  BY <1>2, AlternatesExists
<1>4. f = [i \in 0 .. Len(runArgv) + 1 |->
              i > 1 /\ TakesNext(runArgv[i - 1]) /\ ~f[i - 1]]
  <2>1. \A i \in 0 .. n :
           (i > 1 /\ w[i - 1] /\ ~f[i - 1])
              = (i > 1 /\ TakesNext(runArgv[i - 1]) /\ ~f[i - 1])
    BY <1>2
  <2> QED
    BY <1>2, <1>3, <2>1 DEF Alternates
<1>5. IsRunValue = [i \in 0 .. Len(runArgv) + 1 |->
                    i > 1 /\ TakesNext(runArgv[i - 1]) /\ ~IsRunValue[i - 1]]
  BY <1>4 DEF IsRunValue
<1> QED
  BY <1>5

\* The arguments of run in front of the present one, without values.
Before == {i \in 1 .. index - 1 : ~IsRunValue[i]}

OutputsAmong(before) == {i \in before : runArgv[i] \in OutputOptions}
LogsAmong(before) == {i \in before : runArgv[i] \in DOMAIN LogOptions}

\* What run_command has understood of them.
RunRead ==
    /\ runArgv \in Seq(Words) /\ index \in 1 .. Len(runArgv) + 1
    /\ ~IsRunValue[index]
    /\ \A i \in Before : runArgv[i] \in KnownArguments \ {"--"}
    /\ DOMAIN given = {"output", "log"}
    /\ given.log = {LogOptions[runArgv[i]] : i \in LogsAmong(Before)}
    /\ given.output = Null => OutputsAmong(Before) = {}
    /\ given.output # Null =>
          \E i \in Before : OutputsAmong(Before) = {i} /\ given.output = runArgv[i + 1]

\* What it has done with that.
RunPhase ==
    /\ runPc \in {"parse", "directory", "vector", "spawn", "wait", "done"}
    /\ runPc \in {"directory", "vector", "spawn", "wait"} => Complete
    /\ runPc \in {"vector", "spawn", "wait"} => given.output \in DOMAIN CapturePath
    /\ runPc = "spawn" => capture_argv = Filled
    /\ IF runPc = "wait" THEN argv = Tail(Filled) /\ pc # "unborn"
       ELSE Start(<<>>, FALSE) /\ pc = "unborn"

PassInv == RunRead /\ RunPhase /\ CliInv

\* An argument is taken, alone or with its value.
LEMMA BeforeGrows ==
    ASSUME RunRead, index <= Len(runArgv), runArgv' = runArgv,
           \/ index' = index + 1 /\ ~TakesNext(runArgv[index])
           \/ index' = index + 2 /\ TakesNext(runArgv[index]) /\ HasNext
    PROVE  /\ IsRunValue' = IsRunValue
           /\ index' \in 1 .. Len(runArgv) + 1 /\ ~IsRunValue[index']
           /\ Before' = Before \cup {index} /\ index \notin Before
           /\ runArgv[index] \in Words /\ runArgv[index] # Null
           /\ HasNext => runArgv[index + 1] # Null
<1> DEFINE n == Len(runArgv)
<1>1. /\ runArgv \in Seq(Words) /\ n \in Nat /\ index \in 1 .. n /\ ~IsRunValue[index]
      /\ \A i \in 1 .. n : runArgv[i] \in Words /\ runArgv[i] # Null
  BY WordsAssumption, LenProperties DEF RunRead
<1>2. IsRunValue' = IsRunValue
  BY DEF IsRunValue, TakesNext
<1>3. IsRunValue[index + 1] <=> TakesNext(runArgv[index])
  <2>1. index + 1 \in 0 .. n + 1 /\ index + 1 > 1 /\ index + 1 - 1 = index
    BY <1>1
  <2> QED
    BY <1>1, <2>1, RunValuesRead
<1>4. HasNext /\ TakesNext(runArgv[index]) => ~IsRunValue[index + 2]
  <2>1. HasNext => index + 2 \in 0 .. n + 1 /\ index + 2 > 1 /\ index + 2 - 1 = index + 1
    BY <1>1 DEF HasNext
  <2> QED
    BY <1>1, <1>3, <2>1, RunValuesRead
<1>5. index' \in 1 .. n + 1 /\ ~IsRunValue[index']
  BY <1>1, <1>3, <1>4 DEF HasNext
<1>6. Before' = Before \cup {index} /\ index \notin Before
  <2>1. Before' = {i \in 1 .. index' - 1 : ~IsRunValue[i]}
    BY <1>2 DEF Before
  <2>2. index \notin Before
    BY <1>1 DEF Before
  <2>3. CASE index' = index + 1
    <3>1. 1 .. index' - 1 = (1 .. index - 1) \cup {index}
      BY <1>1, <2>3
    <3> QED
      BY <1>1, <2>1, <2>2, <3>1 DEF Before
  <2>4. CASE index' = index + 2 /\ TakesNext(runArgv[index])
    <3>1. 1 .. index' - 1 = (1 .. index - 1) \cup {index, index + 1}
      BY <1>1, <2>4
    <3>2. IsRunValue[index + 1]
      BY <1>3, <2>4
    <3> QED
      BY <1>1, <2>1, <2>2, <3>1, <3>2 DEF Before
  <2> QED
    BY <2>3, <2>4
<1>7. HasNext => runArgv[index + 1] # Null
  <2>1. HasNext => index + 1 \in 1 .. n
    BY <1>1 DEF HasNext
  <2> QED
    BY <1>1, <2>1
<1> QED
  BY <1>1, <1>2, <1>5, <1>6, <1>7

\* The options of run are of three kinds.
LEMMA RunOptions ==
    /\ \A word \in OutputOptions :
          word \notin DOMAIN LogOptions /\ TakesNext(word)
    /\ \A word \in DOMAIN LogOptions :
          /\ word \notin OutputOptions /\ ~TakesNext(word)
          /\ LogOptions[word] \in {"A", "R"}
    /\ \A word \in SkippedOptions :
          /\ word \notin OutputOptions /\ word \notin DOMAIN LogOptions
          /\ TakesNext(word)
    /\ OutputOptions \cup DOMAIN LogOptions \cup SkippedOptions
          \subseteq KnownArguments \ {"--"}
BY DEF OutputOptions, LogOptions, SkippedOptions, TakesNext, KnownArguments

LEMMA RunReadNext ==
    ASSUME RunRead, RunNext PROVE RunRead'
<1>1. CASE UNCHANGED <<runArgv, index, given>>
  <2>1. IsRunValue' = IsRunValue
    BY <1>1 DEF IsRunValue, TakesNext
  <2> QED
    BY <1>1, <2>1 DEF RunRead, Before, OutputsAmong, LogsAmong
<1>2. CASE OutputArgument /\ index' = index + 2
  <2>1. /\ runArgv' = runArgv /\ index <= Len(runArgv) /\ runArgv[index] \in OutputOptions
        /\ HasNext /\ given.output = Null
        /\ given' = [given EXCEPT !.output = runArgv[index + 1]]
    BY <1>2 DEF OutputArgument, RunRead
  <2>2. /\ IsRunValue' = IsRunValue
        /\ index' \in 1 .. Len(runArgv) + 1 /\ ~IsRunValue[index']
        /\ Before' = Before \cup {index} /\ index \notin Before
        /\ runArgv[index + 1] # Null
    BY <1>2, <2>1, BeforeGrows, RunOptions
  <2>3. /\ DOMAIN given' = {"output", "log"}
        /\ given'.output = runArgv[index + 1] /\ given'.log = given.log
    BY <2>1 DEF RunRead
  <2>4. OutputsAmong(Before)' = {index} /\ LogsAmong(Before)' = LogsAmong(Before)
    BY <2>1, <2>2, RunOptions DEF RunRead, OutputsAmong, LogsAmong
  <2>5. \E i \in Before' :
           OutputsAmong(Before)' = {i} /\ given'.output = runArgv'[i + 1]
    BY <2>1, <2>2, <2>3, <2>4
  <2>6. given'.log = {LogOptions[runArgv'[i]] : i \in LogsAmong(Before)'}
    BY <2>1, <2>3, <2>4 DEF RunRead
  <2>7. given'.output # Null
    BY <2>2, <2>3
  <2>8. \A i \in Before' : runArgv'[i] \in KnownArguments \ {"--"}
    BY <2>1, <2>2, RunOptions DEF RunRead
  <2> QED
    BY <2>1, <2>2, <2>3, <2>5, <2>6, <2>7, <2>8 DEF RunRead
<1>3. CASE LogArgument
  <2>1. /\ runArgv' = runArgv /\ index <= Len(runArgv) /\ index' = index + 1
        /\ runArgv[index] \in DOMAIN LogOptions
        /\ given' = [given EXCEPT !.log = @ \cup {LogOptions[runArgv[index]]}]
    BY <1>3 DEF LogArgument
  <2>2. /\ IsRunValue' = IsRunValue
        /\ index' \in 1 .. Len(runArgv) + 1 /\ ~IsRunValue[index']
        /\ Before' = Before \cup {index} /\ index \notin Before
    BY <2>1, BeforeGrows, RunOptions
  <2>3. /\ DOMAIN given' = {"output", "log"} /\ given'.output = given.output
        /\ given'.log = given.log \cup {LogOptions[runArgv[index]]}
    BY <2>1 DEF RunRead
  <2>4. /\ OutputsAmong(Before)' = OutputsAmong(Before)
        /\ LogsAmong(Before)' = LogsAmong(Before) \cup {index}
    BY <2>1, <2>2, RunOptions DEF RunRead, OutputsAmong, LogsAmong
  <2>5. given'.log = {LogOptions[runArgv'[i]] : i \in LogsAmong(Before)'}
    BY <2>1, <2>3, <2>4 DEF RunRead
  <2> QED
    BY <2>1, <2>2, <2>3, <2>4, <2>5, RunOptions DEF RunRead
<1>4. CASE ToolArgument /\ index' = index + 2
  <2>1. /\ runArgv' = runArgv /\ index <= Len(runArgv) /\ HasNext
        /\ runArgv[index] \in SkippedOptions /\ given' = given
    BY <1>4 DEF ToolArgument, RunRead
  <2>2. /\ IsRunValue' = IsRunValue
        /\ index' \in 1 .. Len(runArgv) + 1 /\ ~IsRunValue[index']
        /\ Before' = Before \cup {index} /\ index \notin Before
    BY <1>4, <2>1, BeforeGrows, RunOptions
  <2>3. /\ OutputsAmong(Before)' = OutputsAmong(Before)
        /\ LogsAmong(Before)' = LogsAmong(Before)
    BY <2>1, <2>2, RunOptions DEF OutputsAmong, LogsAmong
  <2>4. given'.log = {LogOptions[runArgv'[i]] : i \in LogsAmong(Before)'}
    BY <2>1, <2>3 DEF RunRead
  <2>5. \A i \in Before' : runArgv'[i] \in KnownArguments \ {"--"}
    BY <2>1, <2>2, RunOptions DEF RunRead
  <2>6. given'.output # Null =>
           \E i \in Before' :
              OutputsAmong(Before)' = {i} /\ given'.output = runArgv'[i + 1]
    BY <2>1, <2>2, <2>3 DEF RunRead
  <2>7. given'.output = Null => OutputsAmong(Before)' = {}
    BY <2>1, <2>3 DEF RunRead
  <2> QED
    BY <2>1, <2>2, <2>4, <2>5, <2>6, <2>7 DEF RunRead
<1> QED
  BY <1>1, <1>2, <1>3, <1>4
     DEF RunNext, OutputArgument, ToolArgument, ArgumentsEnd, MakeDirectory, FillVector,
         SpawnWithVector, ReadVector, RunTerminating, runVars

LEMMA RunPhaseNext ==
    ASSUME RunPhase, RunNext PROVE RunPhase'
<1>1. CASE OutputArgument \/ LogArgument \/ ToolArgument \/ ArgumentsEnd
  <2>1. /\ runPc = "parse" /\ UNCHANGED <<cliVars, capture_argv>>
        /\ runPc' \in {"parse", "directory", "done"}
        /\ runPc' = "directory" => Complete /\ UNCHANGED <<runArgv, index, given>>
    BY <1>1 DEF OutputArgument, LogArgument, ToolArgument, ArgumentsEnd, RunTrouble
  <2>2. Start(<<>>, FALSE)' /\ pc' = "unborn"
    BY <2>1 DEF RunPhase, cliVars, Start
  <2>3. runPc' = "directory" => Complete'
    BY <2>1 DEF Complete, Command
  <2> QED
    BY <2>1, <2>2, <2>3 DEF RunPhase
<1>2. CASE MakeDirectory \/ FillVector \/ SpawnWithVector
  <2>1. /\ UNCHANGED <<runArgv, index, given>>
        /\ runPc \in {"directory", "vector", "spawn"}
        /\ runPc' \in {"vector", "spawn", "wait", "done"}
        /\ runPc' \in {"spawn", "wait"} => runPc \in {"vector", "spawn"}
        /\ runPc' = "vector" => given.output \in DOMAIN CapturePath
        /\ runPc' = "spawn" => capture_argv' = Filled
        /\ runPc' = "wait" =>
              /\ runPc = "spawn" /\ argv' = Tail(capture_argv) /\ pc' # "unborn"
        /\ runPc' # "wait" => UNCHANGED cliVars
    BY <1>2 DEF MakeDirectory, FillVector, SpawnWithVector, RunTrouble
  <2>2. Complete' = Complete /\ Filled' = Filled
    BY <2>1 DEF Complete, Command, Filled, LogFlags
  <2>3. runPc' # "wait" => Start(<<>>, FALSE)' /\ pc' = "unborn"
    BY <2>1 DEF RunPhase, cliVars, Start
  <2> QED
    BY <2>1, <2>2, <2>3 DEF RunPhase
<1>3. CASE ReadVector
  <2>1. /\ UNCHANGED <<runArgv, index, given, capture_argv, runPc>> /\ argv' = argv
        /\ pc # "unborn" /\ pc' # "unborn"
    BY <1>3 DEF ReadVector, runVars, CliStep, HelpAlone, NextArgument, PassOperand, Option,
                EndOfOptions, ShowHelp, Refuse, CallRun, Exits
  <2>2. Complete' = Complete /\ Filled' = Filled
    BY <2>1 DEF Complete, Command, Filled, LogFlags
  <2> QED
    BY <2>1, <2>2 DEF RunPhase
<1>4. CASE RunTerminating
  <2>1. UNCHANGED <<runArgv, index, given, capture_argv, runPc>> /\ UNCHANGED cliVars
    BY <1>4 DEF RunTerminating, runVars
  <2>2. Complete' = Complete /\ Filled' = Filled
    BY <2>1 DEF Complete, Command, Filled, LogFlags
  <2> QED
    BY <2>1, <2>2 DEF RunPhase, cliVars, Start
<1> QED
  BY <1>1, <1>2, <1>3, <1>4 DEF RunNext

\* The command is words of run's command line.
LEMMA CommandWords ==
    ASSUME RunRead PROVE Command \in Seq(Words)
<1>1. runArgv \in Seq(Words) /\ index \in 1 .. Len(runArgv) + 1
  BY DEF RunRead
<1>2. \A i \in index + 1 .. Len(runArgv) : runArgv[i] \in Words
  BY <1>1, LenProperties
<1> QED
  BY <1>1, <1>2, SubSeqProperties DEF Command

\* The same, for the state a step leads to.
LEMMA ReadNext ==
    /\ Started' => CliInv'
    /\ Vector' => VectorLayout'
<1>1. Started' => CliInv'
  BY StartRead, PTL
<1>2. Vector' => VectorLayout'
  BY VectorRead, PTL
<1> QED
  BY <1>1, <1>2

LEMMA PassInvNext ==
    ASSUME PassInv, [RunNext]_<<runVars, cliVars>> PROVE PassInv'
<1>1. CASE RunNext
  <2>1. RunRead' /\ RunPhase'
    BY <1>1, RunReadNext, RunPhaseNext DEF PassInv
  <2>2. CASE [CliNext]_cliVars
    BY <2>1, <2>2, CliInvNext DEF PassInv
  <2>3. CASE SpawnWithVector /\ runPc' = "wait"
    <3>1. /\ runPc = "spawn" /\ UNCHANGED <<runArgv, index, given>> /\ pc' = "parse"
          /\ UNCHANGED <<optind, cluster, value, operands, options, command, exit>>
      BY <2>3 DEF SpawnWithVector, RunTrouble
    <3>2. Vector'
      <4>1. argv' = Tail(Filled)' /\ given'.output \in DOMAIN CapturePath
        BY <2>1, <2>3 DEF RunPhase
      <4>2. Command' \in Seq(Words)
        BY <3>1, CommandWords DEF PassInv, Command
      <4> QED
        BY <4>1, <4>2 DEF Vector
    <3>3. argv' \in Seq(Words)
      BY <3>2, ReadNext DEF VectorLayout
    <3>4. Started'
      BY <3>1, <3>3 DEF PassInv, RunPhase, Started, Start
    <3> QED
      BY <2>1, <3>4, ReadNext DEF PassInv
  <2>4. [CliNext]_cliVars \/ (SpawnWithVector /\ runPc' = "wait")
    BY <1>1
       DEF RunNext, OutputArgument, LogArgument, ToolArgument, ArgumentsEnd, MakeDirectory,
           FillVector, SpawnWithVector, RunTrouble, ReadVector, CliNext, RunTerminating
  <2> QED
    BY <2>2, <2>3, <2>4
<1>2. CASE UNCHANGED <<runVars, cliVars>>
  <2>1. CliInv'
    BY <1>2, CliInvNext DEF PassInv
  <2>2. RunRead' /\ RunPhase'
    <3>1. UNCHANGED <<runArgv, index, given, capture_argv, runPc>> /\ UNCHANGED cliVars
      BY <1>2 DEF runVars
    <3>2. Complete' = Complete /\ Filled' = Filled
      BY <3>1 DEF Complete, Command, Filled, LogFlags
    <3>3. IsRunValue' = IsRunValue
      BY <3>1 DEF IsRunValue, TakesNext
    <3>4. RunRead'
      BY <3>1, <3>3 DEF PassInv, RunRead, Before, OutputsAmong, LogsAmong
    <3> QED
      BY <3>1, <3>2, <3>4 DEF PassInv, RunPhase, cliVars, Start
  <2> QED
    BY <2>1, <2>2 DEF PassInv
<1> QED
  BY <1>1, <1>2

LEMMA RunStarts == RunInit => PassInv
<1> SUFFICES ASSUME RunInit PROVE PassInv
  OBVIOUS
<1>1. /\ runArgv \in Seq(Words) /\ index = 1 /\ given = [output |-> Null, log |-> {}]
      /\ runPc = "parse" /\ Start(<<>>, FALSE) /\ pc = "unborn"
  BY RunAssumption DEF RunInit, Nothing
<1>2. CliInv
  <2>1. <<>> \in Seq(Words)
    OBVIOUS
  <2> QED
    BY <1>1, <2>1, StartRead DEF Started, Start
<1>3. Len(runArgv) \in Nat /\ ~IsRunValue[1] /\ Before = {}
  BY <1>1, RunValuesRead DEF Before
<1>4. RunRead
  BY <1>1, <1>3 DEF RunRead, OutputsAmong, LogsAmong
<1>5. RunPhase
  BY <1>1 DEF RunPhase
<1> QED
  BY <1>2, <1>4, <1>5 DEF PassInv

THEOREM PassInvariance == RunSpec => []PassInv
BY RunStarts, PassInvNext, PTL DEF RunSpec

\* A vector that run hands over is read within its bounds like any other.
LEMMA RunTypesKept ==
    ASSUME PassInv, CliTypeOK, [RunNext]_<<runVars, cliVars>>
    PROVE  CliTypeOK'
<1>1. CASE [CliNext]_cliVars
  BY <1>1, TypesKept DEF PassInv
<1>2. CASE SpawnWithVector /\ runPc' = "wait"
  <2>1. PassInv' /\ runPc = "spawn"
    BY <1>2, PassInvNext DEF SpawnWithVector
  <2>2. argv' \in Seq(Words) /\ Len(argv') \in Nat
    BY <2>1, LenProperties DEF PassInv, CliInv
  <2>3. Start(<<>>, FALSE)
    BY <2>1 DEF PassInv, RunPhase
  <2>4. /\ posix' \in BOOLEAN /\ err' \in BOOLEAN /\ pc' = "parse"
        /\ UNCHANGED <<optind, cluster, value, operands, options, command, exit>>
    BY <1>2 DEF SpawnWithVector, RunTrouble
  <2>5. optind' = 1 /\ 1 \in 1 .. Len(argv') + 1
    BY <2>2, <2>3, <2>4 DEF Start
  <2> QED
    BY <2>2, <2>4, <2>5 DEF CliTypeOK
<1>3. [CliNext]_cliVars \/ (SpawnWithVector /\ runPc' = "wait")
  BY DEF RunNext, OutputArgument, LogArgument, ToolArgument, ArgumentsEnd,
         MakeDirectory, FillVector, SpawnWithVector, RunTrouble, ReadVector, CliNext,
         RunTerminating, cliVars
<1> QED
  BY <1>1, <1>2, <1>3

\* What main starts with has its type.
LEMMA StartTyped ==
    ASSUME argv \in Seq(Words), posix \in BOOLEAN, err \in BOOLEAN, Start(argv, err),
           pc \in {"unborn", "parse", "done"}
    PROVE  CliTypeOK
<1>1. /\ optind = 1 /\ cluster = <<>> /\ operands = <<>> /\ value = Null
      /\ options = [flags |-> {}, report_dir |-> Null]
      /\ command = Null /\ exit = "none"
  BY DEF Start, NoOptions
<1>2. Len(argv) \in Nat
  BY LenProperties
<1>3. optind \in 1 .. Len(argv) + 1
  BY <1>1, <1>2
<1>4. /\ options \in [flags : SUBSET Flags,
                       report_dir : {Null} \cup Words \cup AttachedValues]
      /\ cluster \in Seq(STRING) /\ operands \in Seq(Words)
  BY <1>1
<1> QED
  BY <1>1, <1>3, <1>4, Zenon DEF CliTypeOK

\* Before main is called nothing has been read.
LEMMA RunTypesInit == RunInit => CliTypeOK
<1> SUFFICES ASSUME RunInit PROVE CliTypeOK
  OBVIOUS
<1>1. argv = <<>> /\ err = FALSE /\ posix = FALSE /\ pc = "unborn"
  BY DEF RunInit, Start
<1>2. Start(argv, err)
  BY DEF RunInit, Start
<1>3. argv \in Seq(Words)
  BY <1>1
<1> QED
  BY <1>1, <1>2, <1>3, StartTyped

\* getopt never reads past the end of the vector that run builds, for any
\* command line of run and any command.
THEOREM RunCliTypeCorrect == RunSpec => []CliTypeOK
BY RunTypesInit, RunTypesKept, PassInvariance, PTL DEF RunSpec

\* When the loop has ended, what was asked of run is set.
LEMMA WhatIsSet ==
    ASSUME PassInv, runPc = "wait", Ended
    PROVE  /\ Acceptable /\ command = Command
           /\ options.flags = given.log
           /\ options.report_dir = CapturePath[given.output]
<1> DEFINE f == Len(LogFlags)
           t == f + 3
           path == CapturePath[given.output]
<1>1. Vector /\ Command # <<>> /\ Command \in Seq(Words) /\ RunRead /\ Passed
  BY CommandWords DEF PassInv, RunPhase, Vector, Complete, Ended
<1>2. /\ f \in Nat /\ argv \in Seq(Words) /\ Len(argv) = t + Len(Command)
      /\ \A k \in 1 .. f : argv[k] = LogFlags[k] /\ argv[k] \in {"-A", "-R"}
      /\ argv[f + 1] = "-o" /\ argv[f + 2] = path /\ argv[t] = "--"
      /\ SubSeq(argv, f + 4, Len(argv)) = Command
      /\ \A k \in 1 .. f + 1 : ~IsValue[k] /\ IsOption(argv[k])
      /\ IsValue[f + 2] /\ ~IsValue[t]
  BY <1>1, VectorRead DEF VectorLayout
<1>3. path \in Words /\ path # ""
  BY <1>1, VectorRead DEF VectorLayout
<1>4. /\ "A" \in given.log <=> \E k \in 1 .. f : LogFlags[k] = "-A"
      /\ "R" \in given.log <=> \E k \in 1 .. f : LogFlags[k] = "-R"
      /\ path = CapturePath[given.output]
  BY LogFlagsFacts
<1> HIDE DEF f, path
<1>5. t \in Terminators
  <2>1. Len(Command) \in Nat /\ t \in 1 .. Len(argv)
    BY <1>1, <1>2
  <2> QED
    BY <1>2, <2>1 DEF Terminators
<1>6. \A i : i \in OptionsBefore(t) <=> i \in 1 .. f + 1
  <2>1. 1 .. t - 1 = (1 .. f + 1) \cup {f + 2}
    BY <1>2
  <2>2. f + 2 \notin 1 .. f + 1
    BY <1>2
  <2> QED
    BY <1>2, <2>1, <2>2 DEF OptionsBefore
<1>7. SettingsBefore(t)
  BY <1>2, <1>5, <1>6, SettingsRead
<1>8. command = Command
  <2>1. t + 1 = f + 4
    BY <1>2
  <2> QED
    BY <1>2, <1>7, <2>1 DEF SettingsBefore
<1>9. \A i \in 1 .. f + 1 : i = f + 1 \/ i \in 1 .. f
  BY <1>2
<1>10. options.report_dir = path
  <2>1. f + 1 \in 1 .. f + 1
    BY <1>2
  <2>2. options.report_dir # Null
    BY <1>2, <1>6, <1>7, <2>1, CaptureOptions DEF SettingsBefore
  <2>3. PICK i \in 1 .. f + 1 :
           \/ argv[i] \in DOMAIN Attached
           \/ WantsValue(argv[i]) /\ options.report_dir = argv[i + 1]
    BY <1>6, <1>7, <2>2 DEF SettingsBefore
  <2>4. i = f + 1
    <3> SUFFICES ASSUME i \in 1 .. f PROVE FALSE
      BY <1>9
    <3>1. argv[i] \in {"-A", "-R"}
      BY <1>2
    <3> QED
      BY <2>3, <3>1, CaptureOptions
  <2>5. argv[i] = "-o" /\ argv[i + 1] = path
    <3>1. i + 1 = f + 2
      BY <1>2, <2>4
    <3> QED
      BY <1>2, <2>4, <3>1
  <2> QED
    BY <2>3, <2>5, CaptureOptions
<1>11. \A flag \in Flags :
         flag \in options.flags <=>
            \E i \in 1 .. f + 1 :
               \E k \in DOMAIN Letters[argv[i]] : Letters[argv[i]][k] = flag
  BY <1>6, <1>7 DEF SettingsBefore
<1>12. \A i \in 1 .. f + 1 : \A k \in DOMAIN Letters[argv[i]] :
          /\ Letters[argv[i]][k] = "A" => i \in 1 .. f /\ LogFlags[i] = "-A"
          /\ Letters[argv[i]][k] = "R" => i \in 1 .. f /\ LogFlags[i] = "-R"
          /\ Letters[argv[i]][k] \in {"A", "R", "o"}
  <2> SUFFICES ASSUME NEW i \in 1 .. f + 1, NEW k \in DOMAIN Letters[argv[i]]
               PROVE  /\ Letters[argv[i]][k] = "A" => i \in 1 .. f /\ LogFlags[i] = "-A"
                      /\ Letters[argv[i]][k] = "R" => i \in 1 .. f /\ LogFlags[i] = "-R"
                      /\ Letters[argv[i]][k] \in {"A", "R", "o"}
    OBVIOUS
  <2>1. CASE i \in 1 .. f
    <3>1. LogFlags[i] = argv[i] /\ argv[i] \in {"-A", "-R"}
      BY <1>2, <2>1
    <3> QED
      BY <2>1, <3>1, CaptureOptions
  <2>2. CASE i = f + 1
    <3>1. argv[i] = "-o"
      BY <1>2, <2>2
    <3> QED
      BY <3>1, CaptureOptions
  <2> QED
    BY <1>9, <2>1, <2>2
<1>13. \A i \in 1 .. f :
          /\ i \in 1 .. f + 1 /\ 1 \in DOMAIN Letters[argv[i]]
          /\ LogFlags[i] = "-A" => Letters[argv[i]][1] = "A"
          /\ LogFlags[i] = "-R" => Letters[argv[i]][1] = "R"
  <2> SUFFICES ASSUME NEW i \in 1 .. f
               PROVE  /\ i \in 1 .. f + 1 /\ 1 \in DOMAIN Letters[argv[i]]
                      /\ LogFlags[i] = "-A" => Letters[argv[i]][1] = "A"
                      /\ LogFlags[i] = "-R" => Letters[argv[i]][1] = "R"
    OBVIOUS
  <2>1. /\ i \in 1 .. f + 1
        /\ LogFlags[i] = argv[i] /\ argv[i] \in {"-A", "-R"}
    BY <1>2
  <2> QED
    BY <2>1, CaptureOptions
<1>14. options.flags = given.log
  <2>1. given.log \subseteq {"A", "R"}
    BY <1>1, RunOptions DEF RunRead, LogsAmong
  <2>2. options.flags \subseteq {"A", "R"}
    <3>1. "h" \notin options.flags /\ "v" \notin options.flags
      BY <1>11, <1>12 DEF Flags
    <3>2. options.flags \subseteq {"h", "v", "A", "R"}
      BY <1>1 DEF Passed, Flags
    <3> QED
      BY <3>1, <3>2
  <2>3. "A" \in options.flags <=> "A" \in given.log
    BY <1>11, <1>12, <1>13, <1>4 DEF Flags
  <2>4. "R" \in options.flags <=> "R" \in given.log
    BY <1>11, <1>12, <1>13, <1>4 DEF Flags
  <2> QED
    BY <2>1, <2>2, <2>3, <2>4
<1>15. Acceptable
  BY <1>1, <1>3, <1>8, <1>10, WordsAssumption DEF Acceptable
<1> QED
  BY <1>4, <1>8, <1>10, <1>14, <1>15

\* inspect-capture is not called with anything to refuse or with a request for
\* help, so an error in it is from before its command line is read.
LEMMA NothingToBlame ==
    ASSUME PassInv, runPc = "wait"
    PROVE  argv # <<"--help">> /\ (err => optind = 1)
<1> DEFINE f == Len(LogFlags)
<1>1. Vector /\ Command # <<>> /\ Command \in Seq(Words) /\ Len(Command) \in Nat \ {0}
  <2>1. Vector /\ Command # <<>> /\ Command \in Seq(Words)
    BY CommandWords DEF PassInv, RunPhase, Vector, Complete
  <2> QED
    BY <2>1, EmptySeq, LenProperties
<1>2. /\ f \in Nat /\ argv \in Seq(Words) /\ Len(argv) = f + 3 + Len(Command)
      /\ \A k \in 1 .. f : argv[k] \in {"-A", "-R"}
      /\ argv[f + 1] = "-o" /\ argv[f + 3] = "--"
      /\ \A k \in 1 .. f + 1 : ~IsValue[k] /\ IsOption(argv[k])
      /\ IsValue[f + 2] /\ ~IsValue[f + 3]
  BY <1>1, VectorRead DEF VectorLayout
<1>3. /\ DOMAIN argv = 1 .. Len(argv) /\ Len(argv) \in Nat /\ f + 3 \in DOMAIN argv
      /\ Len(argv) # 1
  BY <1>1, <1>2, LenProperties
<1>4. argv # <<"--help">>
  BY <1>3
<1>7. Passed /\ optind \in 1 .. Len(argv) + 1
  BY <1>4 DEF PassInv, CliInv
<1>8. optind <= f + 3
  <2> SUFFICES ASSUME f + 3 < optind PROVE FALSE
    BY <1>2, <1>3, <1>7
  <2>1. f + 3 \in 1 .. optind - 1
    BY <1>2, <1>3, <1>7
  <2> QED
    BY <1>2, <1>7, <2>1 DEF Passed
<1>9. \A i \in 1 .. optind - 1 : ~IsValue[i] => i \in 1 .. f + 1
  <2> SUFFICES ASSUME NEW i \in 1 .. f + 2, ~IsValue[i] PROVE i \in 1 .. f + 1
    BY <1>2, <1>3, <1>7, <1>8
  <2> QED
    BY <1>2
<1>10. \A i \in 1 .. f + 1 : \A k \in DOMAIN Letters[argv[i]] :
          Letters[argv[i]][k] \in {"A", "R", "o"}
  <2> SUFFICES ASSUME NEW i \in 1 .. f + 1
               PROVE  \A k \in DOMAIN Letters[argv[i]] :
                         Letters[argv[i]][k] \in {"A", "R", "o"}
    OBVIOUS
  <2>1. argv[i] \in {"-A", "-R", "-o"}
    <3>1. i \in 1 .. f \/ i = f + 1
      BY <1>2
    <3> HIDE DEF f
    <3> QED
      BY <1>2, <3>1
  <2>2. \A letter : \A k \in DOMAIN <<letter>> : <<letter>>[k] = letter
    OBVIOUS
  <2>3. Letters[argv[i]] \in {<<"A">>, <<"R">>, <<"o">>}
    BY <2>1, CaptureAssumption
  <2> QED
    BY <2>2, <2>3
<1>11. "h" \notin options.flags
  <2> SUFFICES ASSUME "h" \in options.flags PROVE FALSE
    OBVIOUS
  <2>1. PICK i \in DOMAIN argv : \E k \in DOMAIN Letters[argv[i]] :
           Acted(i, k) /\ Letters[argv[i]][k] = "h"
    BY <1>7 DEF Passed
  <2>2. i \in 1 .. optind - 1 /\ ~IsValue[i]
    BY <1>3, <1>7, <2>1 DEF Acted
  <2>3. i \in 1 .. f + 1
    BY <1>9, <2>2
  <2> QED
    BY <1>10, <2>1, <2>3
<1>12. \A i \in 1 .. optind - 1 : ~Mistaken(i)
  <2> SUFFICES ASSUME NEW i \in 1 .. optind - 1, Mistaken(i) PROVE FALSE
    OBVIOUS
  <2>1. i \in 1 .. f + 1
    BY <1>9 DEF Mistaken
  <2>2. i # Len(argv)
    BY <1>1, <1>2, <2>1
  <2> QED
    BY <1>10, <2>1, <2>2 DEF Mistaken, Flags
<1>13. err => optind = 1
  <2> SUFFICES ASSUME err, optind # 1 PROVE FALSE
    OBVIOUS
  <2>1. Blamed /\ argv \in Seq(Words)
    BY <1>4 DEF PassInv, CliInv
  <2>2. ~Acceptable /\ Ended
    BY <1>7, <1>11, <1>12, <2>1 DEF Blamed, Ended
  <2> QED
    BY <2>2, WhatIsSet
<1> QED
  BY <1>4, <1>13

\* What run was asked for is what inspect-capture does.
LEMMA PassedThrough ==
    ASSUME PassInv PROVE RunPassesThrough
<1> SUFFICES ASSUME runPc = "wait" PROVE RunPassesThrough
  BY DEF RunPassesThrough
<1>1. argv # <<"--help">> /\ (err => optind = 1)
  BY NothingToBlame
<1>2. ASSUME pc \in {"parsed", "run"}, ~err
      PROVE  \E t \in RunTerminators :
                LET before == {i \in 1 .. t - 1 : ~IsRunValue[i]} IN
                /\ RunTerminators \cap before = {}
                /\ Acceptable
                /\ command = SubSeq(runArgv, t + 1, Len(runArgv))
                /\ options.flags = {LogOptions[runArgv[i]] :
                        i \in {j \in before : runArgv[j] \in DOMAIN LogOptions}}
                /\ \E i \in before :
                    /\ {j \in before : runArgv[j] \in OutputOptions} = {i}
                    /\ options.report_dir = CapturePath[runArgv[i + 1]]
  <2>1. Ended
    BY <1>1, <1>2 DEF PassInv, CliInv, Ended
  <2>2. /\ Acceptable /\ command = Command /\ options.flags = given.log
        /\ options.report_dir = CapturePath[given.output]
    BY <2>1, WhatIsSet
  <2>3. RunRead /\ Complete
    BY DEF PassInv, RunPhase
  <2>4. index \in RunTerminators
    <3>1. index \in DOMAIN runArgv
      BY <2>3, LenProperties DEF RunRead, Complete
    <3> QED
      BY <2>3, <3>1 DEF RunTerminators, RunRead, Complete
  <2>5. RunTerminators \cap Before = {}
    BY <2>3 DEF RunRead, RunTerminators
  <2>6. \E i \in Before :
           OutputsAmong(Before) = {i} /\ given.output = runArgv[i + 1]
    BY <2>3 DEF RunRead, Complete
  <2>7. given.log = {LogOptions[runArgv[i]] : i \in LogsAmong(Before)}
    BY <2>3 DEF RunRead
  <2> QED
    BY <2>2, <2>4, <2>5, <2>6, <2>7 DEF Before, OutputsAmong, LogsAmong, Command
<1> QED
  BY <1>1, <1>2 DEF RunPassesThrough

\* What was asked of run is what inspect-capture does.
THEOREM RunPassesThroughHolds == RunSpec => []RunPassesThrough
<1>1. PassInv => RunPassesThrough
  BY PassedThrough
<1> QED
  BY <1>1, PassInvariance, PTL
=============================================================================
