-------------------------------- MODULE Readers --------------------------------
(***************************************************************************)
(* p101-inspect model verify and model compare over two analysis           *)
(* directories, while a view -o may be writing to a file of one of them.   *)
(* Nothing is locked: analysis_result reads the files of a directory one   *)
(* after the other, and what follows opens them again.                     *)
(***************************************************************************)
EXTENDS View, FiniteSets

CONSTANTS
    Order,  \* the names of the manifest, in its order
    Seals   \* what the two analyses sealed: path -> blocks

VARIABLES
    sealed,     \* the contents the two manifests have fingerprints of
    reader,     \* "verify" or "compare"
    unverified, \* the directories analysis_result has not accepted yet
    listed,     \* manifest lines of the first of them that matched
    compared,   \* files of the pairs that were found equal
    position,   \* blocks of the present pair that were
    different,  \* *different
    readerPc,   \* the next call
    readerExit, \* EXIT_...
    damage,     \* history: the files that were not as sealed when it started
    broken      \* history: fgetc met a read error

readerVars == <<sealed, reader, unverified, listed, compared, position,
                different, readerPc, readerExit, damage, broken>>

Pair == <<"run-model.json", "finding-index.tsv">>

ASSUME OrderAssumption ==
    Order \in Seq(Listed) /\ {Order[i] : i \in DOMAIN Order} = Listed

Before == "before"
After == "after"
ReadBy == [verify |-> <<Before>>, compare |-> <<Before, After>>]

\* The file is as the manifest has it.
AsSealed(path) == path \in DOMAIN disk /\ disk[path] = sealed[path]
Matches(dir, name) == AsSealed(Path(dir, name))

ReadersInit ==
    /\ ViewInit
    /\ sealed \in Seals
    /\ reader \in DOMAIN ReadBy
    /\ unverified = ReadBy[reader]
    /\ listed = 0
    /\ compared = 0
    /\ position = 0
    /\ different = FALSE
    /\ readerPc = "begin"
    /\ readerExit = "none"
    /\ damage = {}
    /\ broken = FALSE

ReaderExits(status) ==
    /\ readerPc' = "done"
    /\ readerExit' = status

\* The receipt and the manifest are found valid, and the verification of what
\* the manifest lists begins.
Begin ==
    /\ readerPc = "begin"
    /\ readerPc' = "verify_artifact"
    /\ damage' = {path \in {Path(ReadBy[reader][i], name) :
                                i \in DOMAIN ReadBy[reader], name \in Listed} :
                     ~AsSealed(path)}
    /\ UNCHANGED <<disk, viewVars, sealed, reader, unverified, listed, compared,
                   position, different, readerExit, broken>>

\* Mutation: the first line of the manifest is passed over with its header.
MutantLineAccepted(dir) == listed = 0 \/ Matches(dir, Order[listed + 1])

LineAccepted(dir) == Matches(dir, Order[listed + 1])

\* One line of the manifest.
VerifyArtifact ==
    /\ readerPc = "verify_artifact"
    /\ listed < Len(Order)
    /\ \/ /\ LineAccepted(Head(unverified))
          /\ listed' = listed + 1
          /\ UNCHANGED <<readerPc, readerExit>>
       \/ ReaderExits("trouble") /\ UNCHANGED listed
    /\ UNCHANGED <<disk, viewVars, sealed, reader, unverified, compared, position,
                   different, damage, broken>>

\* analysis_result returns: to the other directory, or to what follows.
VerifyDone ==
    /\ readerPc = "verify_artifact"
    /\ listed = Len(Order)
    /\ listed' = 0
    /\ unverified' = Tail(unverified)
    /\ IF Tail(unverified) = <<>> THEN readerPc' = reader ELSE UNCHANGED readerPc
    /\ UNCHANGED <<disk, viewVars, sealed, reader, compared, position, different,
                   readerExit, damage, broken>>

\* model_verify loads the inputs and judges; see Expectations.
LoadInputs ==
    /\ readerPc = "verify"
    /\ \/ ReaderExits("trouble")
       \/ /\ \A name \in Inputs : Path(Before, name) \in DOMAIN disk
          /\ \E status \in {"success", "findings"} : ReaderExits(status)
    /\ UNCHANGED <<disk, viewVars, sealed, reader, unverified, listed, compared,
                   position, different, damage, broken>>

\* What fgetc returns at a position: a block, or EOF.
At(dir) ==
    LET file == disk[Path(dir, Pair[compared + 1])] IN
    IF position < Len(file) THEN <<file[position + 1]>> ELSE <<>>

\* Mutation: the files differ only where both have something.
MutantDiffer(left, right) == left # <<>> /\ right # <<>> /\ left # right

Differ(left, right) == left # right

\* compare_file_pair, one block.  An error reads as EOF.
CompareBlock ==
    /\ readerPc = "compare"
    /\ compared < Len(Pair) /\ ~different
    /\ \E left \in {At(Before), <<>>}, right \in {At(After), <<>>} :
          /\ broken' = (broken \/ left # At(Before) \/ right # At(After))
          /\ \/ /\ Differ(left, right)
                /\ different' = TRUE
                /\ UNCHANGED <<position, compared>>
             \/ /\ ~Differ(left, right)
                /\ left # <<>>
                /\ position' = position + 1
                /\ UNCHANGED <<different, compared>>
             \/ /\ ~Differ(left, right)
                /\ left = <<>>
                /\ compared' = compared + 1
                /\ position' = 0
                /\ UNCHANGED different
    /\ UNCHANGED <<disk, viewVars, sealed, reader, unverified, listed, readerPc,
                   readerExit, damage>>

\* An fopen or fclose of the pair fails.
PairFails ==
    /\ readerPc = "compare"
    /\ ReaderExits("trouble")
    /\ UNCHANGED <<disk, viewVars, sealed, reader, unverified, listed, compared,
                   position, different, damage, broken>>

CompareDone ==
    /\ readerPc = "compare"
    /\ compared = Len(Pair) \/ different
    /\ ReaderExits(IF different THEN "findings" ELSE "success")
    /\ UNCHANGED <<disk, viewVars, sealed, reader, unverified, listed, compared,
                   position, different, damage, broken>>

ReaderStep ==
    \/ Begin \/ VerifyArtifact \/ VerifyDone \/ LoadInputs \/ CompareBlock
    \/ PairFails \/ CompareDone

ViewBeside == ViewStep /\ UNCHANGED readerVars

ReadersTerminating ==
    /\ readerPc = "done" /\ viewPc = "done"
    /\ UNCHANGED <<disk, viewVars, readerVars>>

ReadersNext == ReaderStep \/ ViewBeside \/ ReadersTerminating

ReadersSpec == ReadersInit /\ [][ReadersNext]_<<disk, viewVars, readerVars>>

-----------------------------------------------------------------------------
(* Properties.                                                             *)

\* A verdict, be it success or findings, is only on directories that were
\* whole when the command began: damage done before is found, by whichever
\* line of the manifest, unless a view overwrites that very file meanwhile.
DamageIsTrouble ==
    readerExit \in {"success", "findings"} => damage \subseteq {Destination}

\* Compare says "the same" only of analyses whose sealed models and finding
\* indexes are the same, and "different" only of ones that differ.  Two things
\* can deceive it, and nothing else: a read error, which compare_file_pair
\* takes for the end of the file, and a view that writes to one of the four
\* files between its verification and the comparison.
CompareTruthful ==
    /\ reader = "compare" /\ readerExit \in {"success", "findings"}
    /\ ~broken
    /\ \/ viewPc = "parse"
       \/ \A dir \in {Before, After}, i \in DOMAIN Pair :
             Path(dir, Pair[i]) # Destination
    => (readerExit = "success" <=>
          \A i \in DOMAIN Pair :
              sealed[Path(Before, Pair[i])] = sealed[Path(After, Pair[i])])
=============================================================================
