----------------------------- MODULE FindingIndex -----------------------------
(***************************************************************************)
(* write_finding_index: the findings of an analysis are sorted by qsort    *)
(* with finding_pointer_compare and printed.  `model compare` compares the *)
(* indexes of two analyses byte by byte, so an index must not depend on    *)
(* the order in which its analysis found things, although qsort is not     *)
(* stable and the comparison does not look at all that a finding has.      *)
(***************************************************************************)
EXTENDS Integers, Sequences, FiniteSets

CONSTANTS
    Analyses,   \* the analyses whose indexes are compared
    Findings,   \* the findings they may make
    MaxFindings \* the most one makes

VARIABLES
    found,   \* analysis -> its findings, in the order it made them
    indexes, \* analysis -> the lines of its finding-index.tsv
    indexPc  \* analysis -> whether the index is written

indexVars == <<found, indexes, indexPc>>

\* The fields finding_pointer_compare looks at, in its order.  Strings are
\* integers here, in the order of strcmp.
IndexFields == <<"diagnostic_id", "file_name", "line_number", "function_name",
            "evidence_from", "evidence_to">>
FieldCount == 6

Keys == [1 .. FieldCount -> Int]

\* A finding also has a message, and more, that are not compared.
ASSUME FindingsAssumption == Findings \subseteq [key : Keys, message : Int]
ASSUME MaxFindingsAssumption == MaxFindings \in Nat

Lists == UNION {[1 .. n -> Findings] : n \in 0 .. MaxFindings}

IndexInit ==
    /\ found \in [Analyses -> Lists]
    /\ indexes = [a \in Analyses |-> <<>>]
    /\ indexPc = [a \in Analyses |-> "sort"]

-----------------------------------------------------------------------------
\* Mutation: the line number is not compared.
MutantComesBefore(x, y) ==
    \E i \in (1 .. FieldCount) \ {3} :
        /\ x.key[i] < y.key[i]
        /\ \A j \in (1 .. i - 1) \ {3} : x.key[j] = y.key[j]

\* finding_pointer_compare is negative: the first field that differs is less.
ComesBefore(x, y) ==
    \E i \in 1 .. FieldCount :
        /\ x.key[i] < y.key[i]
        /\ \A j \in 1 .. i - 1 : x.key[j] = y.key[j]

\* What qsort promises, given a consistent comparison: the same findings, none
\* of them behind one it comes before.  Equals come in any order.
Ordered(list) ==
    \A i, j \in DOMAIN list : i < j => ~ComesBefore(list[j], list[i])

Shuffles(list) ==
    {[i \in DOMAIN list |-> list[p[i]]] :
        p \in {q \in [DOMAIN list -> DOMAIN list] :
                  \A i, j \in DOMAIN list : q[i] = q[j] => i = j}}

\* One fprintf for each finding, of the fields.
Printed(list) == [i \in DOMAIN list |-> list[i].key]

WriteIndex(a) ==
    /\ indexPc[a] = "sort"
    /\ \E list \in Shuffles(found[a]) :
          /\ Ordered(list)
          /\ indexes' = [indexes EXCEPT ![a] = Printed(list)]
    /\ indexPc' = [indexPc EXCEPT ![a] = "done"]
    /\ UNCHANGED found

IndexTerminating ==
    /\ \A a \in Analyses : indexPc[a] = "done"
    /\ UNCHANGED indexVars

IndexNext == (\E a \in Analyses : WriteIndex(a)) \/ IndexTerminating

IndexSpec == IndexInit /\ [][IndexNext]_indexVars

-----------------------------------------------------------------------------
(* Properties.                                                             *)

Occurrences(list, key) == Cardinality({i \in DOMAIN list : list[i].key = key})

SameFindings(a, b) ==
    \A key \in {f.key : f \in Findings} :
        Occurrences(found[a], key) = Occurrences(found[b], key)

\* Two analyses have the same index exactly when they made the same findings:
\* neither the order in which they made them, nor what qsort does with equal
\* ones, nor what is not compared shows in it.
IndexIsOfTheFindings ==
    \A a, b \in Analyses :
        indexPc[a] = "done" /\ indexPc[b] = "done" =>
            (indexes[a] = indexes[b] <=> SameFindings(a, b))
=============================================================================
