------------------------------ MODULE MCAnalyze ------------------------------
(***************************************************************************)
(* Analyze for TLC.  Nothing tells one invocation of analyze from another, *)
(* so their identities may be permuted.                                    *)
(***************************************************************************)
EXTENDS Analyze, TLC

AnalyzerSymmetry == Permutations(Analyzers)

\* A bound: overlapping invocations are followed over one kind of capture only,
\* a sealed one of a command that exited zero, without --force.
OverlapBound ==
    overlapped =>
        /\ receipt # Absent
        /\ receipt.status = "exit0" /\ Len(receipt.lines) = Len(RoleOrder)
        /\ \A r \in Outputs : artifact[r].chunks # {}
        /\ \A a \in Analyzers : ~force[a]
=============================================================================
