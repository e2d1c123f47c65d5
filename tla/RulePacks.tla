------------------------------- MODULE RulePacks -------------------------------
(***************************************************************************)
(* model check: the arguments are pairs of --rules and the name of a built *)
(* in pack, whose rules are held against a loaded analysis one by one.     *)
(***************************************************************************)
EXTENDS Facts

CONSTANTS
    CheckVectors, \* the arguments behind the directory: at least two
    CheckLoads    \* loaded analyses

VARIABLES
    checkArgv,   \* those arguments
    index,       \* the pair looked at, less one
    rule_index,  \* the rules of its pack that are done
    checkLoaded, \* what load_analysis_directory built
    violations,  \* diagnostics written
    checkPc,     \* the next call
    checkExit    \* the status of model_check

checkVars == <<checkArgv, index, rule_index, checkLoaded, violations, checkPc,
               checkExit>>

ASSUME VectorsAssumption ==
    \A vector \in CheckVectors : vector \in Seq(STRING) /\ Len(vector) >= 2

-----------------------------------------------------------------------------
(* The catalog.                                                            *)

Rule(identifier, kind, pattern) ==
    [identifier |-> identifier, kind |-> kind, pattern |-> pattern]

Forbid(identifier, pattern) == Rule(identifier, "forbid-finding", pattern)

SecureC ==
    <<Forbid("P101-POLICY-SECURE-001", "P101-FD-*"),
      Forbid("P101-POLICY-SECURE-002", "P101-ALLOC-*"),
      Forbid("P101-POLICY-SECURE-003", "P101-RESOURCE-*"),
      Forbid("P101-POLICY-SECURE-004", "P101-SYNC-*")>>

PackNames == {"concurrency", "resource-clean", "secure-c"}

RulePack == [name \in PackNames |->
    CASE name = "concurrency" -> <<Forbid("P101-POLICY-SYNC-001", "P101-SYNC-*")>>
      [] name = "resource-clean" ->
            <<Forbid("P101-POLICY-RESOURCE-001", "P101-FD-*"),
              Forbid("P101-POLICY-RESOURCE-002", "P101-ALLOC-*"),
              Forbid("P101-POLICY-RESOURCE-003", "P101-RESOURCE-*")>>
      [] name = "secure-c" -> SecureC]

RuleHasEvidence(rule) ==
    \/ /\ rule.kind \in {"forbid-finding", "require-finding"}
       /\ AnalysisHasFinding(checkLoaded, rule.pattern)
    \/ /\ rule.kind \in {"forbid-call", "require-call"}
       /\ HasCall(checkLoaded, rule.pattern)
    \/ rule.kind = "require-edge" /\ HasEdge(checkLoaded, rule.pattern)
    \/ rule.kind = "require-resource" /\ HasResource(checkLoaded, rule.pattern)

Violated(rule) ==
    IF rule.kind \in {"forbid-finding", "forbid-call"}
    THEN RuleHasEvidence(rule)
    ELSE ~RuleHasEvidence(rule)

-----------------------------------------------------------------------------
CheckInit ==
    /\ checkArgv \in CheckVectors
    /\ index = 0
    /\ rule_index = 0
    /\ checkLoaded \in CheckLoads
    /\ violations = 0
    /\ checkPc = "load"
    /\ checkExit = "none"

CheckExits(status) ==
    /\ checkPc' = "done"
    /\ checkExit' = status

LoadToCheck ==
    /\ checkPc = "load"
    /\ \/ checkPc' = "pack" /\ UNCHANGED checkExit
       \/ CheckExits("trouble")
    /\ UNCHANGED <<checkArgv, index, rule_index, checkLoaded, violations>>

IsPair ==
    /\ index + 1 < Len(checkArgv)
    /\ checkArgv[index + 1] = "--rules"
    /\ checkArgv[index + 2] \in PackNames

\* The next two arguments: an option and a pack there is.
FindRulePack ==
    /\ checkPc = "pack"
    /\ index < Len(checkArgv)
    /\ \/ IsPair /\ checkPc' = "rule" /\ UNCHANGED checkExit
       \/ ~IsPair /\ CheckExits("trouble")
    /\ UNCHANGED <<checkArgv, index, rule_index, checkLoaded, violations>>

\* One rule; a diagnostic that cannot be written is trouble.
CheckRule ==
    LET rules == RulePack[checkArgv[index + 2]] IN
    /\ checkPc = "rule"
    /\ rule_index < Len(rules)
    /\ rule_index' = rule_index + 1
    /\ \/ /\ ~Violated(rules[rule_index + 1])
          /\ UNCHANGED <<violations, checkPc, checkExit>>
       \/ /\ Violated(rules[rule_index + 1])
          /\ violations' = violations + 1
          /\ UNCHANGED <<checkPc, checkExit>>
       \/ /\ Violated(rules[rule_index + 1])
          /\ CheckExits("trouble")
          /\ UNCHANGED violations
    /\ UNCHANGED <<checkArgv, index, checkLoaded>>

\* Mutation: the count starts again with every pack.
MutantPackDone ==
    /\ checkPc = "rule"
    /\ rule_index = Len(RulePack[checkArgv[index + 2]])
    /\ rule_index' = 0
    /\ index' = index + 2
    /\ violations' = IF index + 2 < Len(checkArgv) THEN 0 ELSE violations
    /\ checkPc' = "pack"
    /\ UNCHANGED <<checkArgv, checkLoaded, checkExit>>

PackDone ==
    /\ checkPc = "rule"
    /\ rule_index = Len(RulePack[checkArgv[index + 2]])
    /\ rule_index' = 0
    /\ index' = index + 2
    /\ checkPc' = "pack"
    /\ UNCHANGED <<checkArgv, checkLoaded, violations, checkExit>>

CheckDone ==
    /\ checkPc = "pack"
    /\ index >= Len(checkArgv)
    /\ CheckExits(IF violations = 0 THEN "success" ELSE "findings")
    /\ UNCHANGED <<checkArgv, index, rule_index, checkLoaded, violations>>

CheckTerminating == checkPc = "done" /\ UNCHANGED checkVars

CheckNext ==
    \/ LoadToCheck \/ FindRulePack \/ CheckRule \/ PackDone \/ CheckDone
    \/ CheckTerminating

CheckSpec == CheckInit /\ [][CheckNext]_checkVars

-----------------------------------------------------------------------------
(* Properties.                                                             *)

Breaks(pack) ==
    \E i \in DOMAIN RulePack[pack] : Violated(RulePack[pack][i])

\* Packs are conditions that must all hold: whatever their order and however
\* often one is named, the status is success if none is broken and findings
\* if some is, and an argument that is not understood, wherever it stands, is
\* trouble and never a verdict on the packs before it.  And secure-c is the
\* strictest pack: what breaks any other breaks it as well.
CheckedAgainstAll ==
    checkPc = "done" /\ checkExit # "trouble" =>
        /\ Len(checkArgv) % 2 = 0
        /\ \A i \in DOMAIN checkArgv :
              IF i % 2 = 1 THEN checkArgv[i] = "--rules"
              ELSE checkArgv[i] \in PackNames
        /\ checkExit = "findings" <=>
              \E i \in DOMAIN checkArgv : i % 2 = 0 /\ Breaks(checkArgv[i])
        /\ checkExit = "findings" => Breaks("secure-c")
=============================================================================
