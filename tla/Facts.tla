--------------------------------- MODULE Facts ---------------------------------
(***************************************************************************)
(* What model verify and model check ask of a loaded analysis: its         *)
(* findings, and the nodes and edges of its model.                         *)
(***************************************************************************)
EXTENDS Naturals, Sequences, FiniteSets

CONSTANT Matching \* the pairs <<pattern, value>> that fnmatch accepts

PatternMatches(pattern, value) == <<pattern, value>> \in Matching

\* The edges of lib_tool_event and the names they go by.
EdgeNames == {"call-parent", "call-return", "call-caused-event",
              "resource-lifetime", "process-child-event"}

ModelEdgeName(kind) == IF kind \in EdgeNames THEN kind ELSE "unknown"

AnalysisHasFinding(loaded, pattern) ==
    \E i \in DOMAIN loaded.findings : PatternMatches(pattern, loaded.findings[i])

\* A node without a name, a call that is not entered: no evidence.
HasCall(loaded, pattern) ==
    \E i \in DOMAIN loaded.nodes :
        /\ loaded.nodes[i].domain = "call"
        /\ loaded.nodes[i].kind = "enter"
        /\ loaded.nodes[i].name # "NULL"
        /\ PatternMatches(pattern, loaded.nodes[i].name)

HasResource(loaded, pattern) ==
    \E i \in DOMAIN loaded.nodes :
        /\ loaded.nodes[i].domain = "resource"
        /\ loaded.nodes[i].name # "NULL"
        /\ PatternMatches(pattern, loaded.nodes[i].name)

HasEdge(loaded, pattern) ==
    \E i \in DOMAIN loaded.edges :
        PatternMatches(pattern, ModelEdgeName(loaded.edges[i]))

EdgeCount(loaded, name) ==
    Cardinality({i \in DOMAIN loaded.edges :
                    ModelEdgeName(loaded.edges[i]) = name})
=============================================================================
