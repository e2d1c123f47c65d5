SPECIFICATION Spec
CONSTANTS
    c = c
    a1 = a1
    a2 = a2
    Absent = Absent
    Captures = {c}
    Analyzers = {a1, a2}
    Outputs = {"calls"}
    Flagged = {"calls"}
    Lingering = FALSE
INVARIANTS
    TypeOK
    AcceptedIsOneAnalysis
    ReplayAgrees
PROPERTIES
    ExitMatchesEvidence
    AcceptedIsFinal
CONSTRAINT OverlapBound
SYMMETRY AnalyzerSymmetry
