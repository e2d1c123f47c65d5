SPECIFICATION Spec
CONSTANTS
    c = c
    a1 = a1
    Absent = Absent
    Captures = {c}
    Analyzers = {a1}
    Outputs = {"resources", "calls", "stderr", "stdout"}
    Flagged = {"calls"}
    Lingering = TRUE
INVARIANTS
    VerifiedMeansSealed
