SPECIFICATION Spec
CONSTANTS
    c = c
    a1 = a1
    Absent = Absent
    Captures = {c}
    Analyzers = {a1}
    Outputs = {"calls"}
    Flagged = {"calls"}
    Lingering = FALSE
PROPERTY ZeroMeansCleanCommand
