SPECIFICATION Spec
CONSTANTS
    Captures = {first, second}
    Absent = Absent
    Outputs = {"calls"}
    Lingering = FALSE
PROPERTIES
    ImmutableEvidence
