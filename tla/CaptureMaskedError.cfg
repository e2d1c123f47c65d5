SPECIFICATION Spec
CONSTANTS
    Captures = {first}
    Absent = Absent
    Outputs = {"stdout", "calls"}
    Lingering = FALSE
PROPERTIES
    TroubleOnFailedWrite
