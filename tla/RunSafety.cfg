SPECIFICATION FairRunSpec
CONSTANTS
    Captures = {first, second}
    Absent = Absent
    Outputs = {"calls"}
    Flagged = {"calls"}
    Lingering = FALSE
INVARIANTS
    RunTypeOK
    OneCapturePerDirectory
PROPERTIES
    ExitContract
    EvidenceStays
    RunEnds
