SPECIFICATION Spec
CONSTANTS
    Captures = {first, second}
    Absent = Absent
    Outputs = {"stdout", "calls"}
    Lingering = FALSE
INVARIANTS
    TypeOK
    NeverRunUnrecorded
    AcceptedIsOneRun
    AcceptedIsWhole
    ToolReceiptBindsEverything
PROPERTIES
    ExitSealsEvidence
    ImplementsCustody
SYMMETRY CaptureSymmetry
