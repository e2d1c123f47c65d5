SPECIFICATION InspectSpec
CONSTANTS
    Vectors <- SomeVectors
    Programs <- EveryProgram
    Chars <- TwoChars
    Name <- ShortName
    PathSize = 6
    Lessons = {"ID"}
    Loads <- SomeLoads
    ExpectationFiles <- EveryFile
    VerifyLoads <- Verified
    Modulus = 8
    CheckVectors <- EveryVector
    CheckLoads <- Checked
    Matching <- Pairs
INVARIANTS
    CaptureProgramWhole
    NothingLeaks
    VerdictIsOfTheLines
    DiagnosticsNameTheirLines
    CheckedAgainstAll
