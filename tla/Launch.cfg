SPECIFICATION LaunchSpec
CONSTANTS
    Vectors <- CaptureLines
    RunVectors <- RunLines
    Words <- Dictionary
    Letters <- Clusters
    Attached <- Values
    CapturePath <- CapturePaths
    Overhead = 7
    Null = Null
    Makers = {m1, m2}
    Arguments <- ShortPaths
    Names <- FileNames
    Length <- NameLengths
    PathLen = 9
    Occupied <- PlainFiles
    FaultFields <- TwoFields
    MaxDepth = 2
    MaxFailures = 1
    Unset = Unset
    Empty = Empty
    On = On
    Own = Own
    Asked = Asked
INVARIANTS
    LaunchTypeOK
    OwnObservation
    ParsedAsMeant
    MistakesAreTrouble
    VectorFits
    RunPassesThrough
    NothingCut
    NoStrayDirectory
    DirectoryMade
    FaultsAsRequested
    HelperSeesNothing
