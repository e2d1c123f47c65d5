SPECIFICATION BesideSpec
CONSTANTS
    Vectors <- EveryVector
    Contents <- EveryDisk
    Order <- ManifestOrder
    Seals <- Variants
    Null = Null
    Analyses = {before, after}
    Findings <- SomeFindings
    MaxFindings = 3
INVARIANTS
    ViewDelivers
    DamageIsTrouble
    CompareTruthful
    IndexIsOfTheFindings
