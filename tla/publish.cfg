SPECIFICATION FairSpec
CONSTANTS
    Destinations = {"ghcr", "dev", "production"}
    Table <- TwoComponents
    World <- Worlds
    Made <- AnyKind
    Wasi = {"wasi:io", "wasi:http"}
    MaxCommits = 2
    Bounds <- OneOfEach
INVARIANTS
    TypeOK
    PinnedNamesCommit
    OnlyMatchingBuilds
    NothingOfHalfATable
    ProductionFromMain
    PublishedTogether
PROPERTIES
    PublicationEnds
CHECK_DEADLOCK FALSE
