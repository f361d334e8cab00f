SPECIFICATION FairSpec
CONSTANTS
    Destinations = {"ghcr"}
    Table <- OneComponent
    World <- Worlds
    Made <- OnlySound
    Wasi = {"wasi:io", "wasi:http"}
    MaxCommits = 2
    Bounds <- BuildsOnly
PROPERTIES
    MovingTagNeverOlder
CHECK_DEADLOCK FALSE
