SPECIFICATION FairSpec
CONSTANTS
    Models = {User, Oozer}
    Existing = 1
    ReserveFaults = {"refuse", "lost", "miscount", "status"}
    MutationFaults = {"refuse", "lost", "status"}
    ChunkSize = 1
    Relations = FALSE
    MaxDepth = 1
    MaxMutations = 3
INVARIANTS
    
    SentAtMostOnce
    CreateSentFirst
PROPERTIES
    OkMeansSent
    ApplyEnds
