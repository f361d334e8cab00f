SPECIFICATION Spec
CONSTANTS
    Models = {User, Oozer}
    Existing = 1
    ReserveFaults = {}
    MutationFaults = {"refuse"}
    ChunkSize = 1
    Relations = FALSE
    MaxDepth = 2
    MaxMutations = 2
SYMMETRY ModelSymmetry
PROPERTIES
    OkMeansAllApplied
