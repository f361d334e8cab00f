SPECIFICATION Spec
CONSTANTS
    Models = {User, Oozer}
    Existing = 1
    ReserveFaults = {"refuse"}
    MutationFaults = {}
    ChunkSize = 1
    Relations = FALSE
    MaxDepth = 2
    MaxMutations = 3
SYMMETRY ModelSymmetry
INVARIANTS
    OneRecordPerName
