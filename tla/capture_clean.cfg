SPECIFICATION Spec
CONSTANTS
    Models = {User, Oozer}
    Existing = 1
    ReserveFaults = {"status"}
    MutationFaults = {"refuse", "lost", "status"}
    ChunkSize = 1
    Relations = TRUE
    MaxDepth = 2
    MaxMutations = 3
SYMMETRY ModelSymmetry
INVARIANTS
    TypeOK
    OneRecordPerName
    RecordOfItsModel
PROPERTIES
    NoTrap
    NumberingRefined
