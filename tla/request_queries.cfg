SPECIFICATION RequestSpec
CONSTANTS
    Models = {User, Oozer}
    MaxInternal = 3
    MaxStored = 1
INVARIANTS
    QueriesPassThrough
CHECK_DEADLOCK FALSE
