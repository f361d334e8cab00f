SPECIFICATION FairSpec
CONSTANTS
    Clients = {c1, c2}
    Records = {r1}
    MaxCalls = 3
    Faults = {"refuse", "errors", "lost", "garbled"}
    Uploads = {u1, u2, u3}
    Files = {"cat", "dog"}
    Applications = {own, other}
    Own = own
    MaxMessages = 3
INVARIANTS
    TypeOK
    ExecutedOnce
    OkMeansStored
    UndecodableAsksNothing
    LogsAllOrNothing
    BothAreSent
PROPERTIES
    FetchSeesLastWrite
    CallEnds
CHECK_DEADLOCK FALSE
