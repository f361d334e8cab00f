SPECIFICATION Spec
CONSTANTS
    Pulls = {u1, u2}
    Packages = {p1}
    Edits <- SomeEdits
    MaxPushes = 2
INVARIANTS
    PassedMeansBumped
CHECK_DEADLOCK FALSE
