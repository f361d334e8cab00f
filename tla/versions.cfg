SPECIFICATION Spec
CONSTANTS
    Pulls = {u1, u2}
    Packages = {p1, p2}
    Edits <- SomeEdits
    MaxPushes = 3
SYMMETRY Alike
INVARIANTS
    RefusedForCause
PROPERTIES
    CheckedMergeBumps
CHECK_DEADLOCK FALSE
