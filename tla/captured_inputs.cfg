SPECIFICATION Spec
CONSTANTS
    Fields = {"id", "tasks"}
    Ids <- TwoIds
    Leaves <- NumbersAndText
    Models = {User, Oozer}
    MaxInternal = 3
    MaxStored = 2
INVARIANTS
    OnlyNumbersUnderIdChange
    SubselectionPerRelation
    BooksTellCreates
    UnvalidatedOnRequest
CHECK_DEADLOCK FALSE
