SPECIFICATION Spec
CONSTANTS
    Slots = {0}
    Modulus = 8
    MaxOps = 2
    Requests <- MCAll
    Before = {0, 7}
    MaxRequest = 2
    MaxCopy = 3
CHECK_DEADLOCK FALSE
INVARIANT SlotsInv
INVARIANT TrueAnswer
PROPERTY Answered
