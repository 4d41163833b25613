SPECIFICATION LiveSpec
CONSTANTS
    Slots = 3
    MaxTimers = 2
    MaxDelay = 5
    MaxNow = 8
    MaxPanics = 1
INVARIANTS
    TypeOK
    FiresWhenDue
    NothingKept
    OnePlace
    Accounted
    IInv
PROPERTIES
    TimerSpec
    CancelledNeverFires
    InOrder
    EventuallyLeaves
