SPECIFICATION LiveSpec
CONSTANTS
    Slots = 2
    Timers = {t1, t2}
    MaxDelay = 3
    MaxNow = 5
    MaxDepth = 3
    MaxRaises = 2
INVARIANTS
    TypeOK
    IInv
    Punctual
    OnePlace
    SizeAccounted
PROPERTIES
    RunsOnceUnlessCancelled
    AdvanceEnds
