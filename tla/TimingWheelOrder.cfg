SPECIFICATION Spec
CONSTANTS
    Slots = 3
    MaxTimers = 2
    MaxDelay = 5
    MaxNow = 9
    MaxPanics = 0
INVARIANTS
    TimeOrder
