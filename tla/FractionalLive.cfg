SPECIFICATION Spec
CONSTANTS
    Slots = 2
    MaxTimers = 3
    MaxDelay = 9
    MaxNow = 8
INVARIANT
    SizeIsLive
