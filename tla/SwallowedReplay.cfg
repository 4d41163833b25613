SPECIFICATION Spec
CONSTANTS
    Wids <- MCWids
    StepIds = {"a", "b"}
    Bodies <- MCBodies
    Catching <- MCCatching
    Versions <- RewrittenVersions
    Do <- MCDo
    Values = {"v1", "v2"}
    None = None
    MaxFaults = 2
INVARIANTS
    TypeOK
    EffectsAccounted
    ServedInOrder
    ServedUnderTheirIds
PROPERTY
    CleanAnswersStand
