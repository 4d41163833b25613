SPECIFICATION LiveSpec
CONSTANTS
    Wids <- MCWids
    StepIds <- MCStepIds
    Bodies <- MCBodies
    Versions <- RedeployVersions
    Do <- MCDo
    Values = {"v1", "v2"}
    None = None
    Engines = {e1, e2}
    MaxFaults = 1
    Exclusive = TRUE
INVARIANTS
    TypeOK
    IInv
    EffectsAccounted
    LiveStepExtendsHistory
    NoFalseAlarm
    ReplaysCountRecordings
PROPERTIES
    AppendOnly
    CompletedForGood
    DurableSpec
    EventuallyReturns
