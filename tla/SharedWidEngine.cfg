SPECIFICATION Spec
CONSTANTS
    Wids <- MCWids
    StepIds <- MCStepIds
    Bodies <- MCBodies
    Versions <- RedeployVersions
    Do <- MCDo
    Values = {"v1", "v2"}
    None = None
    MaxDepth = 1
    MaxFaults = 2
INVARIANTS
    TypeOK
    IInv
PROPERTIES
    SeparateHistories
    DurableSpec
