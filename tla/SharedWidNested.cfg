SPECIFICATION Spec
CONSTANTS
    Wids <- MCWids
    StepIds <- MCStepIds
    Bodies <- MCBodies
    Versions <- FixedVersions
    Do <- MCDo
    Values = {"v1", "v2"}
    None = None
    MaxDepth = 2
    MaxFaults = 0
PROPERTY
    SeparateHistories
