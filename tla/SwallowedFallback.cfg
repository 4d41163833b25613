SPECIFICATION Spec
CONSTANTS
    Wids <- MCWids
    StepIds = {"a", "b"}
    Bodies <- MCBodies
    Catching <- MCCatching
    Versions <- MixedVersions
    Do <- MCDo
    Values = {"v1", "v2"}
    None = None
    MaxFaults = 0
INVARIANT
    OnlyChangedShapeRejected
