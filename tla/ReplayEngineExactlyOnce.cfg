SPECIFICATION Spec
CONSTANTS
    Wids <- MCWids
    StepIds <- MCStepIds
    Bodies <- MCBodies
    Versions <- FixedVersions
    Do <- MCDo
    Values = {"v1"}
    None = None
    Engines = {e1}
    MaxFaults = 1
    Exclusive = TRUE
INVARIANT
    NeverRepeatsEffect
