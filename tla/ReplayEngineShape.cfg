SPECIFICATION Spec
CONSTANTS
    Wids <- MCWids
    StepIds <- MCStepIds
    Bodies <- MCBodies
    Versions <- RedeployVersions
    Do <- MCDo
    Values = {"v1"}
    None = None
    Engines = {e1}
    MaxFaults = 0
    Exclusive = TRUE
PROPERTY
    ChangedShapeDetected
