SPECIFICATION Spec
CONSTANTS
    MaxParts = 2
    MaxManifests = 2
    MaxAudits = 2
    Retention = 2
    MaxTime = 2
    MaxFaults = 2
    Reverts = TRUE
    Losses = TRUE
INVARIANTS CopiedBeforeRemoved RevertFindsMedia
PROPERTIES ShownMediaIsComplete
