SPECIFICATION Spec
CONSTANTS
    Contents <- MCSpiOnly
    MaxBridges = 2
    MaxHups = 1
    MaxEdits = 0
INVARIANT CallbackTargetLive
