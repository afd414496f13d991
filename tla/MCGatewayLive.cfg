SPECIFICATION FairSpec
CONSTANTS
    Contents <- MCOneBridge
    MaxBridges = 1
    MaxHups = 2
    MaxEdits = 2
PROPERTIES
    HupTakesEffect
    StopTakesEffect
