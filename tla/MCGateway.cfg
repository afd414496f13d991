SPECIFICATION Spec
CONSTANTS
    Contents <- MCContents
    MaxBridges = 2
    MaxHups = 1
    MaxEdits = 1
INVARIANTS
    TypeOK
    WorkersUseLiveObjects
    NoForgottenThread
    StartedBridgesReleased
PROPERTIES
    ImplementsService
