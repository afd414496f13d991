SPECIFICATION FairSpec
CONSTANTS
    Bridges <- MCBridges
    Ids <- MCIds
    Unset = Unset
    Worlds <- MCWorlds
    MaxAnswers = 2
    MaxDrops = 1
INVARIANTS
    TypeOK
    NothingElseLost
    LibraryHeld
    NoOldAfterNew
PROPERTIES
    ImplementsChannel
    ConnectionsSettle
CHECK_DEADLOCK FALSE
