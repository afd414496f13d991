SPECIFICATION FairSpec
CONSTANTS
    Bridges <- MCBridges
    Ids <- MCIds
    Unset = Unset
    Worlds <- MCApart
    MaxAnswers = 1
    MaxDrops = 1
PROPERTY AcceptedIsDelivered
CHECK_DEADLOCK FALSE
