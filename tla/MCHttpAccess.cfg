SPECIFICATION FairSpec
CONSTANTS
    Conns <- MCConns
    Requests <- MCRequests
    FirstCap = 2
    MaxFails = 2
INVARIANTS
    TypeOK
    AccumulatorSound
    WholeBodyOnce
    LeaksAccounted
PROPERTIES
    Answered
CHECK_DEADLOCK FALSE
