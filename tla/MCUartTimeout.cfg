SPECIFICATION Spec
CONSTANTS
    Params <- MCParams
    Unset = Unset
    Leftover <- MCLeftover
    Data <- MCData
    Timeout = 2
    MaxTicks = 2
INVARIANT TimeoutHonoured
CHECK_DEADLOCK FALSE
