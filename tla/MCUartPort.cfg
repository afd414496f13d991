SPECIFICATION Spec
CONSTANTS
    Params <- MCParams
    Unset = Unset
    Leftover <- MCLeftover
    Data <- MCData
    Timeout = 2
    MaxTicks = 2
INVARIANTS
    TypeOK
    OpenedAsAsked
    NoDescriptorLeft
    WritesPrefix
CHECK_DEADLOCK FALSE
