SPECIFICATION Spec
CONSTANTS
    Names <- MCNames
    Types <- MCTypes
    Paths <- MCPaths
    Mains <- MCMains
    Fragments <- MCFragments
    HexTexts <- MCHexTexts
INVARIANTS
    TypeOK
    FirstDefinitionCounts
    AcceptedBridgesResolve
    AcceptedParamsArrive
PROPERTIES
    MeaningIsStable
CHECK_DEADLOCK FALSE
