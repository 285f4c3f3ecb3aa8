SPECIFICATION FairSpec
CONSTANTS
    None = None
    Inputs <- MCInputs
    AdapterPanics = TRUE
    MaxCalls = 3
INVARIANT TypeOK
INVARIANT InitializedStays
INVARIANT OrphansExplained
PROPERTY NothingBlocks
CHECK_DEADLOCK FALSE
