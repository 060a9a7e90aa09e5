SPECIFICATION FairSpec
CONSTANTS
    HostPairs <- MCHostPairs
    MaxFaults = 1
    Silent = TRUE
    Candidates = 3
    MaxConc = 2
    RTTs = {1, 2}
    MaxEdits = 1
INVARIANTS
    TypeOK
    EnabledIsRouted
    EditsSurvive
    LoopNeverStuck
PROPERTIES
    PickIsNearest
    RerunsSucceed
CHECK_DEADLOCK FALSE
