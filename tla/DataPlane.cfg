SPECIFICATION FairSpec
CONSTANTS
    Hands = {"timer", "hand"}
    MaxRevs = 2
    MaxSets = 2
    MaxFaults = 1
    MaxByHand = 1
INVARIANTS
    TypeOK
    RuleSetIsWhole
CHECK_DEADLOCK FALSE
PROPERTIES
    CatchesUp
    EveryUnitIsHealed
