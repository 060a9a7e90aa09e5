CONSTANTS
    MaxTag = 2
    MaxPolls = 2
    Umasks = {TRUE}
    MaxFaults = 0
    MaxByHand = 0

SPECIFICATION FairSpec
INVARIANT PathIsWhole
CHECK_DEADLOCK FALSE
