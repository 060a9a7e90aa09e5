CONSTANTS
    MaxTag = 3
    MaxPolls = 2
    Umasks = {TRUE, FALSE}
    MaxFaults = 2
    MaxByHand = 1

SPECIFICATION FairSpec
INVARIANTS
    TypeOK
    RestsOnRunnable
PROPERTIES
    RevertRestores
    KeepsOneGeneration
    EventuallyCurrent
CHECK_DEADLOCK FALSE
