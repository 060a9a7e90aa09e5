CONSTANTS
    Names <- MCNames
    MaxIds = 3
    MaxKills = 1
    Pulls = {timer}
    MaxFaults = 1

SPECIFICATION FairSpec
INVARIANTS
    TypeOK
    ListIsComplete
    ListIsFresh
    RevokedStaysOut
PROPERTY EventuallySynced
CHECK_DEADLOCK FALSE
