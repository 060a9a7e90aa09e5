CONSTANTS
    Names <- MCNames
    MaxIds = 3
    MaxKills = 0
    Pulls = {timer}
    MaxFaults = 0

SPECIFICATION FairSpec
PROPERTY NewClientsReachRU
CHECK_DEADLOCK FALSE
