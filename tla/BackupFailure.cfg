CONSTANTS
    Names <- MCNames
    MaxIds = 2
    MaxKills = 0
    MaxBackups = 1
    MaxRestores = 1

SPECIFICATION Spec
PROPERTY FailureLeavesState
CHECK_DEADLOCK FALSE
