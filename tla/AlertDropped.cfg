CONSTANTS
    Units = {"unit-rdda-sub"}
    Users = {"rdda"}
    MaxFlips = 2
    MaxFails = 1
    MaxUpsets = 0

SPECIFICATION FairSpec
PROPERTY NothingDropped
CHECK_DEADLOCK FALSE
