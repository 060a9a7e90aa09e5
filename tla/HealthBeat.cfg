SPECIFICATION FairSpec
CONSTANTS
    MinGap = 1
    MaxGap = 3
    StaleAfter = 5
    MinAlert = 1
    MaxAlert = 2
    Tries = 2
    Lists <- MCLists
    Skew <- MCSkew
    MaxFlips = 2
    MaxFaults = 1
INVARIANTS
    TypeOK
    OutageIsTold
    BlockIsTold
PROPERTIES
    DownHasACause
    BlockedHasACause
    Settles
