CONSTANTS
    Units = {"unit-rdda-sub"}
    Users = {"rdda", "root"}
    MaxFlips = 2
    MaxFails = 1
    MaxUpsets = 1

SPECIFICATION FairSpec
INVARIANTS
    TypeOK
    SilencedWasTold
    FileIsInbox
    NoRepeats
PROPERTIES
    FirstOutageReported
    Settles
CHECK_DEADLOCK FALSE
