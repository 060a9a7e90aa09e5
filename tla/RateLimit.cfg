CONSTANTS
    Keys = {a, b}
    Burst = 4
    Rate = 1
    Cost = 2
    SweepEvery = 2
    MaxTime = 7

SPECIFICATION WSpec
INVARIANTS
    TypeOK
    SweptMapIsRecent
    SustainedRate
    WindowBudget
PROPERTY LosslessEviction
CHECK_DEADLOCK FALSE
