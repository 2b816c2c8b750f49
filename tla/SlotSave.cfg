SPECIFICATION FairSpec
CONSTANTS
    Savers = {"worker", "frame"}
    LadderSkipsBad = TRUE
    MaxGen = 4
    MaxDamage = 1
    MaxNew = 2
CHECK_DEADLOCK FALSE
INVARIANTS
    TypeOK ClaimedIsStored LeftAsItWas
PROPERTIES
    ImplementsSavedWorld LeaveCompletes
