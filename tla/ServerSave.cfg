SPECIFICATION FairSpec
CONSTANTS
    Savers = {"autosave", "stop"}
    LadderSkipsBad = FALSE
    MaxGen = 4
    MaxDamage = 2
CHECK_DEADLOCK FALSE
INVARIANTS
    TypeOK StopSavesAcks
PROPERTIES
    IntactSurvives ImplementsSavedWorld StopCompletes
