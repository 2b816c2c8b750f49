SPECIFICATION Spec
CONSTANTS
    Savers = {"worker", "frame"}
    LadderSkipsBad = TRUE
    MaxGen = 4
    MaxDamage = 1
    MaxNew = 1
CHECK_DEADLOCK FALSE
PROPERTIES
    IntactSurvives
