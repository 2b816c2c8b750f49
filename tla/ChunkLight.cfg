SPECIFICATION FairSpec
CONSTANTS
  Size = 2
  Width = 2
  MaxLight = 4
  Landscapes <- MCLandscapes
  Edits <- MCEdits
  MaxStrikes = 2
  MaxEdits = 2
  MaxUpsets = 2
  LateLosses = FALSE
INVARIANTS UniqueOwner QuietIsSettled QuietFieldIsTrue
PROPERTY LightSettles
CHECK_DEADLOCK FALSE
