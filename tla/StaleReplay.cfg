\* An edit and its removal while the chunk is being generated.
SPECIFICATION FairSpec
CONSTANTS
  Workers = {w1}
  NearCap = 2
  KeepR = 4
  MaxPanics = 0
  NoJob = NoJob
  NoView = NoView
  NoEye = NoView
  Chunks = {0, 1, 2, 5, 6, 7}
  Mixed = {0, 1}
  Eyes = {1, 6}
  MeshR = 0
  DataR = 1
  UnloadR = 2
  EditSites <- MCEditSites
  UploadMax = 2
  DirtyBudget = 1
  MaxStrikes = 1
  MaxMoves = 3
  MaxEdits = 2
  MaxUploadFails = 0
  Reverts = TRUE
INVARIANT VoxelsAreOverlay
CHECK_DEADLOCK FALSE
