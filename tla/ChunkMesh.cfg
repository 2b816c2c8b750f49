\* Two places for the eye, so that chunks 0 and 1 are generated, meshed, edited,
\* unloaded and loaded again while their jobs are anywhere in the pool.
SPECIFICATION FairSpec
CONSTANTS
  Workers = {w1, w2}
  NearCap = 2
  KeepR = 4
  MaxPanics = 2
  NoJob = NoJob
  NoView = NoView
  NoEye = NoView
  Chunks = {0, 1, 2, 5, 6, 7}
  Mixed = {0, 1}
  Eyes = {1, 6}
  MeshR = 0
  DataR = 1
  UnloadR = 2
  EditSites <- MCEditSites
  UploadMax = 2
  DirtyBudget = 1
  MaxStrikes = 2
  MaxMoves = 3
  MaxEdits = 1
  MaxUploadFails = 1
  Reverts = FALSE
INVARIANTS ClaimsOwed NothingForgotten DrawnIsCurrent VoxelsAreOverlay WorkIsSeen
PROPERTY WantedDrawn
CHECK_DEADLOCK FALSE
