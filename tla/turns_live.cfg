SPECIFICATION FairSpec
CONSTANTS
  p1 = p1  p2 = p2  p3 = p3  k1 = k1  k2 = k2
  None = None
  Procs <- TwoProcs
  Keys <- TwoKeys
  Threshold = 2
  MaxChunks = 1
  DeferDiscard = TRUE
PROPERTIES CallsRelease
CHECK_DEADLOCK FALSE
