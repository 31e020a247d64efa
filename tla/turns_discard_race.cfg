SPECIFICATION Spec
CONSTANTS
  p1 = p1  p2 = p2  p3 = p3  k1 = k1  k2 = k2
  None = None
  Procs <- TwoProcs
  Keys <- OneKey
  Threshold = 0
  MaxChunks = 1
  DeferDiscard = TRUE
SYMMETRY Symmetry
INVARIANTS WholeTurns
CHECK_DEADLOCK FALSE
