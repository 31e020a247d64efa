SPECIFICATION Spec
CONSTANTS
  p1 = p1  p2 = p2  p3 = p3  k1 = k1  k2 = k2
  None = None
  Procs <- ThreeProcs
  Keys <- OneKey
  Threshold = 2
  MaxChunks = 2
  DeferDiscard = FALSE
SYMMETRY Symmetry
INVARIANTS MutualExclusion WholeTurns UntaggedAnswersAreWhole UnlockFindsOwnLock RefsExact NoLockForgotten
PROPERTIES WritesUnderLock ImplementsSerialTurns
CHECK_DEADLOCK FALSE
