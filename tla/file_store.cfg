SPECIFICATION Spec
CONSTANTS
  c1 = c1  c2 = c2  i1 = i1  i2 = i2  o1 = o1  o2 = o2  o3 = o3  o4 = o4
  None = None
  Clients <- TwoClients
  Ids <- TwoIds
  Objects <- FourObjects
  Faults <- AllFaults
  MaxAppends = 3
  MaxDeletes = 1
  MaxCrashes = 1
  MaxFaults = 1
SYMMETRY Symmetry
INVARIANTS LoadAgrees OneObject NothingSurvivesDeletion LoadsInOrder
PROPERTIES ImplementsDurable
CHECK_DEADLOCK FALSE
