SPECIFICATION Spec
CONSTANTS
  s1 = s1  s2 = s2  s3 = s3  h1 = h1  h2 = h2  h3 = h3
  NoSession = NoSession
  Sessions <- TwoSessions
  Subscribers <- TwoSubscribers
  BufferSize = 2
  QueueSize = 1
  MaxSessions = 1
  SlowPolicy = "DropEvent"
  MaxEvents = 4
  MaxInflight = 1
SYMMETRY Symmetry
INVARIANTS OpenIffRegistered ReplayNeverBlocks
PROPERTIES ImplementsFeed ClosedOnlyForCause GrowsPastCapOnlyWhenBusy ResumeMissesNothing
CHECK_DEADLOCK FALSE
