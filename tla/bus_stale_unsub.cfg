SPECIFICATION Spec
CONSTANTS
  s1 = s1  s2 = s2  s3 = s3  h1 = h1  h2 = h2  h3 = h3
  NoSession = NoSession
  Sessions <- TwoSessions
  Subscribers <- ThreeSubscribers
  BufferSize = 1
  QueueSize = 1
  MaxSessions = 1
  SlowPolicy = "DropSubscriber"
  MaxEvents = 3
  MaxInflight = 1
SYMMETRY Symmetry
PROPERTIES ClosedOnlyForCause
CHECK_DEADLOCK FALSE
