SPECIFICATION FairSpec
CONSTANTS
  s1 = s1  s2 = s2  s3 = s3  h1 = h1  h2 = h2  h3 = h3
  NoSession = NoSession
  Sessions <- TwoSessions
  Subscribers <- OneSubscriber
  BufferSize = 2
  QueueSize = 1
  MaxSessions = 1
  SlowPolicy = "DropSubscriber"
  MaxEvents = 4
  MaxInflight = 2
PROPERTIES ImplementsFeed NoGapWhileOpen CancelReleases UnsubEndsWatcher
CHECK_DEADLOCK FALSE
