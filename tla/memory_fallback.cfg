SPECIFICATION Spec
CONSTANTS
  r1 = r1  r2 = r2  r3 = r3  f1 = f1  f2 = f2  s1 = s1  s2 = s2
  Runs <- TwoRuns
  Facts <- TwoFacts
  Alike <- AllAlike
  Sessions <- TwoSessions
  Session = s1
  OtherMaintainers = {"other"}
  MaxMerges = 1
  MaxTicks = 0
  MaxPasses = 0
  MaxFails = 0
  MaxRestarts = 0
INVARIANTS SimilarStays
CHECK_DEADLOCK FALSE
