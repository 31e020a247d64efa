SPECIFICATION Spec
CONSTANTS
  Copies = {"original", "copy"}
  Original = "original"
  Requests = {r1, r2}
  Premium = {"gpt-5"}
  Plain = {"gpt-4o"}
  Auto = "auto"
  Lifetime = 3
  Buffer = 1
  MaxClock = 4
  MaxFailures = 1
INVARIANT ExpiredTokensAreReplaced
CHECK_DEADLOCK FALSE
