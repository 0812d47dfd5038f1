SPECIFICATION Spec
CONSTANTS
  Message = {m1}
  Analyst = {a1}
  Worker = {w1, w2}
  NoOne = NoOne
  SoftHold = FALSE
  MaxRuns = 3
  MaxRequests = 0
  MaxCrashes = 0
INVARIANTS ItemMatchesRun
CHECK_DEADLOCK FALSE
