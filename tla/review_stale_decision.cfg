SPECIFICATION Spec
CONSTANTS
  Message = {m1}
  Analyst = {a1, a2}
  Worker = {w1}
  NoOne = NoOne
  SoftHold = FALSE
  MaxRuns = 1
  MaxRequests = 2
  MaxCrashes = 0
INVARIANTS AuditChainUnbroken
CHECK_DEADLOCK FALSE
