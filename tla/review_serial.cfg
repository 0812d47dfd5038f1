SPECIFICATION SerialSpec
CONSTANTS
  Message = {m1}
  Analyst = {a1, a2}
  Worker = {w1, w2}
  NoOne = NoOne
  SoftHold = TRUE
  MaxRuns = 2
  MaxRequests = 3
  MaxCrashes = 0
INVARIANTS AuditChainUnbroken ReviewerMadeLastDecision
PROPERTIES ImplementsLifecycle CondemnedReachesQueue
CHECK_DEADLOCK FALSE
