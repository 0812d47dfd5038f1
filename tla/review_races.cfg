SPECIFICATION Spec
CONSTANTS
  Message = {m1}
  Analyst = {a1, a2}
  Worker = {w1, w2}
  NoOne = NoOne
  SoftHold = FALSE
  MaxRuns = 2
  MaxRequests = 2
  MaxCrashes = 1
SYMMETRY HandlerSymmetry
INVARIANTS TypeOK SessionInv StatusIsLastDecision ItemRunCondemned CreatedOnce
CHECK_DEADLOCK FALSE
