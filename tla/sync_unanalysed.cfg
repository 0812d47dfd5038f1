SPECIFICATION Spec
CONSTANTS
  Run = {r1}
  BatchSize = 2
  SoftHold = FALSE
  AnalysisVerdict = {"allow", "quarantine"}
  MaxUid = 1
  MaxEpoch = 1
  MaxExpunged = 0
  MaxSyncs = 2
  MaxCrashes = 0
  MaxAdmin = 0
INVARIANTS AnalysedBeforeVisible
CHECK_DEADLOCK FALSE
