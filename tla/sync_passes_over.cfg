SPECIFICATION Spec
CONSTANTS
  Run = {r1}
  BatchSize = 2
  SoftHold = FALSE
  AnalysisVerdict = {"allow", "quarantine"}
  MaxUid = 4
  MaxEpoch = 1
  MaxExpunged = 1
  MaxSyncs = 2
  MaxCrashes = 0
  MaxAdmin = 0
PROPERTIES NothingPassedOver
CHECK_DEADLOCK FALSE
