SPECIFICATION Spec
CONSTANTS
  Run = {r1}
  BatchSize = 2
  SoftHold = FALSE
  AnalysisVerdict = {"allow", "quarantine"}
  MaxUid = 2
  MaxEpoch = 2
  MaxExpunged = 0
  MaxSyncs = 2
  MaxCrashes = 0
  MaxAdmin = 0
INVARIANTS CheckpointOfItsEpoch
CHECK_DEADLOCK FALSE
