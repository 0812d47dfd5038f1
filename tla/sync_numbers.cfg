SPECIFICATION Spec
CONSTANTS
  Run = {r1, r2}
  BatchSize = 2
  SoftHold = FALSE
  AnalysisVerdict = {}
  MaxUid = 3
  MaxEpoch = 2
  MaxExpunged = 1
  MaxSyncs = 3
  MaxCrashes = 1
  MaxAdmin = 0
SYMMETRY Interchangeable
INVARIANTS UniqueMindwallUid
PROPERTIES PassedOverByPosition MindwallUidsAscend CheckpointNeverRegresses
CHECK_DEADLOCK FALSE
