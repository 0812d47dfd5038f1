SPECIFICATION FairSpec
CONSTANTS
  Run = {r1, r2}
  BatchSize = 2
  SoftHold = FALSE
  AnalysisVerdict = {"allow", "quarantine"}
  MaxUid = 2
  MaxEpoch = 2
  MaxExpunged = 0
  MaxSyncs = 2
  MaxCrashes = 1
  MaxAdmin = 1
INVARIANTS TypeOK QuarantinedHasReviewItem VisibilityMatchesVerdict
  ItemMapsItsMessage CheckpointBacked
PROPERTIES RunEnds
CHECK_DEADLOCK FALSE
