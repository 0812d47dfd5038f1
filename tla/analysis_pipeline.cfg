SPECIFICATION FairSpec
CONSTANTS
  Handler = {h1, h2}
  Mails <- MCMails
  Raws <- MCRaws
  Thresholds <- MCThresholds
  Gateway = FALSE
  SoftHold = TRUE
  MaxRuns = 2
CHECK_DEADLOCK FALSE
INVARIANTS
  TypeOK
  RunTellsItsSource
  EvidenceHolds
  StricterWhenUnsure
  CondemnedReachesQueue
PROPERTIES
  EveryAnalysisEnds
