SPECIFICATION Spec
CONSTANTS
  Mailbox = {m1, m2}
  Handler = {h1}
  Settings = {s1}
  Failure = {"imap"}
  MaxRequests = 2
  Conn = {c1}
  Sync = {k1, k2}
  SoftHold = FALSE
  Sets <- MCSets
  Wants <- MCWants
  MaxItems = 2
CHECK_DEADLOCK FALSE
SYMMETRY Interchangeable
INVARIANTS
  TypeOK
  FoldersKeptApart
  ServedToOwnerOnly
  SequenceNumbersKeep
  UidNamesOneMessage
  AnswersWhatWasAsked
PROPERTIES
  LaterUidsAreHigher
