SPECIFICATION FairSpec
CONSTANTS
  Mailbox = {m1}
  Handler = {h1, h2}
  Settings = {s1}
  Failure = {"imap", "both"}
  MaxRequests = 3
  Conn = {c1}
  Address = {a1, a2}
  Content = {x1}
  MaxBytes = 1
  MaxRcpt = 2
  MaxRows = 1
CHECK_DEADLOCK FALSE
INVARIANTS
  TypeOK
  CredentialsAsLastSet
  TestResultStands
  DeletedStaysDeleted
  AcceptedIsRecorded
  RowsComplete
  ViewsAgree
PROPERTIES
  EveryDataAnswered
