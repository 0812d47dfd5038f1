------------------------ MODULE MailboxProfilesProofs ------------------------
(***************************************************************************)
(* The profiles, for any number of mailboxes, handlers and requests:       *)
(* credentials are the ones last set, the result of a test stands, and     *)
(* what was deleted stays deleted.                                         *)
(*                                                                         *)
(* The argument: a request carries a number larger than every number that  *)
(* was in the row it read, so that what it issues always differs from what *)
(* it read and is sent; and what it does not issue never differs, so that  *)
(* it is never sent.                                                       *)
(***************************************************************************)
EXTENDS MailboxProfiles, TLAPS

Columns == {"settings", "secret", "hash", "status", "error"}

\* A row, column by column.
MakeRow(a, b, c, d, e) ==
  [settings |-> a, secret |-> b, hash |-> c, status |-> d, error |-> e]

\* What a request in progress holds.
RequestInv(h) ==
  LET r == request[h]
  IN  r.kind # "idle" =>
        /\ r.mailbox \in DOMAIN profile \cup deleted
        /\ r.seen \in Row
        /\ r.seen.hash < r.number /\ r.seen.secret < r.number
        /\ r.number <= requests
        /\ r.kind = "test" /\ ~r.overtaken /\ r.mailbox \in DOMAIN profile =>
             /\ r.seen.status = profile[r.mailbox].status
             /\ r.seen.error = profile[r.mailbox].error

\* The numbers in use, and the ids that were never given out.
NumbersInv ==
  \A m \in Mailbox :
    /\ last[m].reset <= requests /\ last[m].typed <= requests
    /\ m \notin DOMAIN profile \cup deleted => last[m].outcome = "none"

(***************************************************************************)
(* The inductive invariant of the profiles.                                *)
(***************************************************************************)
ProfilesInv ==
  /\ ProfilesTypeOK
  /\ CredentialsAsLastSet
  /\ TestResultStands
  /\ DeletedStaysDeleted
  /\ NumbersInv
  /\ \A h \in Handler : RequestInv(h)

-----------------------------------------------------------------------------
(* Rows *)

\* A row is determined by its columns.
LEMMA RowIsMade ==
  \A row \in Row :
    row = MakeRow(row.settings, row.secret, row.hash, row.status, row.error)
BY DEF Row, MakeRow

\* An UPDATE of a row: each column is the new one where it was changed.
LEMMA SentColumns ==
  ASSUME NEW row \in Row, NEW seen \in Row, NEW new \in Row
  PROVE  LET s == Sent(row, seen, new) IN
         /\ s \in Row
         /\ s.hash = IF new.hash # seen.hash THEN new.hash ELSE row.hash
         /\ s.secret = IF new.secret # seen.secret THEN new.secret ELSE row.secret
         /\ s.status = IF new.status # seen.status THEN new.status ELSE row.status
         /\ s.error = IF new.error # seen.error THEN new.error ELSE row.error
<1>1. DOMAIN row = Columns
  BY DEF Row, Columns
<1>2. Sent(row, seen, new) =
        MakeRow(IF new.settings # seen.settings THEN new.settings ELSE row.settings,
                IF new.secret # seen.secret THEN new.secret ELSE row.secret,
                IF new.hash # seen.hash THEN new.hash ELSE row.hash,
                IF new.status # seen.status THEN new.status ELSE row.status,
                IF new.error # seen.error THEN new.error ELSE row.error)
  BY <1>1 DEF Sent, MakeRow, Columns
<1> QED
  BY <1>2 DEF MakeRow, Row

\* A commit leaves every other profile alone, and creates none.
LEMMA Flushed ==
  ASSUME ProfilesTypeOK, NEW h \in Handler, NEW new \in Row,
         request[h].seen \in Row, Flush(h, new)
  PROVE  LET m == request[h].mailbox
             seen == request[h].seen
         IN  /\ DOMAIN profile' = DOMAIN profile
             /\ \A x \in DOMAIN profile : x # m => profile'[x] = profile[x]
             /\ \A x \in DOMAIN profile : profile'[x] \in Row
             /\ m \in DOMAIN profile =>
                  profile'[m] = Sent(profile[m], seen, new)
<1> DEFINE m == request[h].mailbox
           seen == request[h].seen
<1>1. CASE m \notin DOMAIN profile
  BY <1>1 DEF Flush, ProfilesTypeOK
<1>2. CASE m \in DOMAIN profile
  <2>1. profile' = [profile EXCEPT ![m] = Sent(profile[m], seen, new)]
    BY <1>2 DEF Flush
  <2>2. Sent(profile[m], seen, new) \in Row
    BY <1>2, SentColumns DEF ProfilesTypeOK
  <2> QED
    BY <1>2, <2>1, <2>2 DEF ProfilesTypeOK
<1> QED
  BY <1>1, <1>2

-----------------------------------------------------------------------------
(* The steps *)

LEMMA ProfilesInitInv == ProfilesInit => ProfilesInv
BY MPConstants DEF ProfilesInit, ProfilesInv, ProfilesTypeOK, CredentialsAsLastSet, TestResultStands,
   DeletedStaysDeleted, NumbersInv, RequestInv, Idle, NothingYet, Request, Last, NoRow

LEMMA CreateInv ==
  ASSUME ProfilesInv, NEW m \in Mailbox, NEW s \in Settings, CreateMailbox(m, s)
  PROVE  ProfilesInv'
<1> DEFINE row == NewProfile(s, requests')
<1> USE DEF ProfilesInv
<1>1. /\ requests \in Nat /\ requests' \in Nat /\ requests' = requests + 1
      /\ requests' \in 0 .. MaxRequests
  BY MPConstants DEF CreateMailbox, ProfilesTypeOK
<1>2. /\ row \in Row /\ row.hash = requests' /\ row.secret = requests'
      /\ row.status = "pending_verification" /\ row.error = "none"
  BY <1>1 DEF NewProfile, Row, MailboxStatus
<1>3. /\ DOMAIN profile' = DOMAIN profile \cup {m}
      /\ profile'[m] = row
      /\ \A x \in DOMAIN profile : x # m => profile'[x] = profile[x]
  BY DEF CreateMailbox
<1>4. /\ last' \in [Mailbox -> Last]
      /\ last'[m].reset = requests' /\ last'[m].typed = requests'
      /\ last'[m].outcome = last[m].outcome /\ last'[m].overtaken = last[m].overtaken
      /\ \A x \in Mailbox : x # m => last'[x] = last[x]
  BY <1>1 DEF CreateMailbox, ProfilesTypeOK, Last
<1>5. last[m].outcome = "none"
  BY DEF CreateMailbox, NumbersInv
<1>6. m \notin DOMAIN profile \cup deleted /\ deleted' = deleted /\ request' = request
  BY DEF CreateMailbox
<1>7. ProfilesTypeOK'
  BY <1>1, <1>2, <1>3, <1>4, <1>6 DEF ProfilesTypeOK
<1>8. CredentialsAsLastSet'
  BY <1>2, <1>3, <1>4, <1>6 DEF CredentialsAsLastSet, ProfilesTypeOK
<1>9. TestResultStands'
  BY <1>2, <1>3, <1>4, <1>5, <1>6 DEF TestResultStands, ProfilesTypeOK
<1>10. DeletedStaysDeleted'
  BY <1>3, <1>6 DEF DeletedStaysDeleted
<1>11. NumbersInv'
  BY <1>1, <1>3, <1>4, <1>5, <1>6 DEF NumbersInv, ProfilesTypeOK, Last
<1>12. ASSUME NEW h \in Handler PROVE RequestInv(h)'
  BY <1>1, <1>3, <1>6 DEF RequestInv, ProfilesTypeOK, Request
<1> QED
  BY <1>7, <1>8, <1>9, <1>10, <1>11, <1>12

LEMMA OpenInv ==
  ASSUME ProfilesInv, NEW h \in Handler, NEW m \in Mailbox,
         NEW kind \in {"edit", "test", "reset", "delete"}, Open(h, m, kind)
  PROVE  ProfilesInv'
<1> DEFINE r == [kind |-> kind, mailbox |-> m, seen |-> profile[m],
                 number |-> requests', overtaken |-> FALSE]
<1> USE DEF ProfilesInv
<1>1. /\ requests \in Nat /\ requests' \in Nat /\ requests' = requests + 1
      /\ requests' \in 0 .. MaxRequests
  BY MPConstants DEF Open, ProfilesTypeOK
<1>2. /\ m \in DOMAIN profile
      /\ profile' = profile /\ last' = last /\ deleted' = deleted
      /\ request' = [request EXCEPT ![h] = r]
  BY DEF Open
<1>3. profile[m] \in Row /\ last[m] \in Last
  BY <1>2 DEF ProfilesTypeOK
<1>4. profile[m].hash = last[m].reset /\ profile[m].secret = last[m].typed
  BY <1>2 DEF CredentialsAsLastSet
<1>5. profile[m].hash <= requests /\ profile[m].secret <= requests
  BY <1>2, <1>4 DEF NumbersInv
<1>6. profile[m].hash < requests' /\ profile[m].secret < requests'
  BY <1>1, <1>3, <1>5 DEF Row
<1>7. r \in Request
  BY <1>1, <1>3 DEF Request
<1>8. ProfilesTypeOK'
  <2>1. request' \in [Handler -> Request]
    BY <1>2, <1>7 DEF ProfilesTypeOK
  <2> QED
    BY <1>1, <1>2, <2>1 DEF ProfilesTypeOK
<1>9. CredentialsAsLastSet' /\ TestResultStands' /\ DeletedStaysDeleted'
  BY <1>2 DEF CredentialsAsLastSet, TestResultStands, DeletedStaysDeleted
<1>10. NumbersInv'
  BY <1>1, <1>2 DEF NumbersInv, ProfilesTypeOK, Last
<1>11. ASSUME NEW g \in Handler PROVE RequestInv(g)'
  <2>1. CASE g = h
    <3>1. request'[g] = r
      BY <1>2, <2>1 DEF ProfilesTypeOK
    <3> QED
      BY <1>1, <1>2, <1>3, <1>6, <3>1 DEF RequestInv
  <2>2. CASE g # h
    <3>1. request'[g] = request[g]
      BY <1>2, <2>2 DEF ProfilesTypeOK
    <3> QED
      BY <1>1, <1>2, <3>1 DEF RequestInv, ProfilesTypeOK, Request
  <2> QED
    BY <2>1, <2>2
<1> QED
  BY <1>8, <1>9, <1>10, <1>11

(***************************************************************************)
(* What a commit of new credentials, or of the same, does.  `field' is     *)
(* what the history becomes if the profile is still there.                 *)
(***************************************************************************)
LEMMA CommitInv ==
  ASSUME ProfilesInv, NEW h \in Handler, request[h].kind # "idle",
         NEW new \in Row, NEW field \in Last,
         Flush(h, new),
         request' = [request EXCEPT ![h] = Idle],
         requests' = requests, deleted' = deleted,
         last' = IF request[h].mailbox \in DOMAIN profile
                 THEN [last EXCEPT ![request[h].mailbox] = field] ELSE last,
         new.status = request[h].seen.status, new.error = request[h].seen.error,
         LET l == last[request[h].mailbox]
             r == request[h]
         IN  /\ field.outcome = l.outcome /\ field.overtaken = l.overtaken
             /\ \/ field.reset = l.reset /\ new.hash = r.seen.hash
                \/ field.reset = r.number /\ new.hash = r.number
             /\ \/ field.typed = l.typed /\ new.secret = r.seen.secret
                \/ field.typed = r.number /\ new.secret = r.number
  PROVE  ProfilesInv'
<1> DEFINE m == request[h].mailbox
           r == request[h]
<1> USE DEF ProfilesInv
<1>1. /\ r.seen \in Row /\ r.number \in Nat /\ r.number <= requests /\ requests \in Nat
      /\ r.seen.hash < r.number /\ r.seen.secret < r.number
      /\ r.seen.hash \in Nat /\ r.seen.secret \in Nat
      /\ m \in DOMAIN profile \cup deleted /\ m \in Mailbox
  BY DEF RequestInv, ProfilesTypeOK, Request, Row
<1>2. /\ DOMAIN profile' = DOMAIN profile
      /\ \A x \in DOMAIN profile : x # m => profile'[x] = profile[x]
      /\ \A x \in DOMAIN profile : profile'[x] \in Row
      /\ m \in DOMAIN profile => profile'[m] = Sent(profile[m], r.seen, new)
  BY <1>1, Flushed
<1>3. ASSUME m \in DOMAIN profile
      PROVE  /\ profile'[m].hash = IF new.hash # r.seen.hash THEN new.hash ELSE profile[m].hash
             /\ profile'[m].secret = IF new.secret # r.seen.secret THEN new.secret ELSE profile[m].secret
             /\ profile'[m].status = profile[m].status
             /\ profile'[m].error = profile[m].error
  BY <1>1, <1>2, <1>3, SentColumns DEF ProfilesTypeOK
<1>4. /\ last' \in [Mailbox -> Last]
      /\ \A x \in Mailbox : x # m => last'[x] = last[x]
      /\ m \in DOMAIN profile => last'[m] = field
      /\ m \notin DOMAIN profile => last'[m] = last[m]
  BY <1>1 DEF ProfilesTypeOK
<1>5. ProfilesTypeOK'
  <2>1. Idle \in Request
    BY DEF Idle, Request, NoRow
  <2>2. request' \in [Handler -> Request]
    BY <2>1 DEF ProfilesTypeOK
  <2> QED
    BY <1>2, <1>4, <2>2 DEF ProfilesTypeOK
<1>6. CredentialsAsLastSet'
  <2>1. ASSUME NEW x \in DOMAIN profile, x # m
        PROVE  profile'[x].hash = last'[x].reset /\ profile'[x].secret = last'[x].typed
    BY <1>2, <1>4, <2>1 DEF CredentialsAsLastSet, ProfilesTypeOK
  <2>2. ASSUME m \in DOMAIN profile
        PROVE  profile'[m].hash = last'[m].reset /\ profile'[m].secret = last'[m].typed
    <3>1. profile[m].hash = last[m].reset /\ profile[m].secret = last[m].typed
      BY <2>2 DEF CredentialsAsLastSet
    <3>2. last'[m] = field
      BY <1>4, <2>2
    <3>3. r.number # r.seen.hash /\ r.number # r.seen.secret
      BY <1>1
    <3> QED
      BY <1>3, <2>2, <3>1, <3>2, <3>3
  <2> QED
    BY <1>2, <2>1, <2>2 DEF CredentialsAsLastSet
<1>7. TestResultStands'
  <2>1. ASSUME NEW x \in DOMAIN profile
        PROVE  /\ profile'[x].status = profile[x].status /\ profile'[x].error = profile[x].error
               /\ last'[x].outcome = last[x].outcome /\ last'[x].overtaken = last[x].overtaken
    <3>1. CASE x = m
      BY <1>3, <1>4, <2>1, <3>1
    <3>2. CASE x # m
      BY <1>2, <1>4, <2>1, <3>2 DEF ProfilesTypeOK
    <3> QED
      BY <3>1, <3>2
  <2> QED
    BY <1>2, <2>1 DEF TestResultStands
<1>8. DeletedStaysDeleted'
  BY <1>2 DEF DeletedStaysDeleted
<1>9. NumbersInv'
  <2>1. ASSUME NEW x \in Mailbox, x # m \/ m \notin DOMAIN profile
        PROVE  last'[x] = last[x]
    BY <1>4, <2>1
  <2>2. ASSUME m \in DOMAIN profile
        PROVE  last'[m].reset <= requests /\ last'[m].typed <= requests
    <3>1. last[m].reset <= requests /\ last[m].typed <= requests
      BY <1>1 DEF NumbersInv
    <3> QED
      BY <1>1, <1>4, <2>2, <3>1
  <2> QED
    BY <1>2, <2>1, <2>2 DEF NumbersInv
<1>10. ASSUME NEW g \in Handler PROVE RequestInv(g)'
  <2>1. CASE g = h
    <3>1. request'[g].kind = "idle"
      BY <2>1 DEF ProfilesTypeOK, Idle
    <3> QED
      BY <3>1 DEF RequestInv
  <2>2. CASE g # h
    <3>1. request'[g] = request[g]
      BY <2>2 DEF ProfilesTypeOK
    <3>2. ASSUME NEW x \in DOMAIN profile
          PROVE  profile'[x].status = profile[x].status /\ profile'[x].error = profile[x].error
      BY <1>2, <1>3, <3>2
    <3> QED
      BY <1>2, <3>1, <3>2 DEF RequestInv
  <2> QED
    BY <2>1, <2>2
<1> QED
  BY <1>5, <1>6, <1>7, <1>8, <1>9, <1>10

LEMMA UpdateInv ==
  ASSUME ProfilesInv, NEW h \in Handler, NEW s \in Settings, NEW typed \in BOOLEAN,
         UpdateMailbox(h, s, typed)
  PROVE  ProfilesInv'
<1> DEFINE r == request[h]
           m == r.mailbox
           new == Edited(r.seen, s, typed, r.number)
           field == IF typed THEN [last[m] EXCEPT !.typed = r.number] ELSE last[m]
<1>1. /\ r.kind # "idle" /\ r.seen \in Row /\ r.number \in Nat /\ m \in Mailbox
      /\ last[m] \in Last
  BY DEF UpdateMailbox, ProfilesInv, RequestInv, ProfilesTypeOK, Request
<1>2. /\ new \in Row /\ new.hash = r.seen.hash
      /\ new.status = r.seen.status /\ new.error = r.seen.error
      /\ new.secret = IF typed THEN r.number ELSE r.seen.secret
  BY <1>1 DEF Edited, Row
<1>3. /\ field \in Last /\ field.outcome = last[m].outcome
      /\ field.overtaken = last[m].overtaken /\ field.reset = last[m].reset
      /\ field.typed = IF typed THEN r.number ELSE last[m].typed
  BY <1>1 DEF Last
<1>4. last' = IF m \in DOMAIN profile THEN [last EXCEPT ![m] = field] ELSE last
  <2>1. CASE typed
    BY <2>1 DEF UpdateMailbox, Record
  <2>2. CASE ~typed
    BY <2>2 DEF UpdateMailbox, ProfilesInv, ProfilesTypeOK
  <2> QED
    BY <2>1, <2>2
<1>5. /\ Flush(h, new) /\ request' = [request EXCEPT ![h] = Idle]
      /\ requests' = requests /\ deleted' = deleted
  BY DEF UpdateMailbox, Leave
<1> HIDE DEF new, field
<1> QED
  BY <1>1, <1>2, <1>3, <1>4, <1>5, CommitInv

LEMMA ResetInv ==
  ASSUME ProfilesInv, NEW h \in Handler, ResetProxyPassword(h)
  PROVE  ProfilesInv'
<1> DEFINE r == request[h]
           m == r.mailbox
           new == [r.seen EXCEPT !.hash = r.number]
           field == [last[m] EXCEPT !.reset = r.number]
<1>1. /\ r.kind # "idle" /\ r.seen \in Row /\ r.number \in Nat /\ m \in Mailbox
      /\ last[m] \in Last
  BY DEF ResetProxyPassword, ProfilesInv, RequestInv, ProfilesTypeOK, Request
<1>2. /\ new \in Row /\ new.hash = r.number /\ new.secret = r.seen.secret
      /\ new.status = r.seen.status /\ new.error = r.seen.error
  BY <1>1 DEF Row
<1>3. /\ field \in Last /\ field.outcome = last[m].outcome
      /\ field.overtaken = last[m].overtaken /\ field.reset = r.number
      /\ field.typed = last[m].typed
  BY <1>1 DEF Last
<1>4. /\ Flush(h, new) /\ request' = [request EXCEPT ![h] = Idle]
      /\ requests' = requests /\ deleted' = deleted
      /\ last' = IF m \in DOMAIN profile THEN [last EXCEPT ![m] = field] ELSE last
  BY DEF ResetProxyPassword, Leave, Record
<1> HIDE DEF new, field
<1> QED
  BY <1>1, <1>2, <1>3, <1>4, CommitInv

LEMMA TestInv ==
  ASSUME ProfilesInv, NEW h \in Handler, NEW o \in Outcome, TestConnectivity(h, o)
  PROVE  ProfilesInv'
<1> DEFINE r == request[h]
           m == r.mailbox
           new == Tested(r.seen, o)
           field == [last[m] EXCEPT !.outcome = o, !.overtaken = r.overtaken]
           Overtake(g) == IF request[g].kind = "test" /\ request[g].mailbox = m
                          THEN [request[g] EXCEPT !.overtaken = TRUE] ELSE request[g]
<1> USE DEF ProfilesInv
<1>1. /\ r.kind = "test" /\ r.seen \in Row /\ m \in Mailbox /\ r \in Request
      /\ last[m] \in Last /\ r.overtaken \in BOOLEAN
      /\ m \in DOMAIN profile \cup deleted
  BY DEF TestConnectivity, RequestInv, ProfilesTypeOK, Request
<1>2. /\ new \in Row /\ new.hash = r.seen.hash /\ new.secret = r.seen.secret
      /\ new.status = IF o = "ok" THEN "active" ELSE "connection_error"
      /\ new.error = IF o = "ok" THEN "none" ELSE o
  BY <1>1 DEF Tested, Row, Outcome, MailboxStatus
<1>3. /\ field \in Last /\ field.outcome = o /\ field.overtaken = r.overtaken
      /\ field.reset = last[m].reset /\ field.typed = last[m].typed
  BY <1>1 DEF Last
<1>4. /\ Flush(h, new)
      /\ requests' = requests /\ deleted' = deleted
      /\ last' = IF m \in DOMAIN profile THEN [last EXCEPT ![m] = field] ELSE last
      /\ request' = [g \in Handler |-> IF g = h THEN Idle ELSE Overtake(g)]
  BY DEF TestConnectivity, Record
<1> HIDE DEF new, field
<1>5. /\ DOMAIN profile' = DOMAIN profile
      /\ \A x \in DOMAIN profile : x # m => profile'[x] = profile[x]
      /\ \A x \in DOMAIN profile : profile'[x] \in Row
      /\ m \in DOMAIN profile => profile'[m] = Sent(profile[m], r.seen, new)
  BY <1>1, <1>2, <1>4, Flushed
<1>6. ASSUME m \in DOMAIN profile
      PROVE  /\ profile'[m].hash = profile[m].hash
             /\ profile'[m].secret = profile[m].secret
             /\ profile'[m].status = IF new.status # r.seen.status THEN new.status ELSE profile[m].status
             /\ profile'[m].error = IF new.error # r.seen.error THEN new.error ELSE profile[m].error
  BY <1>1, <1>2, <1>5, <1>6, SentColumns DEF ProfilesTypeOK
<1>7. /\ last' \in [Mailbox -> Last]
      /\ \A x \in Mailbox : x # m => last'[x] = last[x]
      /\ m \in DOMAIN profile => last'[m] = field
      /\ m \notin DOMAIN profile => last'[m] = last[m]
  BY <1>1, <1>3, <1>4 DEF ProfilesTypeOK
<1>8. \A g \in Handler : g # h => Overtake(g) \in Request
  BY DEF ProfilesTypeOK, Request
<1>9. ProfilesTypeOK'
  <2>1. Idle \in Request
    BY DEF Idle, Request, NoRow
  <2>2. request' \in [Handler -> Request]
    BY <1>4, <1>8, <2>1
  <2> QED
    BY <1>4, <1>5, <1>7, <2>2 DEF ProfilesTypeOK
<1>10. CredentialsAsLastSet'
  <2>1. ASSUME NEW x \in DOMAIN profile
        PROVE  /\ profile'[x].hash = profile[x].hash /\ profile'[x].secret = profile[x].secret
               /\ last'[x].reset = last[x].reset /\ last'[x].typed = last[x].typed
    <3>1. CASE x = m
      BY <1>3, <1>6, <1>7, <2>1, <3>1
    <3>2. CASE x # m
      BY <1>5, <1>7, <2>1, <3>2 DEF ProfilesTypeOK
    <3> QED
      BY <3>1, <3>2
  <2> QED
    BY <1>5, <2>1 DEF CredentialsAsLastSet
<1>11. TestResultStands'
  <2>1. ASSUME NEW x \in DOMAIN profile, x # m
        PROVE  profile'[x] = profile[x] /\ last'[x] = last[x]
    BY <1>5, <1>7, <2>1 DEF ProfilesTypeOK
  <2>2. ASSUME m \in DOMAIN profile, ~r.overtaken
        PROVE  /\ profile'[m].status = new.status /\ profile'[m].error = new.error
    <3>1. r.seen.status = profile[m].status /\ r.seen.error = profile[m].error
      BY <1>1, <2>2 DEF RequestInv
    <3> QED
      BY <1>6, <2>2, <3>1
  <2>3. o # "none"
    BY MPConstants DEF Outcome
  <2>4. ASSUME m \in DOMAIN profile
        PROVE  /\ last'[m].outcome = o /\ last'[m].overtaken = r.overtaken
    BY <1>3, <1>7, <2>4
  <2> QED
    BY <1>2, <1>5, <2>1, <2>2, <2>3, <2>4 DEF TestResultStands
<1>12. DeletedStaysDeleted'
  BY <1>4, <1>5 DEF DeletedStaysDeleted
<1>13. NumbersInv'
  <2>1. ASSUME NEW x \in Mailbox
        PROVE  last'[x].reset = last[x].reset /\ last'[x].typed = last[x].typed
    BY <1>3, <1>7, <2>1
  <2>2. ASSUME NEW x \in Mailbox, x \notin DOMAIN profile \cup deleted
        PROVE  last'[x] = last[x]
    BY <1>1, <1>7, <2>2
  <2> QED
    BY <1>4, <1>5, <2>1, <2>2 DEF NumbersInv
<1>14. ASSUME NEW g \in Handler PROVE RequestInv(g)'
  <2>1. CASE g = h
    <3>1. request'[g].kind = "idle"
      BY <1>4, <2>1 DEF Idle
    <3> QED
      BY <3>1 DEF RequestInv
  <2>2. CASE g # h
    <3>1. request'[g] = Overtake(g)
      BY <1>4, <2>2
    <3>2. request[g] \in Request
      BY DEF ProfilesTypeOK
    <3>3. /\ request'[g].kind = request[g].kind /\ request'[g].mailbox = request[g].mailbox
          /\ request'[g].seen = request[g].seen /\ request'[g].number = request[g].number
          /\ ~request'[g].overtaken => /\ ~request[g].overtaken
                                       /\ ~(request[g].kind = "test" /\ request[g].mailbox = m)
      BY <3>1, <3>2 DEF Request
    <3> QED
      BY <1>4, <1>5, <3>3 DEF RequestInv
  <2> QED
    BY <2>1, <2>2
<1> QED
  BY <1>9, <1>10, <1>11, <1>12, <1>13, <1>14

LEMMA DeleteInv ==
  ASSUME ProfilesInv, NEW h \in Handler, DeleteMailbox(h)
  PROVE  ProfilesInv'
<1> DEFINE m == request[h].mailbox
<1> USE DEF ProfilesInv
<1>1. /\ m \in Mailbox /\ m \in DOMAIN profile \cup deleted
  BY DEF DeleteMailbox, RequestInv, ProfilesTypeOK
<1>2. /\ DOMAIN profile' = DOMAIN profile \ {m}
      /\ \A x \in DOMAIN profile' : profile'[x] = profile[x]
      /\ deleted' = deleted \cup {m} /\ requests' = requests /\ last' = last
      /\ request' = [request EXCEPT ![h] = Idle]
  BY DEF DeleteMailbox, Leave
<1>3. request' \in [Handler -> Request]
  BY <1>2 DEF ProfilesTypeOK, Idle, Request, NoRow
<1>4. ProfilesTypeOK'
  BY <1>1, <1>2, <1>3 DEF ProfilesTypeOK
<1>5. CredentialsAsLastSet' /\ TestResultStands' /\ DeletedStaysDeleted' /\ NumbersInv'
  BY <1>1, <1>2 DEF CredentialsAsLastSet, TestResultStands, DeletedStaysDeleted, NumbersInv
<1>6. ASSUME NEW g \in Handler PROVE RequestInv(g)'
  BY <1>2 DEF RequestInv, ProfilesTypeOK, Idle
<1> QED
  BY <1>4, <1>5, <1>6

LEMMA AbandonInv ==
  ASSUME ProfilesInv, NEW h \in Handler, Abandon(h)
  PROVE  ProfilesInv'
<1> USE DEF ProfilesInv
<1>1. /\ request' = [request EXCEPT ![h] = Idle]
      /\ UNCHANGED <<profile, requests, last, deleted>>
  BY DEF Abandon, Leave
<1>2. request' \in [Handler -> Request]
  BY <1>1 DEF ProfilesTypeOK, Idle, Request, NoRow
<1>3. ProfilesTypeOK'
  BY <1>1, <1>2 DEF ProfilesTypeOK
<1>4. CredentialsAsLastSet' /\ TestResultStands' /\ DeletedStaysDeleted' /\ NumbersInv'
  BY <1>1 DEF CredentialsAsLastSet, TestResultStands, DeletedStaysDeleted, NumbersInv
<1>5. ASSUME NEW g \in Handler PROVE RequestInv(g)'
  BY <1>1 DEF RequestInv, ProfilesTypeOK, Idle
<1> QED
  BY <1>3, <1>4, <1>5

LEMMA ProfilesStepInv == ProfilesInv /\ [ProfilesNext]_profileVars => ProfilesInv'
<1> SUFFICES ASSUME ProfilesInv, [ProfilesNext]_profileVars PROVE ProfilesInv'
  OBVIOUS
<1>1. CASE UNCHANGED profileVars
  BY <1>1 DEF profileVars, ProfilesInv, ProfilesTypeOK, CredentialsAsLastSet, TestResultStands,
     DeletedStaysDeleted, NumbersInv, RequestInv
<1>2. CASE ProfilesNext
  BY <1>2, CreateInv, OpenInv, UpdateInv, ResetInv, TestInv, DeleteInv, AbandonInv
     DEF ProfilesNext
<1> QED
  BY <1>1, <1>2

-----------------------------------------------------------------------------
\* The mailboxes that exist or existed.
Known == DOMAIN profile \cup deleted

\* Mailboxes become known and stay so.
LEMMA KnownGrows ==
  ASSUME ProfilesNext PROVE Known \subseteq Known' /\ deleted \subseteq deleted'
<1>1. CASE \E m \in Mailbox, s \in Settings : CreateMailbox(m, s)
  BY <1>1 DEF CreateMailbox, Known
<1>2. CASE \E h \in Handler, m \in Mailbox, kind \in {"edit", "test", "reset", "delete"} :
             Open(h, m, kind)
  BY <1>2 DEF Open, Known
<1>3. CASE \E h \in Handler :
             \/ \E s \in Settings, typed \in BOOLEAN : UpdateMailbox(h, s, typed)
             \/ \E o \in Outcome : TestConnectivity(h, o)
             \/ ResetProxyPassword(h)
  BY <1>3 DEF UpdateMailbox, TestConnectivity, ResetProxyPassword, Flush, Known
<1>4. CASE \E h \in Handler : DeleteMailbox(h)
  BY <1>4 DEF DeleteMailbox, Known
<1>5. CASE \E h \in Handler : Abandon(h)
  BY <1>5 DEF Abandon, Known
<1> QED
  BY <1>1, <1>2, <1>3, <1>4, <1>5 DEF ProfilesNext

-----------------------------------------------------------------------------
(***************************************************************************)
(* The invariant holds in every behaviour of the profile handlers.         *)
(***************************************************************************)
THEOREM ProfilesInvariant == ProfilesSpec => []ProfilesInv
BY ProfilesInitInv, ProfilesStepInv, PTL DEF ProfilesSpec

(***************************************************************************)
(* The credentials of a profile are the ones last set, however edits,      *)
(* tests, resets and deletions overlap.                                    *)
(***************************************************************************)
THEOREM CredentialsStand == ProfilesSpec => []CredentialsAsLastSet
BY ProfilesInvariant, PTL DEF ProfilesInv

(***************************************************************************)
(* Status and error are those of the last test that no other overtook.     *)
(***************************************************************************)
THEOREM TestResultsStand == ProfilesSpec => []TestResultStands
BY ProfilesInvariant, PTL DEF ProfilesInv

(***************************************************************************)
(* No request that read a mailbox before it was deleted brings it back.    *)
(***************************************************************************)
THEOREM DeletionIsFinal == ProfilesSpec => []DeletedStaysDeleted
BY ProfilesInvariant, PTL DEF ProfilesInv
=============================================================================
