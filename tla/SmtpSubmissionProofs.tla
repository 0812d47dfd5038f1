------------------------- MODULE SmtpSubmissionProofs -------------------------
(***************************************************************************)
(* Submissions, for any number of clients, messages, requests and          *)
(* restarts: what a client was told is accepted is on record, every        *)
(* committed row is complete, client and server agree on the transaction,  *)
(* every message is done with in a bounded number of steps, and the proxy  *)
(* leaves the profiles to their own handlers.                              *)
(*                                                                         *)
(* The argument is one invariant of a single connection, ConnInv, in terms *)
(* of the files in the store and of the mailboxes that exist or existed:   *)
(* both only grow, so that a step of one connection leaves the others      *)
(* alone.  A row that goes with its profile cannot be missed, because a    *)
(* deleted profile stays deleted (MailboxProfilesProofs).                  *)
(***************************************************************************)
EXTENDS SmtpSubmission, MailboxProfilesProofs

\* The client with the view v and the server agree on the transaction of l.
Agree(l, v) ==
  l.pc # "down" /\ ~l.astray =>
    /\ (l.state = "MAIL") <=> (v.from # "none" /\ v.to = << >>)
    /\ (l.state = "RCPT") <=> (v.to # << >>)
    /\ l.state \in {"MAIL", "RCPT"} => l.envelope = v

\* A connection l whose client has the view v.
ConnInv(l, v, files, known) ==
  /\ l \in Link /\ v \in Envelope
  /\ Agree(l, v)
  /\ l.session # "none" => l.session \in known
  /\ l.state \in {"MAIL", "RCPT"} => l.session # "none" /\ l.envelope.from # "none"
  /\ l.state = "RCPT" => l.envelope.to # << >>
  /\ l.pc \in {"body", "stored"} => l.state = "RCPT"
  /\ l.pc = "stored" => l.content \in files

ConnectionsInv == \A c \in Conn : ConnInv(link[c], view[c], store, Known)

ReceiptsKnown == \A r \in receipts : r.mailbox \in Known

(***************************************************************************)
(* The inductive invariant of submissions, on top of the profiles'.        *)
(***************************************************************************)
SubmissionInv ==
  /\ TypeOK
  /\ ConnectionsInv
  /\ ReceiptsKnown
  /\ RowsComplete
  /\ AcceptedIsRecorded

-----------------------------------------------------------------------------
(* Connections *)

LEMMA EnvelopeFacts ==
  /\ NoEnvelope \in Envelope
  /\ NoEnvelope.from = "none" /\ NoEnvelope.to = << >>
BY DEF NoEnvelope, Envelope

\* A connection that is down, and a new one.
LEMMA FreshConn ==
  ASSUME NEW files, NEW known
  PROVE  /\ ConnInv(Down, NoEnvelope, files, known)
         /\ ConnInv(Fresh, NoEnvelope, files, known)
<1>1. Fresh \in Link /\ Down \in Link
  BY EnvelopeFacts DEF Fresh, Down, Link, SmtpState
<1> QED
  BY <1>1, EnvelopeFacts DEF ConnInv, Agree, Fresh, Down

\* Files and known mailboxes that are added do no harm.
LEMMA ConnMonotone ==
  ASSUME NEW l, NEW v, NEW files, NEW known, NEW files2, NEW known2,
         ConnInv(l, v, files, known), files \subseteq files2, known \subseteq known2
  PROVE  ConnInv(l, v, files2, known2)
BY DEF ConnInv

\* A transaction that is cleared, while a command is read again.
LEMMA ResetConn ==
  ASSUME NEW l, NEW v, NEW files, NEW known, ConnInv(l, v, files, known),
         NEW r \in Link, NEW w \in Envelope,
         r.pc = "command", r.session = l.session,
         r.state = IF l.session # "none" THEN "AUTH" ELSE "EHLO",
         r.astray \/ w = NoEnvelope
  PROVE  ConnInv(r, w, files, known)
BY EnvelopeFacts DEF ConnInv, Agree

\* The fields of a transaction that was reset.
LEMMA ResetFields ==
  ASSUME NEW l \in Link
  PROVE  LET r == ResetEnvelope(l)
         IN  /\ r \in Link
             /\ r.session = l.session /\ r.pc = l.pc /\ r.astray = l.astray
             /\ r.state = IF l.session # "none" THEN "AUTH" ELSE "EHLO"
BY EnvelopeFacts DEF ResetEnvelope, Link, SmtpState

(***************************************************************************)
(* A step of c leaves every connection in order when it leaves c so.       *)
(***************************************************************************)
LEMMA OneConnection ==
  ASSUME SubmissionInv, NEW c \in Conn, NEW l, NEW v,
         link' = [link EXCEPT ![c] = l], view' = [view EXCEPT ![c] = v],
         store \subseteq store', UNCHANGED profileVars,
         ConnInv(l, v, store', Known)
  PROVE  /\ ConnectionsInv'
         /\ link' \in [Conn -> Link] /\ view' \in [Conn -> Envelope]
<1> USE DEF SubmissionInv, TypeOK, ConnectionsInv
<1>1. Known' = Known
  BY DEF Known, profileVars
<1>2. l \in Link /\ v \in Envelope
  BY DEF ConnInv
<1>3. link' \in [Conn -> Link] /\ view' \in [Conn -> Envelope]
  BY <1>2
<1>4. ASSUME NEW d \in Conn
      PROVE  ConnInv(link'[d], view'[d], store', Known')
  <2>1. CASE d = c
    BY <1>1, <2>1
  <2>2. CASE d # c
    <3>1. link'[d] = link[d] /\ view'[d] = view[d]
      BY <2>2
    <3>2. ConnInv(link[d], view[d], store, Known)
      OBVIOUS
    <3> QED
      BY ONLY <1>1, <3>1, <3>2, ConnMonotone, store \subseteq store'
  <2> QED
    BY <2>1, <2>2
<1> QED
  BY <1>3, <1>4

\* What the client of c hears, in the form OneConnection wants.
LEMMA Heard ==
  ASSUME view \in [Conn -> Envelope], NEW c \in Conn, NEW v, Hear(c, v)
  PROVE  view' = [view EXCEPT ![c] = IF link[c].astray THEN view[c] ELSE v]
BY DEF Hear

(***************************************************************************)
(* A step of one connection that commits nothing.                          *)
(***************************************************************************)
LEMMA Uncommitted ==
  ASSUME SubmissionInv, NEW c \in Conn, NEW l, NEW v,
         link' = [link EXCEPT ![c] = l], view' = [view EXCEPT ![c] = v],
         UNCHANGED <<mode, outbound, serial, receipts, profileVars>>,
         store \subseteq store', store' \subseteq Content,
         ConnInv(l, v, store', Known)
  PROVE  SubmissionInv'
<1>1. /\ ConnectionsInv'
      /\ link' \in [Conn -> Link] /\ view' \in [Conn -> Envelope]
  BY OneConnection
<1>2. ProfilesTypeOK'
  BY DEF SubmissionInv, TypeOK, profileVars, ProfilesTypeOK
<1>3. TypeOK'
  BY <1>1, <1>2 DEF SubmissionInv, TypeOK
<1>4. ReceiptsKnown' /\ RowsComplete' /\ AcceptedIsRecorded'
  BY DEF SubmissionInv, ReceiptsKnown, RowsComplete, AcceptedIsRecorded, Known, profileVars,
         DeliveryStatus, FinalStatus
<1> QED
  BY <1>1, <1>3, <1>4 DEF SubmissionInv

\* What is known of a connection.
LEMMA ThisConn ==
  ASSUME SubmissionInv, NEW c \in Conn
  PROVE  /\ ConnInv(link[c], view[c], store, Known)
         /\ link[c] \in Link /\ view[c] \in Envelope
         /\ view \in [Conn -> Envelope] /\ store \subseteq Content
BY DEF SubmissionInv, ConnectionsInv, TypeOK

LEMMA ConnectInv ==
  ASSUME SubmissionInv, NEW c \in Conn, Connect(c) PROVE SubmissionInv'
BY FreshConn, ThisConn, Uncommitted DEF Connect, Become, Nothing

LEMMA LoseInv ==
  ASSUME SubmissionInv, NEW c \in Conn, Lose(c) PROVE SubmissionInv'
BY FreshConn, ThisConn, Uncommitted DEF Lose, Become, Nothing

LEMMA GreetInv ==
  ASSUME SubmissionInv, NEW c \in Conn, Greet(c) PROVE SubmissionInv'
<1> DEFINE l == [link[c] EXCEPT !.state = IF Authenticated(c) THEN "AUTH" ELSE "EHLO"]
           v == IF link[c].astray THEN view[c] ELSE NoEnvelope
<1>1. /\ link' = [link EXCEPT ![c] = l] /\ view' = [view EXCEPT ![c] = v]
      /\ UNCHANGED <<mode, outbound, serial, receipts, profileVars, store>>
  BY ThisConn, Heard DEF Greet, Become, Nothing
<1>2. /\ l \in Link /\ v \in Envelope
      /\ l.pc = "command" /\ l.session = link[c].session /\ l.astray = link[c].astray
      /\ l.state = IF link[c].session # "none" THEN "AUTH" ELSE "EHLO"
  BY ThisConn, EnvelopeFacts DEF Greet, Listening, Authenticated, Link, SmtpState
<1>3. l.astray \/ v = NoEnvelope
  BY <1>2
<1> HIDE DEF l, v
<1>4. ConnInv(l, v, store, Known)
  BY <1>2, <1>3, ThisConn, ResetConn
<1> QED
  BY <1>1, <1>4, ThisConn, Uncommitted

LEMMA AuthInv ==
  ASSUME SubmissionInv, NEW c \in Conn, Auth(c) PROVE SubmissionInv'
<1>1. PICK m \in DOMAIN profile : Become(c, [link[c] EXCEPT !.session = m, !.state = "AUTH"])
  BY DEF Auth
<1> DEFINE l == [link[c] EXCEPT !.session = m, !.state = "AUTH"]
<1>2. /\ link' = [link EXCEPT ![c] = l] /\ view' = [view EXCEPT ![c] = view[c]]
      /\ UNCHANGED <<mode, outbound, serial, receipts, profileVars, store>>
  BY <1>1, ThisConn DEF Auth, Become, Nothing
<1>3. m \in Mailbox /\ m \in Known
  BY DEF SubmissionInv, TypeOK, ProfilesTypeOK, Known
<1>4. /\ l \in Link /\ l.pc = "command" /\ l.session = m /\ l.state = "AUTH"
      /\ l.astray = link[c].astray
  BY <1>3, ThisConn DEF Auth, MayLogIn, Listening, Link, SmtpState
<1>5. /\ link[c].pc = "command" /\ link[c].session = "none"
  BY DEF Auth, MayLogIn, Listening, Authenticated
<1> HIDE DEF l
<1>6. ConnInv(l, view[c], store, Known)
  BY <1>3, <1>4, <1>5, ThisConn DEF ConnInv, Agree
<1> QED
  BY <1>2, <1>6, ThisConn, Uncommitted

LEMMA RsetInv ==
  ASSUME SubmissionInv, NEW c \in Conn, Rset(c) PROVE SubmissionInv'
<1> DEFINE l == ResetEnvelope(link[c])
           v == IF link[c].astray THEN view[c] ELSE NoEnvelope
<1>1. /\ link' = [link EXCEPT ![c] = l] /\ view' = [view EXCEPT ![c] = v]
      /\ UNCHANGED <<mode, outbound, serial, receipts, profileVars, store>>
  BY ThisConn, Heard DEF Rset, Become, Nothing
<1>2. /\ l \in Link /\ v \in Envelope
      /\ l.pc = "command" /\ l.session = link[c].session /\ l.astray = link[c].astray
      /\ l.state = IF link[c].session # "none" THEN "AUTH" ELSE "EHLO"
  BY ThisConn, EnvelopeFacts, ResetFields DEF Rset, Listening
<1>3. l.astray \/ v = NoEnvelope
  BY <1>2
<1> HIDE DEF l, v
<1>4. ConnInv(l, v, store, Known)
  BY <1>2, <1>3, ThisConn, ResetConn
<1> QED
  BY <1>1, <1>4, ThisConn, Uncommitted

LEMMA MailInv ==
  ASSUME SubmissionInv, NEW c \in Conn, NEW a \in Address, Mail(c, a) PROVE SubmissionInv'
<1> DEFINE e == [from |-> a, to |-> << >>]
           l == [link[c] EXCEPT !.state = "MAIL", !.envelope = e]
           v == IF link[c].astray THEN view[c] ELSE e
<1>1. /\ link' = [link EXCEPT ![c] = l] /\ view' = [view EXCEPT ![c] = v]
      /\ UNCHANGED <<mode, outbound, serial, receipts, profileVars, store>>
  BY ThisConn, Heard DEF Mail, Become, Nothing
<1>2. /\ e \in Envelope /\ e.from # "none" /\ e.to = << >>
  BY SSConstants DEF Envelope
<1> HIDE DEF e
<1>3. /\ l \in Link /\ v \in Envelope
      /\ l.pc = "command" /\ l.session = link[c].session /\ l.astray = link[c].astray
      /\ l.state = "MAIL" /\ l.envelope = e
      /\ link[c].session # "none"
  BY <1>2, ThisConn DEF Mail, Listening, Authenticated, Link, SmtpState
<1>4. l.astray \/ v = e
  BY <1>3
<1> HIDE DEF l, v
<1>5. ConnInv(l, v, store, Known)
  BY <1>2, <1>3, <1>4, ThisConn DEF ConnInv, Agree
<1> QED
  BY <1>1, <1>5, ThisConn, Uncommitted

LEMMA RcptInv ==
  ASSUME SubmissionInv, NEW c \in Conn, NEW a \in Address, Rcpt(c, a) PROVE SubmissionInv'
<1> DEFINE e == [link[c].envelope EXCEPT !.to = Append(@, a)]
           w == [view[c] EXCEPT !.to = Append(@, a)]
           l == [link[c] EXCEPT !.state = "RCPT", !.envelope = e]
           v == IF link[c].astray THEN view[c] ELSE w
<1>1. /\ link' = [link EXCEPT ![c] = l] /\ view' = [view EXCEPT ![c] = v]
      /\ UNCHANGED <<mode, outbound, serial, receipts, profileVars, store>>
  <2>1. [link[c] EXCEPT !.state = "RCPT", !.envelope.to = Append(@, a)] = l
    BY ThisConn DEF Link
  <2> QED
    BY <2>1, ThisConn, Heard DEF Rcpt, Become, Nothing
<1>2. ASSUME NEW x \in Envelope, NEW y, y = [x EXCEPT !.to = Append(@, a)]
      PROVE  y \in Envelope /\ y.from = x.from /\ y.to = Append(x.to, a) /\ y.to # << >>
  <2>1. ASSUME NEW s \in Seq(Address)
        PROVE  Append(s, a) \in Seq(Address) /\ Append(s, a) # << >>
    <3>1. Append(s, a) \in Seq(Address) /\ Len(Append(s, a)) = Len(s) + 1 /\ Len(s) \in Nat
      OBVIOUS
    <3>2. Len(<< >>) = 0
      OBVIOUS
    <3> QED
      BY <3>1, <3>2
  <2>2. x.to \in Seq(Address) /\ x.from \in Address \cup {"none"}
    BY DEF Envelope
  <2>3. y = [from |-> x.from, to |-> Append(x.to, a)]
    BY <1>2 DEF Envelope
  <2> QED
    BY <2>1, <2>2, <2>3 DEF Envelope
<1>3. /\ e \in Envelope /\ e.from = link[c].envelope.from /\ e.to # << >>
      /\ w \in Envelope /\ w.to # << >>
      /\ link[c].envelope = view[c] => e = w
  <2>1. link[c].envelope \in Envelope /\ view[c] \in Envelope
    BY ThisConn DEF Link
  <2> QED
    BY <2>1, <1>2
<1> HIDE DEF e, w
<1>4. /\ l \in Link /\ v \in Envelope
      /\ l.pc = "command" /\ l.session = link[c].session /\ l.astray = link[c].astray
      /\ l.state = "RCPT" /\ l.envelope = e
      /\ link[c].pc = "command" /\ link[c].state \in {"MAIL", "RCPT"}
  BY <1>3, ThisConn DEF Rcpt, Listening, Link, SmtpState
<1>5. l.astray \/ v = w
  BY <1>4
<1> HIDE DEF l, v
<1>6. ConnInv(l, v, store, Known)
  BY <1>3, <1>4, <1>5, ThisConn DEF ConnInv, Agree
<1> QED
  BY <1>1, <1>6, ThisConn, Uncommitted

\* The lines of a message leave the transaction as it is.
LEMMA BodyConn ==
  ASSUME NEW l, NEW v, NEW files, NEW known, ConnInv(l, v, files, known),
         l.pc # "down", l.state = "RCPT", NEW r \in Link,
         r.session = l.session, r.state = l.state, r.envelope = l.envelope,
         r.astray = l.astray, r.pc \in {"body", "stored"},
         r.pc = "stored" => r.content \in files
  PROVE  ConnInv(r, v, files, known)
BY DEF ConnInv, Agree

LEMMA DataInv ==
  ASSUME SubmissionInv, NEW c \in Conn, Data(c) PROVE SubmissionInv'
<1> DEFINE l == [link[c] EXCEPT !.pc = "body", !.lines = 0]
<1>1. /\ link' = [link EXCEPT ![c] = l] /\ view' = [view EXCEPT ![c] = view[c]]
      /\ UNCHANGED <<mode, outbound, serial, receipts, profileVars, store>>
  BY ThisConn DEF Data, Become, Nothing
<1>2. /\ l \in Link /\ l.session = link[c].session /\ l.state = link[c].state
      /\ l.envelope = link[c].envelope /\ l.astray = link[c].astray /\ l.pc = "body"
      /\ link[c].pc = "command" /\ link[c].state = "RCPT"
  BY ThisConn DEF Data, Listening, Link
<1> HIDE DEF l
<1>3. ConnInv(l, view[c], store, Known)
  BY <1>2, ThisConn, BodyConn
<1> QED
  BY <1>1, <1>3, ThisConn, Uncommitted

LEMMA LineInv ==
  ASSUME SubmissionInv, NEW c \in Conn, Line(c) PROVE SubmissionInv'
<1> DEFINE l == [link[c] EXCEPT !.lines = @ + 1]
<1>1. /\ link' = [link EXCEPT ![c] = l] /\ view' = [view EXCEPT ![c] = view[c]]
      /\ UNCHANGED <<mode, outbound, serial, receipts, profileVars, store>>
  BY ThisConn DEF Line, Become, Nothing
<1>2. /\ l \in Link /\ l.session = link[c].session /\ l.state = link[c].state
      /\ l.envelope = link[c].envelope /\ l.astray = link[c].astray /\ l.pc = "body"
      /\ link[c].pc = "body"
  BY ThisConn DEF Line, Link
<1>3. link[c].state = "RCPT"
  BY <1>2, ThisConn DEF ConnInv
<1> HIDE DEF l
<1>4. ConnInv(l, view[c], store, Known)
  BY <1>2, <1>3, ThisConn, BodyConn
<1> QED
  BY <1>1, <1>4, ThisConn, Uncommitted

LEMMA AbandonDataInv ==
  ASSUME SubmissionInv, NEW c \in Conn, AbandonData(c) PROVE SubmissionInv'
<1> DEFINE k == ResetEnvelope(link[c])
           l == [k EXCEPT !.pc = "command", !.lines = 0, !.astray = TRUE]
           v == IF link[c].astray THEN view[c] ELSE NoEnvelope
<1>1. /\ link' = [link EXCEPT ![c] = l] /\ view' = [view EXCEPT ![c] = v]
      /\ UNCHANGED <<mode, outbound, serial, receipts, profileVars, store>>
  BY ThisConn, Heard DEF AbandonData, Become, Nothing
<1>2. /\ k \in Link /\ k.session = link[c].session
      /\ k.state = IF link[c].session # "none" THEN "AUTH" ELSE "EHLO"
  BY ThisConn, ResetFields
<1> HIDE DEF k
<1>3. /\ l \in Link /\ v \in Envelope /\ l.pc = "command" /\ l.astray
      /\ l.session = link[c].session
      /\ l.state = IF link[c].session # "none" THEN "AUTH" ELSE "EHLO"
  BY <1>2, ThisConn, EnvelopeFacts DEF Link
<1> HIDE DEF l, v
<1>4. ConnInv(l, v, store, Known)
  BY <1>3, ThisConn, ResetConn
<1> QED
  BY <1>1, <1>4, ThisConn, Uncommitted

LEMMA EndOfDataInv ==
  ASSUME SubmissionInv, NEW c \in Conn, NEW x \in Content, EndOfData(c, x)
  PROVE  SubmissionInv'
<1> DEFINE l == [link[c] EXCEPT !.pc = "stored", !.lines = 0, !.content = x]
<1>1. /\ link' = [link EXCEPT ![c] = l] /\ view' = [view EXCEPT ![c] = view[c]]
      /\ UNCHANGED <<mode, outbound, serial, receipts, profileVars>>
      /\ store' = store \cup {x}
  BY ThisConn DEF EndOfData, Become
<1>2. /\ l \in Link /\ l.session = link[c].session /\ l.state = link[c].state
      /\ l.envelope = link[c].envelope /\ l.astray = link[c].astray
      /\ l.pc = "stored" /\ l.content = x /\ link[c].pc = "body"
  BY ThisConn DEF EndOfData, Link
<1>3. link[c].state = "RCPT" /\ ConnInv(link[c], view[c], store', Known)
  BY <1>1, <1>2, ThisConn DEF ConnInv
<1> HIDE DEF l
<1>4. ConnInv(l, view[c], store', Known)
  BY <1>1, <1>2, <1>3, BodyConn
<1> QED
  BY <1>1, <1>4, ThisConn, Uncommitted

(***************************************************************************)
(* The answer to a message leaves its connection in order: reset, or down. *)
(***************************************************************************)
LEMMA AnswerConn ==
  ASSUME SubmissionInv, NEW c \in Conn, NEW broken \in BOOLEAN, Answer(c, broken)
  PROVE  /\ UNCHANGED <<mode, profileVars>>
         /\ \E l, v : /\ link' = [link EXCEPT ![c] = l]
                      /\ view' = [view EXCEPT ![c] = v]
                      /\ ConnInv(l, v, store, Known)
<1>1. CASE /\ Become(c, Down)
           /\ view' = [view EXCEPT ![c] = NoEnvelope]
  <2>1. /\ link' = [link EXCEPT ![c] = Down] /\ view' = [view EXCEPT ![c] = NoEnvelope]
        /\ UNCHANGED <<mode, profileVars>>
    BY <1>1 DEF Become
  <2> QED
    BY <2>1, FreshConn
<1>2. CASE /\ Become(c, [ResetEnvelope(link[c]) EXCEPT
                     !.pc = "command", !.lines = 0, !.content = "none",
                     !.broken = broken])
           /\ Hear(c, NoEnvelope)
  <2> DEFINE k == ResetEnvelope(link[c])
             l == [k EXCEPT !.pc = "command", !.lines = 0, !.content = "none",
                            !.broken = broken]
             v == IF link[c].astray THEN view[c] ELSE NoEnvelope
  <2>1. /\ link' = [link EXCEPT ![c] = l] /\ view' = [view EXCEPT ![c] = v]
        /\ UNCHANGED <<mode, profileVars>>
    BY <1>2, ThisConn, Heard DEF Become
  <2>2. /\ k \in Link /\ k.session = link[c].session /\ k.astray = link[c].astray
        /\ k.state = IF link[c].session # "none" THEN "AUTH" ELSE "EHLO"
    BY ThisConn, ResetFields
  <2> HIDE DEF k
  <2>3. /\ l \in Link /\ v \in Envelope /\ l.pc = "command" /\ l.astray = link[c].astray
        /\ l.session = link[c].session
        /\ l.state = IF link[c].session # "none" THEN "AUTH" ELSE "EHLO"
    BY <2>2, ThisConn, EnvelopeFacts DEF Link
  <2>4. l.astray \/ v = NoEnvelope
    BY <2>3
  <2> HIDE DEF l, v
  <2>5. ConnInv(l, v, store, Known)
    BY <2>3, <2>4, ThisConn, ResetConn
  <2> QED
    BY <2>1, <2>5
<1> QED
  BY <1>1, <1>2 DEF Answer

LEMMA DiskErrorInv ==
  ASSUME SubmissionInv, NEW c \in Conn, NEW x \in Content, DiskError(c, x)
  PROVE  SubmissionInv'
<1>1. link[c].broken \in BOOLEAN /\ Answer(c, link[c].broken)
  BY ThisConn DEF DiskError, Link
<1>2. UNCHANGED <<mode, profileVars, outbound, store, serial, receipts>>
  BY <1>1, AnswerConn DEF DiskError, Nothing
<1>3. PICK l, v : /\ link' = [link EXCEPT ![c] = l]
                  /\ view' = [view EXCEPT ![c] = v]
                  /\ ConnInv(l, v, store, Known)
  BY <1>1, AnswerConn
<1> QED
  BY <1>2, <1>3, ThisConn, Uncommitted

\* A row of a message that was collected is complete, and tells its client's
\* transaction.
LEMMA RowOfMessage ==
  ASSUME SubmissionInv, NEW c \in Conn, link[c].pc = "stored", CanInsert(c)
  PROVE  LET o == OutboundRow(c)
         IN  /\ o \in Outbound
             /\ o.id = serial + 1 /\ o.mailbox = link[c].session
             /\ o.envelope = link[c].envelope /\ o.status = DeliveryStatus
             /\ o.content \in store
             /\ o.envelope.from # "none" /\ o.envelope.to # << >>
             /\ o.mailbox \in DOMAIN profile
             /\ ~link[c].astray => o.envelope = view[c]
<1>1. /\ link[c].state = "RCPT" /\ link[c].content \in store
      /\ link[c].envelope.from # "none" /\ link[c].envelope.to # << >>
      /\ ~link[c].astray => link[c].envelope = view[c]
      /\ link[c].envelope \in Envelope
  BY ThisConn DEF ConnInv, Agree, Link
<1>2. /\ link[c].session \in DOMAIN profile /\ link[c].session \in Mailbox
      /\ serial + 1 \in Nat /\ link[c].content \in Content
      /\ DeliveryStatus \in {"captured", "failed"}
  BY <1>1 DEF CanInsert, SubmissionInv, TypeOK, ProfilesTypeOK, DeliveryStatus
<1> QED
  BY <1>1, <1>2 DEF OutboundRow, Outbound

(***************************************************************************)
(* A row that is committed, and a receipt of it if there is one.           *)
(***************************************************************************)
LEMMA Committed ==
  ASSUME SubmissionInv, NEW c \in Conn, NEW broken \in BOOLEAN,
         link[c].pc = "stored", CanInsert(c), Answer(c, broken),
         outbound' = outbound \cup {OutboundRow(c)}, serial' = serial + 1,
         UNCHANGED store,
         \/ receipts' = receipts
         \/ /\ mode = "capture" /\ ~link[c].astray
            /\ receipts' = receipts \cup {[id |-> serial', mailbox |-> link[c].session,
                                           envelope |-> view[c]]}
  PROVE  SubmissionInv'
<1> DEFINE o == OutboundRow(c)
           r == [id |-> serial', mailbox |-> link[c].session, envelope |-> view[c]]
<1>1. UNCHANGED <<mode, profileVars>>
  BY AnswerConn
<1>2. PICK l, v : /\ link' = [link EXCEPT ![c] = l]
                  /\ view' = [view EXCEPT ![c] = v]
                  /\ ConnInv(l, v, store, Known)
  BY AnswerConn
<1>3. /\ ConnectionsInv'
      /\ link' \in [Conn -> Link] /\ view' \in [Conn -> Envelope]
  BY <1>1, <1>2, OneConnection
<1>4. /\ profile' = profile /\ deleted' = deleted /\ Known' = Known
      /\ DeliveryStatus' = DeliveryStatus
      /\ ProfilesTypeOK'
  BY <1>1 DEF SubmissionInv, TypeOK, profileVars, ProfilesTypeOK, Known, DeliveryStatus
<1>5. /\ o \in Outbound
      /\ o.id = serial + 1 /\ o.mailbox = link[c].session
      /\ o.status = DeliveryStatus /\ o.content \in store
      /\ o.envelope.from # "none" /\ o.envelope.to # << >>
      /\ o.mailbox \in DOMAIN profile
      /\ ~link[c].astray => o.envelope = view[c]
  BY RowOfMessage
<1>6. /\ r \in Receipt /\ r.id = serial + 1 /\ r.mailbox = link[c].session
      /\ r.envelope = view[c]
  BY <1>5, ThisConn DEF Receipt, Outbound, SubmissionInv, TypeOK, ProfilesTypeOK
<1>7. outbound' = outbound \cup {o}
  OBVIOUS
<1>8. receipts' = receipts \/ (mode = "capture" /\ ~link[c].astray
                               /\ receipts' = receipts \cup {r})
  OBVIOUS
<1> HIDE DEF o, r
<1>9. TypeOK'
  BY <1>1, <1>3, <1>4, <1>5, <1>6, <1>7, <1>8 DEF SubmissionInv, TypeOK
<1>10. RowsComplete'
  <2>1. DeliveryStatus \in FinalStatus /\ FinalStatus' = FinalStatus
    BY <1>1 DEF DeliveryStatus, FinalStatus
  <2> QED
    BY <1>4, <1>5, <1>7, <2>1 DEF SubmissionInv, RowsComplete
<1>11. ReceiptsKnown'
  BY <1>4, <1>5, <1>6, <1>8 DEF SubmissionInv, ReceiptsKnown, Known
<1>12. AcceptedIsRecorded'
  <2>1. ASSUME NEW s \in receipts', s.mailbox \in DOMAIN profile'
        PROVE  \E q \in outbound' : /\ q.id = s.id /\ q.mailbox = s.mailbox
                                    /\ q.envelope = s.envelope /\ q.status = "captured"
    <3>1. CASE s \in receipts
      BY <1>4, <1>7, <2>1, <3>1 DEF SubmissionInv, AcceptedIsRecorded
    <3>2. CASE s = r /\ mode = "capture" /\ ~link[c].astray
      BY <1>5, <1>6, <1>7, <3>2 DEF DeliveryStatus
    <3> QED
      BY <1>8, <2>1, <3>1, <3>2
  <2> QED
    BY <2>1 DEF AcceptedIsRecorded
<1> QED
  BY <1>3, <1>9, <1>10, <1>11, <1>12 DEF SubmissionInv

LEMMA DeliverOutboundInv ==
  ASSUME SubmissionInv, NEW c \in Conn, DeliverOutbound(c) PROVE SubmissionInv'
BY Committed DEF DeliverOutbound

LEMMA DeliveryErrorInv ==
  ASSUME SubmissionInv, NEW c \in Conn, DeliveryError(c) PROVE SubmissionInv'
<1>1. CASE UNCHANGED <<outbound, serial>>
  <2>1. UNCHANGED <<mode, profileVars, outbound, store, serial, receipts>>
    BY <1>1, AnswerConn DEF DeliveryError
  <2>2. PICK l, v : /\ link' = [link EXCEPT ![c] = l]
                    /\ view' = [view EXCEPT ![c] = v]
                    /\ ConnInv(l, v, store, Known)
    BY AnswerConn DEF DeliveryError
  <2> QED
    BY <2>1, <2>2, ThisConn, Uncommitted
<1>2. CASE /\ CanInsert(c)
           /\ serial' = serial + 1
           /\ outbound' = outbound \cup {OutboundRow(c)}
  BY <1>2, Committed DEF DeliveryError
<1> QED
  BY <1>1, <1>2 DEF DeliveryError

LEMMA CrashInv == ASSUME SubmissionInv, Crash PROVE SubmissionInv'
<1>1. Down \in Link /\ NoEnvelope \in Envelope
  BY FreshConn DEF ConnInv
<1>2. /\ link' = [c \in Conn |-> Down] /\ view' = [c \in Conn |-> NoEnvelope]
      /\ UNCHANGED <<mode, profileVars, outbound, store, serial, receipts>>
  BY DEF Crash, Nothing
<1>3. ConnectionsInv'
  BY <1>2, FreshConn DEF ConnectionsInv
<1>4. ProfilesTypeOK' /\ Known' = Known
  BY <1>2 DEF SubmissionInv, TypeOK, profileVars, ProfilesTypeOK, Known
<1>5. TypeOK'
  BY <1>1, <1>2, <1>4 DEF SubmissionInv, TypeOK
<1>6. ReceiptsKnown' /\ RowsComplete' /\ AcceptedIsRecorded'
  BY <1>2, <1>4 DEF SubmissionInv, ReceiptsKnown, RowsComplete, AcceptedIsRecorded, profileVars,
         DeliveryStatus, FinalStatus
<1> QED
  BY <1>3, <1>5, <1>6 DEF SubmissionInv

(***************************************************************************)
(* A profile goes with its rows; a receipt of it then says nothing.        *)
(***************************************************************************)
LEMMA AdministerInv ==
  ASSUME SubmissionInv, ProfilesInv, ProfilesInv', Administer PROVE SubmissionInv'
<1>1. /\ UNCHANGED <<mode, link, view, store, serial, receipts>>
      /\ outbound' = {o \in outbound : o.mailbox \in DOMAIN profile'}
  BY DEF Administer
<1>2. Known \subseteq Known' /\ deleted \subseteq deleted'
  BY KnownGrows DEF Administer
<1>3. ConnectionsInv'
  BY <1>1, <1>2, ConnMonotone DEF SubmissionInv, ConnectionsInv
<1>4. TypeOK'
  BY <1>1 DEF SubmissionInv, TypeOK, ProfilesInv
<1>5. ReceiptsKnown' /\ RowsComplete'
  BY <1>1, <1>2 DEF SubmissionInv, ReceiptsKnown, RowsComplete, DeliveryStatus,
         FinalStatus
<1>6. AcceptedIsRecorded'
  <2>1. ASSUME NEW r \in receipts', r.mailbox \in DOMAIN profile'
        PROVE  r.mailbox \in DOMAIN profile
    BY <1>1, <1>2, <2>1 DEF SubmissionInv, ReceiptsKnown, Known, ProfilesInv, DeletedStaysDeleted
  <2> QED
    BY <1>1, <2>1 DEF SubmissionInv, AcceptedIsRecorded
<1> QED
  BY <1>3, <1>4, <1>5, <1>6 DEF SubmissionInv

-----------------------------------------------------------------------------
\* The proxy never changes a profile.
LEMMA ProfileStep == Next => [ProfilesNext]_profileVars
<1> SUFFICES ASSUME Next PROVE [ProfilesNext]_profileVars
  OBVIOUS
<1>1. CASE Administer
  BY <1>1 DEF Administer
<1>2. CASE Crash
  BY <1>2 DEF Crash
<1>3. ASSUME NEW c \in Conn,
             \/ Connect(c) \/ Lose(c) \/ Greet(c) \/ Auth(c) \/ Rset(c)
             \/ \E a \in Address : Mail(c, a) \/ Rcpt(c, a)
             \/ Data(c) \/ Body(c) \/ Deliver(c)
      PROVE  UNCHANGED profileVars
  BY <1>3 DEF Connect, Lose, Greet, Auth, Rset, Mail, Rcpt, Data, Body, Deliver, Line,
     AbandonData, EndOfData, DiskError, DeliverOutbound, DeliveryError, Answer, Become
<1> QED
  BY <1>1, <1>2, <1>3 DEF Next

LEMMA SubmissionInitInv == Init => SubmissionInv
<1> SUFFICES ASSUME Init PROVE SubmissionInv
  OBVIOUS
<1>1. ProfilesInv
  BY ProfilesInitInv DEF Init
<1>2. Down \in Link /\ NoEnvelope \in Envelope
  BY FreshConn DEF ConnInv
<1>3. ConnectionsInv
  BY FreshConn DEF Init, ConnectionsInv
<1>4. TypeOK
  BY <1>1, <1>2 DEF Init, TypeOK, ProfilesInv
<1> QED
  BY <1>3, <1>4 DEF SubmissionInv, Init, ReceiptsKnown, RowsComplete, AcceptedIsRecorded

LEMMA SubmissionStepInv ==
  SubmissionInv /\ ProfilesInv /\ ProfilesInv' /\ [Next]_vars => SubmissionInv'
<1> SUFFICES ASSUME SubmissionInv, ProfilesInv, ProfilesInv', [Next]_vars PROVE SubmissionInv'
  OBVIOUS
<1>1. CASE UNCHANGED vars
  BY <1>1 DEF vars, smtpVars, profileVars, SubmissionInv, TypeOK, ProfilesTypeOK, ConnectionsInv,
     Known, ReceiptsKnown, RowsComplete, AcceptedIsRecorded, DeliveryStatus,
     FinalStatus
<1>2. CASE Administer
  BY <1>2, AdministerInv
<1>3. CASE Crash
  BY <1>3, CrashInv
<1>4. ASSUME NEW c \in Conn,
             \/ Connect(c) \/ Lose(c) \/ Greet(c) \/ Auth(c) \/ Rset(c)
             \/ \E a \in Address : Mail(c, a) \/ Rcpt(c, a)
             \/ Data(c)
      PROVE  SubmissionInv'
  BY <1>4, ConnectInv, LoseInv, GreetInv, AuthInv, RsetInv, MailInv, RcptInv, DataInv
<1>5. ASSUME NEW c \in Conn, Body(c) \/ Deliver(c)
      PROVE  SubmissionInv'
  BY <1>5, LineInv, AbandonDataInv, EndOfDataInv, DiskErrorInv, DeliverOutboundInv,
     DeliveryErrorInv DEF Body, Deliver
<1> QED
  BY <1>1, <1>2, <1>3, <1>4, <1>5 DEF Next

(***************************************************************************)
(* The proxy implements the profile handlers: next to it they behave as    *)
(* they do alone, so that all that is proved of them holds here.           *)
(***************************************************************************)
THEOREM ProxyLeavesProfiles == Spec => ProfilesSpec
<1>1. Init => ProfilesInit
  BY DEF Init
<1>2. [Next]_vars => [ProfilesNext]_profileVars
  BY ProfileStep DEF vars
<1> QED
  BY <1>1, <1>2, PTL DEF Spec, ProfilesSpec

(***************************************************************************)
(* The invariant of submissions holds in every behaviour.                  *)
(***************************************************************************)
THEOREM SubmissionInvariant == Spec => []SubmissionInv
BY ProxyLeavesProfiles, ProfilesInvariant, SubmissionInitInv, SubmissionStepInv, PTL DEF Spec

(***************************************************************************)
(* A message the client was told is accepted is on record, with its sender *)
(* and recipients, while its mailbox exists.                               *)
(***************************************************************************)
THEOREM AcceptanceIsKept == Spec => []AcceptedIsRecorded
BY SubmissionInvariant, PTL DEF SubmissionInv

(***************************************************************************)
(* Every committed row is complete, whatever failed or was lost before.    *)
(***************************************************************************)
THEOREM RowsAreComplete == Spec => []RowsComplete
BY SubmissionInvariant, PTL DEF SubmissionInv

(***************************************************************************)
(* Client and server see the same transaction until a message over the     *)
(* limit was abandoned.                                                    *)
(***************************************************************************)
THEOREM TransactionsAgree == Spec => []ViewsAgree
<1>1. SubmissionInv => ViewsAgree
  BY DEF SubmissionInv, ConnectionsInv, ConnInv, Agree, ViewsAgree
<1> QED
  BY <1>1, SubmissionInvariant, PTL

(***************************************************************************)
(* Every variable keeps its type: no connection leaves the states of       *)
(* SmtpState, and a row is written with its columns filled.                *)
(***************************************************************************)
THEOREM SubmissionTypes == Spec => []TypeOK
BY SubmissionInvariant, PTL DEF SubmissionInv

(***************************************************************************)
(* What holds of the profiles while only their own handlers run holds      *)
(* beside the proxy too: no login and no submission brings back            *)
(* credentials, a test result or a deleted mailbox.                        *)
(***************************************************************************)
THEOREM ProfilesStand ==
  Spec => [](CredentialsAsLastSet /\ TestResultStands /\ DeletedStaysDeleted)
BY ProxyLeavesProfiles, CredentialsStand, TestResultsStand, DeletionIsFinal, PTL

-----------------------------------------------------------------------------
(***************************************************************************)
(* How a message ends.  The liveness property EveryDataAnswered is TLC's;  *)
(* what is proved here is the other half of its argument, a measure: the   *)
(* steps that are left to a connection that collects or stores a message.  *)
(***************************************************************************)
StepsLeft(l) ==
  CASE l.pc = "body"   -> MaxBytes - l.lines + 2
    [] l.pc = "stored" -> 1
    [] OTHER           -> 0

LinesInv == \A c \in Conn : link[c].lines <= MaxBytes

\* A step of one connection, of which nothing but a line passes the count.
LEMMA ConnectionLines ==
  ASSUME SubmissionInv, LinesInv, NEW c \in Conn,
         \/ Connect(c) \/ Lose(c) \/ Greet(c) \/ Auth(c) \/ Rset(c)
         \/ \E a \in Address : Mail(c, a) \/ Rcpt(c, a)
         \/ Data(c) \/ Body(c) \/ Deliver(c)
  PROVE  /\ \A d \in Conn \ {c} : link'[d] = link[d]
         /\ link'[c].lines <= MaxBytes
         /\ StepsLeft(link[c]) > 0 => StepsLeft(link'[c]) < StepsLeft(link[c])
<1>1. /\ link \in [Conn -> Link] /\ link[c].lines \in Nat /\ MaxBytes \in Nat
      /\ link[c].lines <= MaxBytes
      /\ link[c].pc \in {"down", "command", "body", "stored"}
  BY SSConstants DEF SubmissionInv, TypeOK, Link, LinesInv
<1>2. /\ Down.lines = 0 /\ Down.pc = "down"
      /\ Fresh.lines = 0 /\ Fresh.pc = "command"
  BY DEF Down, Fresh
<1>3. /\ ResetEnvelope(link[c]) \in Link
      /\ ResetEnvelope(link[c]).pc = link[c].pc
      /\ ResetEnvelope(link[c]).lines = link[c].lines
  <2>1. link[c] \in Link
    BY <1>1
  <2>2. ResetEnvelope(link[c]) \in Link /\ ResetEnvelope(link[c]).pc = link[c].pc
    BY <2>1, ResetFields
  <2>3. ResetEnvelope(link[c]).lines = link[c].lines
    BY <2>1 DEF ResetEnvelope, Link
  <2> QED
    BY <2>2, <2>3
<1>4. ASSUME \/ Connect(c) \/ Lose(c) \/ Greet(c) \/ Auth(c) \/ Rset(c)
             \/ \E a \in Address : Mail(c, a) \/ Rcpt(c, a)
             \/ Data(c)
      PROVE  /\ \A d \in Conn \ {c} : link'[d] = link[d]
             /\ link'[c].lines <= MaxBytes
             /\ link[c].pc # "stored"
             /\ link[c].pc = "body" => link'[c].pc = "down"
  <2>1. CASE Connect(c) \/ Lose(c)
    BY <1>1, <1>2, <2>1 DEF Become, Connect, Lose
  <2>2. CASE Greet(c) \/ Auth(c)
    <3>1. link[c] \in Link /\ link[c].pc = "command"
      BY <1>1, <2>2 DEF Greet, Auth, MayLogIn, Listening
    <3>2. PICK l : link' = [link EXCEPT ![c] = l] /\ l.lines = link[c].lines
      <4>1. CASE Greet(c)
        <5> DEFINE l == [link[c] EXCEPT !.state = IF Authenticated(c) THEN "AUTH" ELSE "EHLO"]
        <5>1. l.lines = link[c].lines
          BY <3>1 DEF Link
        <5>2. link' = [link EXCEPT ![c] = l]
          BY <4>1 DEF Greet, Become
        <5> HIDE DEF l
        <5> QED
          BY <5>1, <5>2
      <4>2. CASE Auth(c)
        <5>1. PICK m : link' = [link EXCEPT ![c] =
                                  [link[c] EXCEPT !.session = m, !.state = "AUTH"]]
          BY <4>2 DEF Auth, Become
        <5> DEFINE l == [link[c] EXCEPT !.session = m, !.state = "AUTH"]
        <5>2. l.lines = link[c].lines
          BY <3>1 DEF Link
        <5>3. link' = [link EXCEPT ![c] = l]
          BY <5>1
        <5> HIDE DEF l
        <5> QED
          BY <5>2, <5>3
      <4> QED
        BY <2>2, <4>1, <4>2
    <3>3. link'[c].lines = link[c].lines /\ \A d \in Conn \ {c} : link'[d] = link[d]
      BY <1>1, <3>2
    <3> QED
      BY <1>1, <3>1, <3>3
  <2>3. CASE Rset(c)
    <3>1. link' = [link EXCEPT ![c] = ResetEnvelope(link[c])] /\ link[c].pc = "command"
      BY <2>3 DEF Become, Rset, Listening
    <3>2. link'[c] = ResetEnvelope(link[c]) /\ \A d \in Conn \ {c} : link'[d] = link[d]
      BY <1>1, <3>1
    <3> QED
      BY <1>1, <1>3, <3>1, <3>2
  <2>4. CASE Data(c)
    BY <1>1, <2>4 DEF Become, Data, Listening, Link
  <2>5. ASSUME NEW a \in Address, Mail(c, a) \/ Rcpt(c, a)
        PROVE  /\ link[c].pc = "command"
               /\ link'[c].lines = link[c].lines
               /\ \A d \in Conn \ {c} : link'[d] = link[d]
    BY <1>1, <2>5 DEF Become, Mail, Rcpt, Listening, Link
  <2> QED
    BY <1>1, <1>4, <2>1, <2>2, <2>3, <2>4, <2>5
<1>5. ASSUME NEW broken, Answer(c, broken)
      PROVE  /\ \A d \in Conn \ {c} : link'[d] = link[d]
             /\ link'[c].lines = 0 /\ link'[c].pc \in {"command", "down"}
  <2> DEFINE r == ResetEnvelope(link[c])
             l == [r EXCEPT !.pc = "command", !.lines = 0, !.content = "none",
                            !.broken = broken]
  <2>1. l.lines = 0 /\ l.pc = "command"
    BY <1>3 DEF Link
  <2>2. link' = [link EXCEPT ![c] = l] \/ link' = [link EXCEPT ![c] = Down]
    BY <1>5 DEF Answer, Become
  <2> HIDE DEF l
  <2> QED
    BY <1>1, <1>2, <2>1, <2>2
<1>6. ASSUME Body(c) \/ Deliver(c)
      PROVE  /\ \A d \in Conn \ {c} : link'[d] = link[d]
             /\ link'[c].lines <= MaxBytes
             /\ StepsLeft(link'[c]) < StepsLeft(link[c])
  <2>1. CASE Line(c)
    <3>1. /\ link[c].pc = "body" /\ link[c].lines < MaxBytes
          /\ link'[c].pc = "body" /\ link'[c].lines = link[c].lines + 1
          /\ \A d \in Conn \ {c} : link'[d] = link[d]
      BY <1>1, <2>1 DEF Become, Line, Link
    <3> QED
      BY <1>1, <3>1 DEF StepsLeft
  <2>2. CASE AbandonData(c) \/ \E x \in Content : DiskError(c, x)
    <3>1. /\ link[c].pc = "body" /\ link'[c].pc \in {"command", "down"}
          /\ link'[c].lines = 0
          /\ \A d \in Conn \ {c} : link'[d] = link[d]
      <4>1. CASE AbandonData(c)
        <5> DEFINE r == ResetEnvelope(link[c])
                   l == [r EXCEPT !.pc = "command", !.lines = 0, !.astray = TRUE]
        <5>1. l.lines = 0 /\ l.pc = "command"
          BY <1>3 DEF Link
        <5>2. link' = [link EXCEPT ![c] = l] /\ link[c].pc = "body"
          BY <4>1 DEF AbandonData, Become
        <5> HIDE DEF l
        <5> QED
          BY <1>1, <5>1, <5>2
      <4>2. CASE \E x \in Content : DiskError(c, x)
        BY <1>5, <4>2 DEF DiskError
      <4> QED
        BY <2>2, <4>1, <4>2
    <3> QED
      BY <1>1, <3>1 DEF StepsLeft
  <2>3. ASSUME NEW x \in Content, EndOfData(c, x)
        PROVE  /\ \A d \in Conn \ {c} : link'[d] = link[d]
               /\ link'[c].lines <= MaxBytes
               /\ StepsLeft(link'[c]) < StepsLeft(link[c])
    <3>1. /\ link[c].pc = "body" /\ link'[c].pc = "stored" /\ link'[c].lines = 0
          /\ \A d \in Conn \ {c} : link'[d] = link[d]
      BY <1>1, <2>3 DEF Become, EndOfData, Link
    <3> QED
      BY <1>1, <3>1 DEF StepsLeft
  <2>4. CASE Deliver(c)
    <3>1. /\ link[c].pc = "stored" /\ link'[c].pc \in {"command", "down"}
          /\ link'[c].lines = 0
          /\ \A d \in Conn \ {c} : link'[d] = link[d]
      BY <1>5, <2>4 DEF Deliver, DeliverOutbound, DeliveryError
    <3> QED
      BY <1>1, <3>1 DEF StepsLeft
  <2> QED
    BY <1>6, <2>1, <2>2, <2>3, <2>4 DEF Body
<1>7. StepsLeft(link[c]) > 0 => link[c].pc \in {"body", "stored"}
  BY DEF StepsLeft
<1>8. link[c].pc = "body" => StepsLeft(link[c]) > 0
  BY <1>1 DEF StepsLeft
<1>9. link'[c].pc = "down" => StepsLeft(link'[c]) = 0
  BY DEF StepsLeft
<1> QED
  BY <1>4, <1>6, <1>7, <1>8, <1>9

(***************************************************************************)
(* No step adds to what is left, but for the DATA that begins a message.   *)
(***************************************************************************)
LEMMA LinesStep ==
  SubmissionInv /\ LinesInv /\ [Next]_vars =>
    /\ LinesInv'
    /\ \A c \in Conn : StepsLeft(link[c]) > 0 =>
         link'[c] = link[c] \/ StepsLeft(link'[c]) < StepsLeft(link[c])
<1> SUFFICES ASSUME SubmissionInv, LinesInv, [Next]_vars
             PROVE  /\ LinesInv'
                    /\ \A c \in Conn : StepsLeft(link[c]) > 0 =>
                         link'[c] = link[c] \/ StepsLeft(link'[c]) < StepsLeft(link[c])
  OBVIOUS
<1>1. CASE UNCHANGED vars \/ Administer
  BY <1>1 DEF vars, smtpVars, Administer, LinesInv
<1>2. CASE Crash
  <2>1. \A c \in Conn : link'[c] = Down
    BY <1>2 DEF Crash
  <2>2. Down.lines = 0 /\ StepsLeft(Down) = 0
    BY DEF Down, Fresh, StepsLeft
  <2>3. \A c \in Conn : StepsLeft(link[c]) > 0 => StepsLeft(link'[c]) < StepsLeft(link[c])
    BY <2>1, <2>2
  <2> QED
    BY <2>1, <2>2, <2>3, SSConstants DEF LinesInv
<1>3. ASSUME NEW c \in Conn,
             \/ Connect(c) \/ Lose(c) \/ Greet(c) \/ Auth(c) \/ Rset(c)
             \/ \E a \in Address : Mail(c, a) \/ Rcpt(c, a)
             \/ Data(c) \/ Body(c) \/ Deliver(c)
      PROVE  /\ LinesInv'
             /\ \A d \in Conn : StepsLeft(link[d]) > 0 =>
                  link'[d] = link[d] \/ StepsLeft(link'[d]) < StepsLeft(link[d])
  BY <1>3, ConnectionLines DEF LinesInv
<1> QED
  BY <1>1, <1>2, <1>3 DEF Next

(***************************************************************************)
(* Every message ends: from the DATA on, a connection takes at most        *)
(* max_message_bytes + 2 steps until the message is answered or the        *)
(* connection is gone, since each step brings it nearer to that end and no *)
(* step of another connection, of a handler or of the database takes it    *)
(* back.                                                                   *)
(***************************************************************************)
THEOREM MessagesEnd ==
  Spec => /\ [](\A c \in Conn : StepsLeft(link[c]) \in 0 .. MaxBytes + 2)
          /\ [][\A c \in Conn : StepsLeft(link[c]) > 0 =>
                  \/ link'[c] = link[c]
                  \/ StepsLeft(link'[c]) < StepsLeft(link[c])]_vars
<1> DEFINE Nearer == \A c \in Conn : StepsLeft(link[c]) > 0 =>
                       \/ link'[c] = link[c]
                       \/ StepsLeft(link'[c]) < StepsLeft(link[c])
           Bounded == \A c \in Conn : StepsLeft(link[c]) \in 0 .. MaxBytes + 2
<1>1. Init => LinesInv
  BY SSConstants DEF Init, LinesInv, Down, Fresh
<1>2. SubmissionInv /\ LinesInv /\ [Next]_vars => LinesInv' /\ [Nearer]_vars
  BY LinesStep
<1>3. SubmissionInv /\ LinesInv => Bounded
  <2> SUFFICES ASSUME SubmissionInv, LinesInv, NEW c \in Conn
               PROVE  StepsLeft(link[c]) \in 0 .. MaxBytes + 2
    OBVIOUS
  <2>1. link[c].lines \in 0 .. MaxBytes /\ MaxBytes \in Nat
    BY SSConstants DEF SubmissionInv, TypeOK, Link, LinesInv
  <2> QED
    BY <2>1 DEF StepsLeft
<1> HIDE DEF Nearer, Bounded
<1>4. Spec => [](SubmissionInv /\ LinesInv)
  BY <1>1, <1>2, SubmissionInvariant, PTL DEF Spec
<1>5. Spec => []Bounded
  BY <1>3, <1>4, PTL
<1>6. Spec => [][Nearer]_vars
  BY <1>2, <1>4, PTL DEF Spec
<1> QED
  BY <1>5, <1>6 DEF Nearer, Bounded
=============================================================================
