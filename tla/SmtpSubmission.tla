---------------------------- MODULE SmtpSubmission ----------------------------
(***************************************************************************)
(* Outbound mail: the SMTP submission proxy of app/proxies/smtp/server.py, *)
(* its delivery service (delivery.py) and the rows and files they leave,   *)
(* next to the handlers that administer the mailbox profiles.              *)
(*                                                                         *)
(* A connection is one task with one database session.  It reads a line,   *)
(* answers it and reads the next; a command refused (503, 502, 504, 530,   *)
(* 535) and NOOP change nothing and are no step here.  A line that never   *)
(* comes, one that is too long, QUIT and a reset connection all end in     *)
(* Lose.                                                                   *)
(*                                                                         *)
(* The client is any sequence of commands.  `view' is the transaction a    *)
(* client that knows RFC 5321 believes is open, from the answers it got:   *)
(* a 250 to MAIL opens one, a 250 to RCPT adds to it, EHLO, RSET and the   *)
(* answer to the message end it.                                           *)
(***************************************************************************)
EXTENDS MailboxProfiles, Sequences

CONSTANTS
  Conn,      \* connections of mail clients
  Address,   \* the addresses of MAIL FROM and RCPT TO
  Content,   \* message texts
  MaxBytes,  \* max_message_bytes; a line counts as one
  MaxRcpt,   \* bound: recipients of a message
  MaxRows    \* bound: messages submitted

ASSUME SSConstants ==
  /\ MaxBytes \in Nat /\ MaxRcpt \in Nat /\ MaxRows \in Nat
  /\ "none" \notin Address \cup Mailbox

VARIABLES
  mode,      \* delivery_mode, read once at start-up
  link,      \* the connections, as the server sees them
  view,      \* the open transaction, as the client sees it
  outbound,  \* outbound_messages: the committed rows
  store,     \* the files of the outbound store, named by their content
  serial,    \* the last id the database gave out
  receipts   \* history: the messages a client was told are accepted

smtpVars == <<mode, link, view, outbound, store, serial, receipts>>
vars == <<profileVars, smtpVars>>

\* SmtpState; DATA is declared too and never set.
SmtpState == {"GREETING", "EHLO", "AUTH", "MAIL", "RCPT"}

Envelope == [from : Address \cup {"none"}, to : Seq(Address)]

NoEnvelope == [from |-> "none", to |-> << >>]

(***************************************************************************)
(* A connection: its state, the profile it logged in to, its envelope;     *)
(* what it is doing (reading commands, collecting a message, or storing    *)
(* it), the lines of the message so far, the text just stored; whether its *)
(* database session still works, and whether it ever abandoned a message   *)
(* over the limit.                                                         *)
(***************************************************************************)
Link == [pc : {"down", "command", "body", "stored"}, state : SmtpState,
         session : Mailbox \cup {"none"}, envelope : Envelope, lines : Nat,
         content : Content \cup {"none"}, broken : BOOLEAN, astray : BOOLEAN]

Fresh == [pc |-> "command", state |-> "GREETING", session |-> "none",
          envelope |-> NoEnvelope, lines |-> 0, content |-> "none",
          broken |-> FALSE, astray |-> FALSE]

Down == [Fresh EXCEPT !.pc = "down"]

Outbound == [id : Nat, mailbox : Mailbox, envelope : Envelope, content : Content,
             status : {"pending", "captured", "relayed", "failed"}]

Receipt == [id : Nat, mailbox : Mailbox, envelope : Envelope]

TypeOK ==
  /\ ProfilesTypeOK
  /\ mode \in {"capture", "relay"}
  /\ link \in [Conn -> Link]
  /\ view \in [Conn -> Envelope]
  /\ outbound \subseteq Outbound
  /\ store \subseteq Content
  /\ serial \in Nat
  /\ receipts \subseteq Receipt

-----------------------------------------------------------------------------
\* After a message was abandoned the client goes on sending its lines while
\* the server answers commands: what it hears no longer tells it anything.
Hear(c, v) == view' = IF link[c].astray THEN view ELSE [view EXCEPT ![c] = v]

\* The connection c is reading a command.
Listening(c) == link[c].pc = "command"

Authenticated(c) == link[c].session # "none"

Become(c, l) ==
  /\ link' = [link EXCEPT ![c] = l]
  /\ UNCHANGED <<mode, profileVars>>

Nothing == UNCHANGED <<outbound, store, serial, receipts>>

\* SmtpServer._handle_connection: a connection and a session of its own.
Connect(c) ==
  /\ link[c].pc = "down"
  /\ Become(c, Fresh)
  /\ view' = [view EXCEPT ![c] = NoEnvelope]
  /\ Nothing

\* The connection ends while the server waits for a line.
Lose(c) ==
  /\ link[c].pc \in {"command", "body"}
  /\ Become(c, Down)
  /\ view' = [view EXCEPT ![c] = NoEnvelope]
  /\ Nothing

\* Mutant: the state is kept when the client greets again.
GreetKeeping(c) ==
  /\ Listening(c)
  /\ Become(c, [link[c] EXCEPT !.state = IF Authenticated(c) THEN @ ELSE "EHLO"])
  /\ Hear(c, NoEnvelope)
  /\ Nothing

(***************************************************************************)
(* EHLO and HELO, at any time.  The envelope stays as it is; the state     *)
(* goes back, so that only a MAIL can follow, which replaces it.           *)
(***************************************************************************)
Greet(c) ==
  /\ Listening(c)
  /\ Become(c, [link[c] EXCEPT !.state = IF Authenticated(c) THEN "AUTH" ELSE "EHLO"])
  /\ Hear(c, NoEnvelope)
  /\ Nothing

MayLogIn(c) ==
  /\ Listening(c)
  /\ link[c].state # "GREETING"
  /\ ~Authenticated(c)

\* AUTH PLAIN and AUTH LOGIN: the profile is read once, now.
Auth(c) ==
  /\ MayLogIn(c)
  /\ \E m \in DOMAIN profile, password \in 1 .. requests :
       /\ AuthenticateProxyCredentials(profile[m], password)
       /\ Become(c, [link[c] EXCEPT !.session = m, !.state = "AUTH"])
  /\ UNCHANGED view
  /\ Nothing

\* _reset_envelope: the transaction is over, the login stays.
ResetEnvelope(l) ==
  [l EXCEPT !.envelope = NoEnvelope,
            !.state = IF l.session # "none" THEN "AUTH" ELSE "EHLO"]

Rset(c) ==
  /\ Listening(c)
  /\ Authenticated(c)
  /\ Become(c, ResetEnvelope(link[c]))
  /\ Hear(c, NoEnvelope)
  /\ Nothing

\* Mutant: the recipients of an abandoned transaction stay.
MailKeeping(c, a) ==
  /\ Listening(c)
  /\ Authenticated(c)
  /\ link[c].state \in {"AUTH", "EHLO"}
  /\ Become(c, [link[c] EXCEPT !.state = "MAIL", !.envelope.from = a])
  /\ Hear(c, [from |-> a, to |-> << >>])
  /\ Nothing

Mail(c, a) ==
  /\ Listening(c)
  /\ Authenticated(c)
  /\ link[c].state \in {"AUTH", "EHLO"}
  /\ Become(c, [link[c] EXCEPT !.state = "MAIL",
                               !.envelope = [from |-> a, to |-> << >>]])
  /\ Hear(c, [from |-> a, to |-> << >>])
  /\ Nothing

Rcpt(c, a) ==
  /\ Listening(c)
  /\ Authenticated(c)
  /\ link[c].state \in {"MAIL", "RCPT"}
  /\ Len(link[c].envelope.to) < MaxRcpt
  /\ Become(c, [link[c] EXCEPT !.state = "RCPT",
                               !.envelope.to = Append(@, a)])
  /\ Hear(c, [view[c] EXCEPT !.to = Append(@, a)])
  /\ Nothing

\* DATA: 354, then _collect_data.
Data(c) ==
  /\ Listening(c)
  /\ Authenticated(c)
  /\ link[c].state = "RCPT"
  /\ serial < MaxRows
  /\ Become(c, [link[c] EXCEPT !.pc = "body", !.lines = 0])
  /\ UNCHANGED view
  /\ Nothing

\* Mutant: the size is that of the last line, and never passes the limit.
LineUncounted(c) ==
  /\ link[c].pc = "body"
  /\ \E n \in 0 .. MaxBytes : Become(c, [link[c] EXCEPT !.lines = n])
  /\ UNCHANGED view
  /\ Nothing

\* A line of the message that is within the limit.
Line(c) ==
  /\ link[c].pc = "body"
  /\ link[c].lines < MaxBytes
  /\ Become(c, [link[c] EXCEPT !.lines = @ + 1])
  /\ UNCHANGED view
  /\ Nothing

(***************************************************************************)
(* The collection is given up, at a line that passes the limit or when no  *)
(* line came for 300 seconds: 552, the envelope is cleared, and the lines  *)
(* that follow are read as commands.                                       *)
(***************************************************************************)
AbandonData(c) ==
  /\ link[c].pc = "body"
  /\ Become(c, [ResetEnvelope(link[c]) EXCEPT !.pc = "command", !.lines = 0,
                                             !.astray = TRUE])
  /\ Hear(c, NoEnvelope)
  /\ Nothing

\* The line "." ends the message, which is written to the store first: a new
\* file, or the one of an earlier message with the same text.
EndOfData(c, x) ==
  /\ link[c].pc = "body"
  /\ store' = store \cup {x}
  /\ Become(c, [link[c] EXCEPT !.pc = "stored", !.lines = 0, !.content = x])
  /\ UNCHANGED <<view, outbound, serial, receipts>>

\* Every answer to a message ends the transaction, heard or not: a client
\* that is gone when the answer comes takes its connection with it.
Answer(c, broken) ==
  \/ /\ Become(c, [ResetEnvelope(link[c]) EXCEPT
                     !.pc = "command", !.lines = 0, !.content = "none",
                     !.broken = broken])
     /\ Hear(c, NoEnvelope)
  \/ /\ Become(c, Down)
     /\ view' = [view EXCEPT ![c] = NoEnvelope]

\* Mutant: a file that cannot be written is noted in the log and left out.
DiskErrorIgnored(c, x) ==
  /\ link[c].pc = "body"
  /\ Become(c, [link[c] EXCEPT !.pc = "stored", !.lines = 0, !.content = x])
  /\ UNCHANGED <<view, outbound, store, serial, receipts>>

\* The file cannot be written: 451, before the database is touched.
DiskError(c, x) ==
  /\ link[c].pc = "body"
  /\ Answer(c, link[c].broken)
  /\ Nothing

\* The status deliver_outbound leaves.  The server passes it neither profile
\* nor encryptor, so that in relay mode it never reaches the upstream server
\* and the client gets 550, whatever docs/smtp-proxy.md:86-94 says.
DeliveryStatus == IF mode = "capture" THEN "captured" ELSE "failed"

OutboundRow(c) ==
  [id |-> serial + 1, mailbox |-> link[c].session, envelope |-> link[c].envelope,
   content |-> link[c].content, status |-> DeliveryStatus]

\* The row of a message needs the profile it was submitted through.
CanInsert(c) == ~link[c].broken /\ link[c].session \in DOMAIN profile

(***************************************************************************)
(* The row is inserted, gets its final status and is committed; the client *)
(* hears 250 and the id, or 550 in relay mode.                             *)
(***************************************************************************)
DeliverOutbound(c) ==
  /\ link[c].pc = "stored"
  /\ CanInsert(c)
  /\ serial' = serial + 1
  /\ outbound' = outbound \cup {OutboundRow(c)}
  /\ Answer(c, FALSE)
  /\ receipts' = IF mode = "capture" /\ link'[c].pc # "down" /\ ~link[c].astray
                 THEN receipts \cup {[id |-> serial', mailbox |-> link[c].session,
                                      envelope |-> view[c]]}
                 ELSE receipts
  /\ UNCHANGED store

(***************************************************************************)
(* The INSERT or the COMMIT fails: 451.  The profile may be gone, or the   *)
(* database, and then a COMMIT may have taken effect all the same.  Nobody *)
(* rolls the session back, so it refuses every later message.              *)
(***************************************************************************)
DeliveryError(c) ==
  /\ link[c].pc = "stored"
  /\ Answer(c, TRUE)
  /\ \/ UNCHANGED <<outbound, serial>>
     \/ /\ CanInsert(c)
        /\ serial' = serial + 1
        /\ outbound' = outbound \cup {OutboundRow(c)}
  /\ UNCHANGED <<store, receipts>>

\* The worker process stops: its connections go, rows and files stay.
Crash ==
  /\ link' = [c \in Conn |-> Down]
  /\ view' = [c \in Conn |-> NoEnvelope]
  /\ UNCHANGED <<mode, profileVars>>
  /\ Nothing

\* A step of a request handler.  A profile that goes takes its rows with it.
Administer ==
  /\ ProfilesNext
  /\ outbound' = {o \in outbound : o.mailbox \in DOMAIN profile'}
  /\ UNCHANGED <<mode, link, view, store, serial, receipts>>

Init ==
  /\ ProfilesInit
  /\ mode \in {"capture", "relay"}
  /\ link = [c \in Conn |-> Down]
  /\ view = [c \in Conn |-> NoEnvelope]
  /\ outbound = {}
  /\ store = {}
  /\ serial = 0
  /\ receipts = {}

\* What ends the wait of a connection that collects or stores a message.
Body(c) ==
  \/ Line(c) \/ AbandonData(c)
  \/ \E x \in Content : EndOfData(c, x) \/ DiskError(c, x)

Deliver(c) == DeliverOutbound(c) \/ DeliveryError(c)

Next ==
  \/ Administer
  \/ Crash
  \/ \E c \in Conn :
       \/ Connect(c) \/ Lose(c) \/ Greet(c) \/ Auth(c) \/ Rset(c)
       \/ \E a \in Address : Mail(c, a) \/ Rcpt(c, a)
       \/ Data(c) \/ Body(c) \/ Deliver(c)

Spec == Init /\ [][Next]_vars

(***************************************************************************)
(* A read ends after 300 seconds at the latest, with a line or without it; *)
(* the database answers or fails.                                          *)
(***************************************************************************)
FairSpec == Spec /\ \A c \in Conn : WF_vars(Body(c)) /\ WF_vars(Deliver(c))

-----------------------------------------------------------------------------
(***************************************************************************)
(* A message the client was told is accepted (250) is on record for as     *)
(* long as its mailbox exists: captured, with exactly the sender and the   *)
(* recipients the client was told are accepted in this transaction,        *)
(* however it repeated EHLO, RSET, MAIL and RCPT before.                   *)
(***************************************************************************)
AcceptedIsRecorded ==
  \A r \in receipts :
    r.mailbox \in DOMAIN profile =>
      \E o \in outbound : /\ o.id = r.id
                          /\ o.mailbox = r.mailbox
                          /\ o.envelope = r.envelope
                          /\ o.status = "captured"

(***************************************************************************)
(* Every committed row is complete, after any crash, lost connection or    *)
(* failed write: its text is in the store, its recipients are not empty,   *)
(* its profile exists, and its status is one its mode may end in: captured *)
(* in capture mode, relayed or failed in relay mode, and never pending.    *)
(* (That it is always failed in relay mode is how the server is wired, see *)
(* DeliveryStatus, and no part of what is stated here.)                    *)
(***************************************************************************)
FinalStatus == IF mode = "capture" THEN {"captured"} ELSE {"relayed", "failed"}

RowsComplete ==
  \A o \in outbound : /\ o.content \in store
                      /\ o.envelope.from # "none" /\ o.envelope.to # << >>
                      /\ o.mailbox \in DOMAIN profile
                      /\ o.status \in FinalStatus

(***************************************************************************)
(* The server accepts the next command exactly when the client believes it *)
(* may send it: both see the same transaction, with the same sender and    *)
(* recipients.  Only a message over the limit breaks this.                 *)
(***************************************************************************)
ViewsAgree ==
  \A c \in Conn :
    LET l == link[c]
    IN  l.pc # "down" /\ ~l.astray =>
          /\ (l.state = "MAIL") <=> (view[c].from # "none" /\ view[c].to = << >>)
          /\ (l.state = "RCPT") <=> (view[c].to # << >>)
          /\ l.state \in {"MAIL", "RCPT"} => l.envelope = view[c]

(***************************************************************************)
(* A message once begun is answered, or its connection ends: the lines are *)
(* bounded by max_message_bytes, the waits by the idle timeout.            *)
(***************************************************************************)
EveryDataAnswered ==
  \A c \in Conn : link[c].pc \in {"body", "stored"} ~> link[c].pc \in {"command", "down"}
=============================================================================
