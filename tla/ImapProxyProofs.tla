--------------------------- MODULE ImapProxyProofs ---------------------------
(***************************************************************************)
(* The IMAP proxy, for any number of connections, mailboxes and messages:  *)
(* clients are told of the messages of their own mailbox, in the folder of *)
(* their verdict, under UIDs that only overlapping syncs give to two       *)
(* messages, and under sequence numbers that keep their meaning while a    *)
(* folder is selected; what they ask for is what they get, and it changes  *)
(* no profile.                                                             *)
(*                                                                         *)
(* The argument is about the facts that are around: what the rows, the     *)
(* lists the connections hold and what clients remember say of a message   *)
(* (its mailbox, its UID and its folder).  No two of them contradict each  *)
(* other, those about a mailbox that exists agree with its rows, and the   *)
(* UIDs of pending rows are above them unless both are shared; a step adds *)
(* a fact only when a pending row is committed, and a pending row has an   *)
(* id above all before it and a UID above all its sync sees.  Facts about  *)
(* a deleted mailbox outlive its rows: a deleted profile stays deleted     *)
(* (MailboxProfilesProofs), so that no new message can contradict them.    *)
(***************************************************************************)
EXTENDS ImapProxy, MailboxProfilesProofs, NumberFacts, FiniteSetTheorems

FolderOf(vis) ==
  IF vis = "visible" THEN "INBOX"
  ELSE IF vis \in {"quarantined", "hidden"} THEN "Mindwall/Quarantine" ELSE "none"

\* What a row, and what a client that was told, knows of a message.
Fact(i) == [id |-> i.id, mailbox |-> i.mailbox, uid |-> i.uid, folder |-> FolderOf(i.vis)]
FactOf(t) == [id |-> t.id, mailbox |-> t.mailbox, uid |-> t.uid, folder |-> t.folder]

ItemFacts == {Fact(i) : i \in items}

HeldBy(c) == {Fact(i) : i \in conn[c].messages}

Facts == ItemFacts \cup {FactOf(t) : t \in told} \cup (UNION {HeldBy(c) : c \in Conn})

\* The facts F do not contradict each other, I are those of the rows, s is
\* the last id, live are the mailboxes that exist and sh the shared ids.
Consistent(F, I, s, live, sh) ==
  /\ \A f \in F : f.id \in Nat /\ f.id <= s /\ f.uid \in Nat /\ f.uid <= s
  /\ \A f \in F : f.mailbox \in live => f \in I
  /\ \A f, g \in F : f.id = g.id => f = g
  /\ \A f, g \in F : f.mailbox = g.mailbox /\ f.uid = g.uid => f = g \/ {f.id, g.id} \subseteq sh

\* The pending rows P next to the facts F: a new id each, a mailbox that
\* exists, and a UID above those of the rows and of its own sync's, or shared.
Pending(P, F, I, s, live, sh) ==
  /\ \A k \in Sync : \A p \in P[k] : /\ p.id \in 1 .. s /\ p.uid \in Nat /\ p.uid <= s
                                     /\ p.mailbox \in live
  /\ \A k \in Sync : \A p \in P[k], f \in F : p.id # f.id
  /\ \A k \in Sync : \A p \in P[k], f \in I :
       f.mailbox = p.mailbox => f.uid < p.uid \/ {f.id, p.id} \subseteq sh
  /\ \A k \in Sync : \A p, q \in P[k] :
       /\ p.mailbox = q.mailbox
       /\ p.id = q.id \/ p.uid = q.uid => p = q
  /\ \A k \in Sync : \A l \in Sync \ {k} : \A p \in P[k], q \in P[l] :
       /\ p.id # q.id
       /\ p.mailbox = q.mailbox => {p.id, q.id} \subseteq sh

PendingInv == Pending(pending, Facts, ItemFacts, serial, DOMAIN profile, shared)

FactsInv ==
  /\ Consistent(Facts, ItemFacts, serial, DOMAIN profile, shared)
  /\ \A f \in Facts : f.mailbox \in Known

\* The lines that tell of all of a list of messages.
LinesOf(messages) ==
  {[seq |-> SeqOf(messages, i), uid |-> i.uid, id |-> i.id] : i \in messages}

\* A connection x whose client has the view v.
ConnInv(x, v) ==
  /\ x \in Connection
  /\ IsFiniteSet(x.messages)
  /\ x.state # "SELECTED" => x.messages = {}
  /\ \A i \in x.messages :
       i.mailbox = x.session /\ FolderOf(i.vis) = x.folder /\ x.folder \in Folder
  /\ v \in [exists : Nat, seen : SUBSET Told]
  /\ v.exists = Cardinality(x.messages)
  /\ v.seen \subseteq LinesOf(x.messages)

ConnectionsInv == \A c \in Conn : ConnInv(conn[c], view[c])

ToldInv ==
  \A t \in told : t.validity = FolderUidValidity(t.mailbox, t.folder) /\ t.folder \in Folder

TypeInv ==
  /\ items \subseteq Item /\ IsFiniteSet(items)
  /\ pending \in [Sync -> SUBSET Item] /\ \A k \in Sync : IsFiniteSet(pending[k])
  /\ serial \in 0 .. MaxItems
  /\ shared \subseteq 1 .. serial
  /\ conn \in [Conn -> Connection]
  /\ view \in [Conn -> [exists : Nat, seen : SUBSET Told]]
  /\ answer.got \subseteq Told

(***************************************************************************)
(* The inductive invariant of the proxy, on top of the profiles'.          *)
(***************************************************************************)
ImapInv ==
  /\ ProfilesInv
  /\ TypeInv
  /\ ConnectionsInv
  /\ ToldInv
  /\ FactsInv
  /\ PendingInv

-----------------------------------------------------------------------------
(* Facts *)

\* What clients were told is around.
LEMMA ToldFacts == \A t \in told : FactOf(t) \in Facts
<1> DEFINE T == {FactOf(t) : t \in told}
<1>1. T \subseteq Facts
  BY DEF Facts
<1>2. \A t \in told : FactOf(t) \in T
  OBVIOUS
<1> HIDE DEF T
<1> QED
  BY <1>1, <1>2

\* Facts that are forgotten do no harm, nor do mailboxes that go.
LEMMA ConsistentShrinks ==
  ASSUME NEW F, NEW I, NEW s, NEW live, NEW sh, Consistent(F, I, s, live, sh),
         NEW F2 \in SUBSET F, NEW I2, NEW live2,
         \A f \in F2 : f.mailbox \in live2 => f.mailbox \in live,
         \A f \in I : f.mailbox \in live2 => f \in I2
  PROVE  Consistent(F2, I2, s, live2, sh)
BY DEF Consistent

LEMMA PendingShrinks ==
  ASSUME NEW P, NEW F, NEW I, NEW s, NEW live, NEW sh, Pending(P, F, I, s, live, sh),
         NEW F2 \in SUBSET F, NEW I2 \in SUBSET I, NEW live2,
         \A k \in Sync : \A p \in P[k] : p.mailbox \in live2
  PROVE  Pending(P, F2, I2, s, live2, sh)
BY DEF Pending

-----------------------------------------------------------------------------
(* Sequence numbers *)

\* The messages up to i, in the order of the folder.
UpTo(messages, i) ==
  {j \in messages : j.uid < i.uid \/ (j.uid = i.uid /\ j.id <= i.id)}

LEMMA SeqOfFacts ==
  ASSUME NEW messages \in SUBSET Item, IsFiniteSet(messages), NEW i \in messages
  PROVE  /\ SeqOf(messages, i) \in 1 .. Cardinality(messages)
         /\ Cardinality(messages) \in Nat
         /\ \A j \in messages : SeqOf(messages, i) = SeqOf(messages, j) => i.id = j.id
<1>1. \A j \in messages : j.uid \in Nat /\ j.id \in Nat
  BY DEF Item
<1>2. ASSUME NEW j \in messages
      PROVE  /\ UpTo(messages, j) \subseteq messages /\ IsFiniteSet(UpTo(messages, j))
             /\ SeqOf(messages, j) = Cardinality(UpTo(messages, j))
             /\ Cardinality(UpTo(messages, j)) \in Nat
             /\ Cardinality(UpTo(messages, j)) <= Cardinality(messages)
             /\ j \in UpTo(messages, j)
  <2>1. UpTo(messages, j) \in SUBSET messages
    BY DEF UpTo
  <2>2. IsFiniteSet(UpTo(messages, j)) /\ Cardinality(UpTo(messages, j)) <= Cardinality(messages)
    BY <2>1, FS_Subset
  <2>3. Cardinality(UpTo(messages, j)) \in Nat
    BY <2>2, FS_CardinalityType
  <2>4. SeqOf(messages, j) = Cardinality(UpTo(messages, j))
    BY DEF SeqOf, UpTo
  <2>5. j \in UpTo(messages, j)
    BY <1>1 DEF UpTo
  <2> QED
    BY <2>1, <2>2, <2>3, <2>4, <2>5
<1>3. Cardinality(messages) \in Nat
  BY FS_CardinalityType
<1>4. Cardinality(UpTo(messages, i)) # 0
  BY <1>2, FS_EmptySet
<1>5. ASSUME NEW j \in messages, NEW k \in messages,
             j.uid < k.uid \/ (j.uid = k.uid /\ j.id < k.id)
      PROVE  SeqOf(messages, j) # SeqOf(messages, k)
  <2>1. UpTo(messages, j) \in SUBSET UpTo(messages, k)
    BY <1>1, <1>5 DEF UpTo
  <2>2. k \notin UpTo(messages, j) /\ k \in UpTo(messages, k)
    BY <1>1, <1>5 DEF UpTo
  <2>3. Cardinality(UpTo(messages, j)) # Cardinality(UpTo(messages, k))
    BY <1>2, <2>1, <2>2, FS_Subset
  <2> QED
    BY <1>2, <2>3
<1>6. ASSUME NEW j \in messages, SeqOf(messages, i) = SeqOf(messages, j) PROVE i.id = j.id
  <2>1. /\ ~(i.uid < j.uid \/ (i.uid = j.uid /\ i.id < j.id))
        /\ ~(j.uid < i.uid \/ (j.uid = i.uid /\ j.id < i.id))
    BY <1>5, <1>6
  <2> QED
    BY <1>1, <2>1
<1> QED
  BY <1>2, <1>3, <1>4, <1>6

LEMMA LinesAreTold ==
  ASSUME NEW messages \in SUBSET Item, IsFiniteSet(messages)
  PROVE  LinesOf(messages) \subseteq Told
<1> SUFFICES ASSUME NEW i \in messages
             PROVE  [seq |-> SeqOf(messages, i), uid |-> i.uid, id |-> i.id] \in Told
  BY DEF LinesOf
<1>1. SeqOf(messages, i) \in Nat
  BY SeqOfFacts
<1> QED
  BY <1>1 DEF Told, Item

\* A connection without a selection, and its client.
LEMMA NothingSelected ==
  ASSUME NEW x \in Connection, x.messages = {}
  PROVE  ConnInv(x, NoView)
BY FS_EmptySet DEF ConnInv, NoView

LEMMA ClosedFacts == Closed \in Connection /\ Closed.messages = {}
BY DEF Closed, Connection

-----------------------------------------------------------------------------
(* The connections *)

(***************************************************************************)
(* A step of one connection: it becomes x and its client has the view v.   *)
(* Clients are told only of facts that are around.                         *)
(***************************************************************************)
LEMMA ConnStep ==
  ASSUME ImapInv, NEW c \in Conn, NEW x, NEW v,
         UNCHANGED <<profileVars, rowVars>>,
         conn' = [conn EXCEPT ![c] = x], view' = [view EXCEPT ![c] = v],
         ConnInv(x, v),
         {Fact(i) : i \in x.messages} \subseteq Facts,
         \A t \in told' \ told : /\ FactOf(t) \in Facts /\ t.folder \in Folder
                                 /\ t.validity = FolderUidValidity(t.mailbox, t.folder),
         answer'.got \subseteq Told
  PROVE  ImapInv'
<1>1. ProfilesInv' /\ profile' = profile /\ Known' = Known
  BY DEF ImapInv, profileVars, ProfilesInv, ProfilesTypeOK, CredentialsAsLastSet,
     TestResultStands, DeletedStaysDeleted, NumbersInv, RequestInv, Known
<1>2. TypeInv'
  BY DEF ImapInv, TypeInv, ConnInv, rowVars
<1>3. /\ conn'[c] = x /\ view'[c] = v
      /\ \A d \in Conn \ {c} : conn'[d] = conn[d] /\ view'[d] = view[d]
  BY DEF ImapInv, TypeInv
<1>4. ConnectionsInv'
  <2> SUFFICES ASSUME NEW d \in Conn PROVE ConnInv(conn'[d], view'[d])
    BY DEF ConnectionsInv, ConnInv, LinesOf, SeqOf
  <2> QED
    BY <1>3 DEF ImapInv, ConnectionsInv
<1>5. ToldInv'
  BY DEF ImapInv, ToldInv
<1>6. ItemFacts' = ItemFacts /\ serial' = serial /\ shared' = shared /\ pending' = pending
  BY DEF ItemFacts, rowVars
<1>7. Facts' \subseteq Facts
  <2>1. ASSUME NEW f \in Facts' PROVE f \in Facts
    <3>1. CASE f \in ItemFacts'
      BY <1>6, <3>1 DEF Facts
    <3>2. CASE \E d \in Conn : f \in {Fact(i) : i \in conn'[d].messages}
      BY <1>3, <3>2 DEF Facts, HeldBy
    <3>3. CASE \E t \in told' : f = FactOf(t)
      BY <3>3, ToldFacts
    <3> QED
      BY <2>1, <3>1, <3>2, <3>3 DEF Facts, HeldBy
  <2> QED
    BY <2>1
<1>8. FactsInv'
  <2>1. Consistent(Facts', ItemFacts', serial', DOMAIN profile', shared')
    BY <1>1, <1>6, <1>7, ConsistentShrinks DEF ImapInv, FactsInv
  <2> QED
    BY <1>1, <1>7, <2>1 DEF ImapInv, FactsInv
<1>9. PendingInv'
  <2>1. Pending(pending, Facts, ItemFacts, serial, DOMAIN profile, shared)
    BY DEF ImapInv, PendingInv
  <2>2. Pending(pending, Facts', ItemFacts, serial, DOMAIN profile, shared)
    BY <1>7, <2>1 DEF Pending
  <2> QED
    BY <1>1, <1>6, <2>2 DEF PendingInv
<1> QED
  BY <1>1, <1>2, <1>4, <1>5, <1>8, <1>9 DEF ImapInv

\* The facts a connection holds are around.
LEMMA HeldFacts ==
  ASSUME NEW c \in Conn PROVE {Fact(i) : i \in conn[c].messages} \subseteq Facts
BY DEF Facts, HeldBy

\* A connection that has nothing selected after the step.
LEMMA BecomeInv ==
  ASSUME ImapInv, NEW c \in Conn, NEW x \in Connection, Become(c, x), Quiet,
         x.messages = {}, view' = [view EXCEPT ![c] = NoView], told' = told
  PROVE  ImapInv'
<1>1. ConnInv(x, NoView)
  BY NothingSelected
<1>2. answer'.got \subseteq Told
  BY DEF Quiet, NoAnswer
<1> QED
  BY <1>1, <1>2, ConnStep DEF Become

\* Where nothing is selected the client has no view.
LEMMA NoSelection ==
  ASSUME ImapInv, NEW c \in Conn, conn[c].state # "SELECTED"
  PROVE  conn[c].messages = {} /\ view = [view EXCEPT ![c] = NoView]
<1>1. ConnInv(conn[c], view[c])
  BY DEF ImapInv, ConnectionsInv
<1>2. conn[c].messages = {} /\ LinesOf(conn[c].messages) = {} /\ Cardinality({}) = 0
  BY <1>1, FS_EmptySet DEF ConnInv, LinesOf
<1>3. view[c] = NoView
  BY <1>1, <1>2 DEF ConnInv, NoView
<1> QED
  BY <1>2, <1>3 DEF ImapInv, TypeInv

LEMMA ConnectInv ==
  ASSUME ImapInv, NEW c \in Conn, Connect(c) PROVE ImapInv'
<1> DEFINE x == [Closed EXCEPT !.state = "NOT_AUTH"]
<1>1. x \in Connection /\ x.messages = {}
  BY DEF Closed, Connection
<1>2. view' = [view EXCEPT ![c] = NoView]
  BY NoSelection DEF Connect
<1>3. Become(c, x) /\ Quiet /\ told' = told
  BY DEF Connect
<1> HIDE DEF x
<1> QED
  BY <1>1, <1>2, <1>3, BecomeInv

LEMMA CloseInv ==
  ASSUME ImapInv, NEW c \in Conn, Close(c) PROVE ImapInv'
BY ClosedFacts, BecomeInv DEF Close

LEMMA LoginInv ==
  ASSUME ImapInv, NEW c \in Conn, Login(c) PROVE ImapInv'
<1>1. PICK m \in DOMAIN profile : Become(c, [conn[c] EXCEPT !.session = m, !.state = "AUTH"])
  BY DEF Login
<1> DEFINE x == [conn[c] EXCEPT !.session = m, !.state = "AUTH"]
<1>2. conn[c] \in Connection /\ m \in Mailbox
  BY DEF ImapInv, TypeInv, ProfilesInv, ProfilesTypeOK
<1>3. conn[c].messages = {} /\ view' = [view EXCEPT ![c] = NoView]
  BY NoSelection DEF Login
<1>4. x \in Connection /\ x.messages = {}
  BY <1>2, <1>3 DEF Connection
<1>5. Become(c, x) /\ Quiet /\ told' = told
  BY <1>1 DEF Login
<1> HIDE DEF x
<1> QED
  BY <1>3, <1>4, <1>5, BecomeInv

LEMMA CloseFolderInv ==
  ASSUME ImapInv, NEW c \in Conn, CloseFolder(c) PROVE ImapInv'
<1> DEFINE x == [conn[c] EXCEPT !.state = "AUTH", !.folder = "none", !.messages = {}]
<1>1. conn[c] \in Connection
  BY DEF ImapInv, TypeInv
<1>2. x \in Connection /\ x.messages = {}
  BY <1>1 DEF Connection
<1>3. Become(c, x) /\ Quiet /\ told' = told /\ view' = [view EXCEPT ![c] = NoView]
  BY DEF CloseFolder
<1> HIDE DEF x
<1> QED
  BY <1>2, <1>3, BecomeInv

\* What a folder holds.
LEMMA Selection ==
  ASSUME ImapInv, NEW m, NEW f \in Folder
  PROVE  /\ SelectMailbox(m, f) \subseteq items
         /\ IsFiniteSet(SelectMailbox(m, f)) /\ Cardinality(SelectMailbox(m, f)) \in Nat
         /\ \A i \in SelectMailbox(m, f) : i.mailbox = m /\ FolderOf(i.vis) = f
<1>1. SelectMailbox(m, f) \in SUBSET items
  BY DEF SelectMailbox, LoadItems
<1>2. IsFiniteSet(SelectMailbox(m, f))
  BY <1>1, FS_Subset DEF ImapInv, TypeInv
<1>3. \A i \in SelectMailbox(m, f) : i.mailbox = m /\ FolderOf(i.vis) = f
  BY DEF SelectMailbox, LoadItems, Visibilities, FolderOf, Folder
<1> QED
  BY <1>1, <1>2, <1>3, FS_CardinalityType

LEMMA SelectInv ==
  ASSUME ImapInv, NEW c \in Conn, NEW f \in Folder, Select(c, f) PROVE ImapInv'
<1> DEFINE messages == SelectMailbox(conn[c].session, f)
           x == [conn[c] EXCEPT !.state = "SELECTED", !.folder = f, !.messages = messages]
           v == [exists |-> Cardinality(messages), seen |-> {}]
<1>1. /\ messages \subseteq items /\ IsFiniteSet(messages) /\ Cardinality(messages) \in Nat
      /\ \A i \in messages : i.mailbox = conn[c].session /\ FolderOf(i.vis) = f
  BY Selection
<1>2. /\ Become(c, x) /\ view' = [view EXCEPT ![c] = v] /\ answer' = NoAnswer /\ told' = told
  BY DEF Select, Quiet
<1>3. conn[c] \in Connection /\ messages \in SUBSET Item
  BY <1>1 DEF ImapInv, TypeInv
<1> HIDE DEF messages
<1>4. /\ x \in Connection /\ x.state = "SELECTED" /\ x.messages = messages
      /\ x.session = conn[c].session /\ x.folder = f
  BY <1>3 DEF Connection
<1>5. v \in [exists : Nat, seen : SUBSET Told] /\ v.exists = Cardinality(messages) /\ v.seen = {}
  BY <1>1
<1> HIDE DEF x, v
<1>6. ConnInv(x, v)
  BY <1>1, <1>4, <1>5 DEF ConnInv
<1>7. {Fact(i) : i \in x.messages} \subseteq Facts
  BY <1>1, <1>4 DEF Facts, ItemFacts
<1>8. answer'.got \subseteq Told
  BY <1>2 DEF NoAnswer
<1> QED
  BY <1>2, <1>6, <1>7, <1>8, ConnStep DEF Become

LEMMA StatusInv ==
  ASSUME ImapInv, NEW c \in Conn, NEW f \in Folder, Status(c, f) PROVE ImapInv'
<1>1. /\ conn' = [conn EXCEPT ![c] = conn[c]] /\ view' = [view EXCEPT ![c] = view[c]]
      /\ UNCHANGED <<profileVars, rowVars>> /\ told' = told
  BY DEF Status, clientVars, ImapInv, TypeInv
<1>2. ConnInv(conn[c], view[c])
  BY DEF ImapInv, ConnectionsInv
<1>3. answer'.got \subseteq Told
  BY DEF Status, NoAnswer
<1> QED
  BY <1>1, <1>2, <1>3, HeldFacts, ConnStep

(***************************************************************************)
(* An answer about some messages of the selection.                         *)
(***************************************************************************)
LEMMA RememberInv ==
  ASSUME ImapInv, NEW c \in Conn, NEW S \in SUBSET conn[c].messages,
         conn[c].state = "SELECTED", Remember(c, Lines(c, S)),
         answer'.got = Lines(c, S),
         UNCHANGED <<profileVars, rowVars, conn>>
  PROVE  ImapInv'
<1> DEFINE v == [view[c] EXCEPT !.seen = @ \cup Lines(c, S)]
<1>1. ConnInv(conn[c], view[c])
  BY DEF ImapInv, ConnectionsInv
<1>2. Lines(c, S) \subseteq LinesOf(conn[c].messages)
  BY DEF Lines, LinesOf
<1>3. LinesOf(conn[c].messages) \subseteq Told
  <2>1. conn[c].messages \in SUBSET Item /\ IsFiniteSet(conn[c].messages)
    BY <1>1 DEF ConnInv, Connection
  <2> QED
    BY <2>1, LinesAreTold
<1>4. /\ v \in [exists : Nat, seen : SUBSET Told] /\ v.exists = view[c].exists
      /\ v.seen = view[c].seen \cup Lines(c, S)
  BY <1>1, <1>2, <1>3 DEF ConnInv
<1>5. view' = [view EXCEPT ![c] = v] /\ conn' = [conn EXCEPT ![c] = conn[c]]
  BY DEF Remember, ImapInv, TypeInv
<1> HIDE DEF v
<1>6. ConnInv(conn[c], v)
  BY <1>1, <1>2, <1>4 DEF ConnInv
<1>7. ASSUME NEW t \in told' \ told
      PROVE  /\ FactOf(t) \in Facts /\ t.folder \in Folder
             /\ t.validity = FolderUidValidity(t.mailbox, t.folder)
  <2>1. PICK i \in S :
          t = [mailbox |-> conn[c].session, folder |-> conn[c].folder, uid |-> i.uid, id |-> i.id,
               validity |-> FolderUidValidity(conn[c].session, conn[c].folder)]
    BY <1>7 DEF Remember, Lines
  <2>2. i.mailbox = conn[c].session /\ FolderOf(i.vis) = conn[c].folder /\ conn[c].folder \in Folder
    BY <1>1 DEF ConnInv
  <2>3. FactOf(t) = Fact(i)
    BY <2>1, <2>2 DEF FactOf, Fact
  <2> QED
    BY <2>1, <2>2, <2>3, HeldFacts
<1>8. answer'.got \subseteq Told
  BY <1>2, <1>3
<1> QED
  BY <1>5, <1>6, <1>7, <1>8, HeldFacts, ConnStep

LEMMA SearchInv ==
  ASSUME ImapInv, NEW c \in Conn, NEW criteria, Search(c, criteria) \/ UidSearch(c, criteria)
  PROVE  ImapInv'
<1>1. ASSUME NEW kind, NEW S \in SUBSET conn[c].messages, SearchBy(c, kind, criteria, S)
      PROVE  ImapInv'
  <2>1. /\ conn[c].state = "SELECTED" /\ Remember(c, Lines(c, S))
        /\ answer'.got = Lines(c, S) /\ UNCHANGED <<profileVars, rowVars, conn>>
    BY <1>1 DEF SearchBy, NoAnswer
  <2> QED
    BY <2>1, RememberInv
<1>2. /\ ApplySearch(criteria, conn[c].messages) \in SUBSET conn[c].messages
      /\ FirstByUid(ApplySearch(criteria, conn[c].messages), conn[c].messages)
           \in SUBSET conn[c].messages
  BY DEF ApplySearch, FirstByUid
<1> QED
  BY <1>1, <1>2 DEF Search, UidSearch

LEMMA FetchInv ==
  ASSUME ImapInv, NEW c \in Conn, NEW parts, NEW want,
         Fetch(c, parts, want) \/ UidFetch(c, parts, want)
  PROVE  ImapInv'
<1>1. CASE Fetch(c, parts, want)
  <2> DEFINE numbers == ParseSet(parts, {SeqOf(conn[c].messages, i) : i \in conn[c].messages})
             S == {i \in conn[c].messages : SeqOf(conn[c].messages, i) \in numbers}
  <2>1. /\ conn[c].state = "SELECTED" /\ Remember(c, Lines(c, S))
        /\ answer'.got = Lines(c, S) /\ UNCHANGED <<profileVars, rowVars, conn>>
    BY <1>1 DEF Fetch, FetchBy
  <2>2. S \subseteq conn[c].messages
    OBVIOUS
  <2> HIDE DEF S
  <2> QED
    BY <2>1, <2>2, RememberInv
<1>2. CASE UidFetch(c, parts, want)
  <2> DEFINE numbers == ParseSet(parts, {i.uid : i \in conn[c].messages})
             S == {i \in conn[c].messages : i.uid \in numbers}
  <2>1. /\ conn[c].state = "SELECTED" /\ Remember(c, Lines(c, S))
        /\ answer'.got = Lines(c, S) /\ UNCHANGED <<profileVars, rowVars, conn>>
    BY <1>2 DEF UidFetch, FetchBy
  <2>2. S \subseteq conn[c].messages
    OBVIOUS
  <2> HIDE DEF S
  <2> QED
    BY <2>1, <2>2, RememberInv
<1> QED
  BY <1>1, <1>2

-----------------------------------------------------------------------------
(* The rows *)

LEMMA SyncedIsVisibility == SyncedVisibility \subseteq Visibility
BY DEF SyncedVisibility, Visibility, VerdictToVisibility

\* UIDNEXT is above the UIDs of some rows, and just above their bound.
LEMMA UidNextFacts ==
  ASSUME NEW S \in SUBSET Item, NEW n \in Nat, \A i \in S : i.uid <= n
  PROVE  /\ UidNext(S) \in Nat /\ UidNext(S) <= n + 1
         /\ \A i \in S : i.uid < UidNext(S)
<1> DEFINE U == {0} \cup {i.uid : i \in S}
<1>1. \A i \in S : i.uid \in U /\ i.uid \in Nat
  BY DEF Item
<1>2. U \in SUBSET Nat /\ U # {} /\ \A x \in U : x <= n
  BY DEF Item
<1>3. UidNext(S) = Max(U) + 1
  BY DEF UidNext
<1> HIDE DEF U
<1>4. Max(U) \in U /\ \A y \in U : y <= Max(U)
  BY <1>2, MaxFacts
<1>5. Max(U) \in Nat /\ Max(U) <= n /\ \A i \in S : i.uid <= Max(U)
  BY <1>1, <1>2, <1>4
<1> QED
  BY <1>1, <1>3, <1>5

\* The rows a sync sees, and the UID it gives the next message.
LEMMA NextUid ==
  ASSUME ImapInv, NEW k \in Sync, NEW m
  PROVE  /\ NextMindwallUid(k, m) \in Nat /\ NextMindwallUid(k, m) <= serial + 1
         /\ \A i \in items \cup pending[k] : i.mailbox = m => i.uid < NextMindwallUid(k, m)
<1> DEFINE S == {i \in items \cup pending[k] : i.mailbox = m}
<1>1. S \in SUBSET Item /\ serial \in Nat
  BY IPConstants DEF ImapInv, TypeInv
<1>2. \A i \in S : i.uid <= serial
  <2>1. \A i \in items : Fact(i) \in Facts /\ Fact(i).uid = i.uid
    BY DEF Facts, ItemFacts, Fact
  <2>2. \A i \in items : i.uid <= serial
    BY <2>1 DEF ImapInv, FactsInv, Consistent
  <2>3. \A i \in pending[k] : i.uid <= serial
    BY DEF ImapInv, PendingInv, Pending
  <2> QED
    BY <2>2, <2>3
<1>3. NextMindwallUid(k, m) = UidNext(S)
  BY DEF NextMindwallUid
<1> HIDE DEF S
<1>4. /\ UidNext(S) \in Nat /\ UidNext(S) <= serial + 1
      /\ \A i \in S : i.uid < UidNext(S)
  BY <1>1, <1>2, UidNextFacts
<1> QED
  BY <1>3, <1>4 DEF S

LEMMA ClientsStay ==
  ASSUME ImapInv, conn' = conn, view' = view, told' = told
  PROVE  ConnectionsInv' /\ ToldInv'
BY DEF ImapInv, ConnectionsInv, ConnInv, LinesOf, SeqOf, ToldInv

\* A step of a sync leaves the profiles, the connections and the clients.
LEMMA SyncLeaves ==
  ASSUME ImapInv, UNCHANGED <<profileVars, clientVars>>
  PROVE  /\ ProfilesInv' /\ profile' = profile /\ Known' = Known
         /\ ConnectionsInv' /\ ToldInv'
         /\ conn' = conn /\ view' = view /\ told' = told
<1>1. ProfilesInv' /\ profile' = profile /\ Known' = Known
  BY DEF ImapInv, profileVars, ProfilesInv, ProfilesTypeOK, CredentialsAsLastSet,
     TestResultStands, DeletedStaysDeleted, NumbersInv, RequestInv, Known
<1>2. conn' = conn /\ view' = view /\ told' = told
  BY DEF clientVars
<1>3. ConnectionsInv' /\ ToldInv'
  BY <1>2, ClientsStay
<1> QED
  BY <1>1, <1>2, <1>3

LEMMA StoreInv ==
  ASSUME ImapInv, NEW k \in Sync, NEW m \in Mailbox, NEW vis \in SyncedVisibility,
         StoreItem(k, m, vis)
  PROVE  ImapInv'
<1> DEFINE n == [id |-> serial + 1, mailbox |-> m, uid |-> NextMindwallUid(k, m), vis |-> vis]
           both == IF Beside(k, m) = {} THEN {} ELSE {n} \cup Beside(k, m)
<1>1. /\ m \in DOMAIN profile /\ \A i \in pending[k] : i.mailbox = m
      /\ serial' = serial + 1 /\ items' = items
      /\ pending' = [pending EXCEPT ![k] = @ \cup {n}]
      /\ shared' = shared \cup {i.id : i \in both}
      /\ UNCHANGED <<profileVars, clientVars>> /\ answer' = NoAnswer
      /\ serial \in Nat /\ serial' \in 0 .. MaxItems
  BY IPConstants DEF StoreItem, Quiet, ImapInv, TypeInv
<1>2. /\ NextMindwallUid(k, m) \in Nat /\ NextMindwallUid(k, m) <= serial + 1
      /\ \A i \in items \cup pending[k] : i.mailbox = m => i.uid < NextMindwallUid(k, m)
  BY NextUid
<1>3. n \in Item
  BY <1>1, <1>2, SyncedIsVisibility DEF Item
<1>4. n.id = serial + 1 /\ n.mailbox = m /\ n.uid = NextMindwallUid(k, m)
  OBVIOUS
<1> HIDE DEF n
<1>5. /\ ProfilesInv' /\ profile' = profile /\ Known' = Known /\ ConnectionsInv' /\ ToldInv'
      /\ conn' = conn /\ told' = told /\ view' = view
  BY <1>1, SyncLeaves
<1>6. /\ pending'[k] = pending[k] \cup {n} /\ pending' \in [Sync -> SUBSET Item]
      /\ \A l \in Sync \ {k} : pending'[l] = pending[l]
  BY <1>1, <1>3 DEF ImapInv, TypeInv
<1>7. Facts' = Facts /\ ItemFacts' = ItemFacts
  BY <1>1, <1>5 DEF Facts, ItemFacts, HeldBy
<1>8. Pending(pending, Facts, ItemFacts, serial, DOMAIN profile, shared)
  BY DEF ImapInv, PendingInv
<1>9. \A l \in Sync : \A p \in pending[l] : p.id \in 1 .. serial
  BY <1>1, <1>8 DEF ImapInv, TypeInv, Pending
<1>10. shared \subseteq shared'
  BY <1>1
<1>11. ASSUME NEW l \in Sync \ {k}, NEW q \in pending[l], q.mailbox = m
       PROVE  {n.id, q.id} \subseteq shared'
  <2>1. q \in Beside(k, m)
    BY <1>11 DEF Beside
  <2>2. n \in both /\ q \in both
    BY <2>1
  <2> HIDE DEF both
  <2> QED
    BY <1>1, <2>2
<1>12. TypeInv'
  <2>1. \A i \in both : i.id \in 1 .. serial + 1
    BY <1>1, <1>4, <1>9 DEF Beside
  <2> HIDE DEF both
  <2>2. shared' \subseteq 1 .. serial'
    <3>1. shared \subseteq 1 .. serial
      BY DEF ImapInv, TypeInv
    <3>2. {i.id : i \in both} \subseteq 1 .. serial + 1
      BY <2>1
    <3>3. 1 .. serial \subseteq 1 .. serial + 1
      BY <1>1
    <3> QED
      BY <1>1, <3>1, <3>2, <3>3
  <2>3. \A l \in Sync : IsFiniteSet(pending'[l])
    BY <1>6, FS_AddElement DEF ImapInv, TypeInv
  <2> QED
    BY <1>1, <1>5, <1>6, <2>2, <2>3 DEF ImapInv, TypeInv, NoAnswer
<1> HIDE DEF both
<1>13. /\ \A f \in Facts : f.id \in Nat /\ f.id <= serial
       /\ \A f \in ItemFacts : f.mailbox = m => f.uid < n.uid
  <2>1. \A f \in Facts : f.id \in Nat /\ f.id <= serial
    BY DEF ImapInv, FactsInv, Consistent
  <2>2. \A i \in items : i.mailbox = m => i.uid < n.uid
    BY <1>2, <1>4
  <2> QED
    BY <2>1, <2>2 DEF ItemFacts, Fact
<1>14. \A p \in pending[k] : p.mailbox = m /\ p.uid # n.uid /\ p.id # n.id
  <2>1. \A p \in pending[k] : p.uid < n.uid /\ p.uid \in Nat /\ n.uid \in Nat
    BY <1>1, <1>2, <1>4, <1>8 DEF Pending
  <2> QED
    BY <1>1, <1>4, <1>9, <2>1
<1>15. Pending(pending', Facts, ItemFacts, serial + 1, DOMAIN profile, shared')
  <2>1. ASSUME NEW l \in Sync, NEW p \in pending'[l]
        PROVE  /\ p.id \in 1 .. serial + 1 /\ p.uid \in Nat /\ p.uid <= serial + 1
               /\ p.mailbox \in DOMAIN profile
               /\ \A f \in Facts : p.id # f.id
               /\ \A f \in ItemFacts :
                    f.mailbox = p.mailbox => f.uid < p.uid \/ {f.id, p.id} \subseteq shared'
    <3>1. CASE p \in pending[l]
      BY <1>1, <1>8, <1>10, <3>1 DEF Pending
    <3>2. CASE p = n
      BY <1>1, <1>2, <1>4, <1>13, <3>2
    <3> QED
      BY <1>6, <3>1, <3>2
  <2>2. ASSUME NEW l \in Sync, NEW p \in pending'[l], NEW q \in pending'[l]
        PROVE  p.mailbox = q.mailbox /\ (p.id = q.id \/ p.uid = q.uid => p = q)
    <3>1. CASE p \in pending[l] /\ q \in pending[l]
      BY <1>8, <3>1 DEF Pending
    <3>2. CASE l = k /\ p = n /\ q \in pending[k]
      BY <1>4, <1>14, <3>2
    <3>3. CASE l = k /\ q = n /\ p \in pending[k]
      BY <1>4, <1>14, <3>3
    <3>4. CASE p = n /\ q = n
      BY <3>4
    <3> QED
      BY <1>6, <3>1, <3>2, <3>3, <3>4
  <2>3. ASSUME NEW l \in Sync, NEW j \in Sync \ {l}, NEW p \in pending'[l], NEW q \in pending'[j]
        PROVE  p.id # q.id /\ (p.mailbox = q.mailbox => {p.id, q.id} \subseteq shared')
    <3>1. CASE p \in pending[l] /\ q \in pending[j]
      BY <1>8, <1>10, <3>1 DEF Pending
    <3>2. CASE l = k /\ p = n /\ q \in pending[j]
      BY <1>1, <1>4, <1>9, <1>11, <3>2
    <3>3. CASE j = k /\ q = n /\ p \in pending[l]
      BY <1>1, <1>4, <1>9, <1>11, <3>3
    <3> QED
      BY <1>6, <3>1, <3>2, <3>3
  <2> QED
    BY <2>1, <2>2, <2>3 DEF Pending
<1>16. PendingInv'
  BY <1>1, <1>5, <1>7, <1>15 DEF PendingInv
<1>17. FactsInv'
  <2>1. Consistent(Facts, ItemFacts, serial, DOMAIN profile, shared)
    BY DEF ImapInv, FactsInv
  <2>2. Consistent(Facts, ItemFacts, serial + 1, DOMAIN profile, shared')
    BY <1>1, <1>10, <2>1 DEF Consistent
  <2> QED
    BY <1>1, <1>5, <1>7, <2>2 DEF ImapInv, FactsInv
<1> QED
  BY <1>5, <1>12, <1>16, <1>17 DEF ImapInv

\* New facts G, each with an id of its own, and with a UID that is above
\* those of the rows or shared, contradict none.
LEMMA ConsistentGrows ==
  ASSUME NEW F, NEW I, NEW s \in Nat, NEW live, NEW sh, Consistent(F, I, s, live, sh), NEW G,
         \A g \in G : /\ g.id \in Nat /\ g.id <= s /\ g.uid \in Nat /\ g.uid <= s
                     /\ g.mailbox \in live,
         \A g \in G, f \in F : f.id # g.id,
         \A g \in G, f \in I :
           f.mailbox = g.mailbox => f.uid < g.uid \/ {f.id, g.id} \subseteq sh,
         \A g, h \in G : g.id = h.id \/ g.uid = h.uid => g = h
  PROVE  Consistent(F \cup G, I \cup G, s, live, sh)
<1> DEFINE E == F \cup G
           J == I \cup G
<1>1. /\ \A f \in F : f.id \in Nat /\ f.id <= s /\ f.uid \in Nat /\ f.uid <= s
      /\ \A f \in F : f.mailbox \in live => f \in I
      /\ \A f, g \in F : f.id = g.id => f = g
      /\ \A f, g \in F :
           f.mailbox = g.mailbox /\ f.uid = g.uid => f = g \/ {f.id, g.id} \subseteq sh
  BY DEF Consistent
<1>2. ASSUME NEW f \in F, NEW g \in G, f.mailbox = g.mailbox, f.uid = g.uid
      PROVE  {f.id, g.id} \subseteq sh
  <2>1. f \in I
    BY <1>1, <1>2
  <2>2. f.uid < g.uid \/ {f.id, g.id} \subseteq sh
    BY <1>2, <2>1
  <2> QED
    BY <1>1, <1>2, <2>2
<1>3. \A f \in E : f.id \in Nat /\ f.id <= s /\ f.uid \in Nat /\ f.uid <= s
  BY <1>1
<1>4. \A f \in E : f.mailbox \in live => f \in J
  BY <1>1
<1>5. \A f, g \in E : f.id = g.id => f = g
  BY <1>1
<1>6. \A f, g \in E :
        f.mailbox = g.mailbox /\ f.uid = g.uid => f = g \/ {f.id, g.id} \subseteq sh
  <2> SUFFICES ASSUME NEW f \in E, NEW g \in E, f.mailbox = g.mailbox, f.uid = g.uid, f # g
               PROVE  {f.id, g.id} \subseteq sh
    OBVIOUS
  <2>1. CASE f \in F /\ g \in F
    BY <1>1, <2>1
  <2>2. CASE f \in F /\ g \in G
    BY <1>2, <2>2
  <2>3. CASE f \in G /\ g \in F
    BY <1>2, <2>3
  <2>4. CASE f \in G /\ g \in G
    BY <2>4
  <2> QED
    BY <2>1, <2>2, <2>3, <2>4
<1> HIDE DEF E, J
<1>7. Consistent(E, J, s, live, sh)
  BY <1>3, <1>4, <1>5, <1>6 DEF Consistent
<1> QED
  BY <1>7 DEF E, J

\* The rows of one sync become committed: facts without a contradiction, and
\* what the other syncs have pending beside them is shared.
LEMMA CommitItemsInv ==
  ASSUME ImapInv, NEW k \in Sync, CommitItems(k) PROVE ImapInv'
<1> DEFINE G == {Fact(p) : p \in pending[k]}
<1>1. /\ items' = items \cup pending[k] /\ pending' = [pending EXCEPT ![k] = {}]
      /\ UNCHANGED <<profileVars, serial, shared, clientVars>> /\ answer' = NoAnswer
  BY DEF CommitItems, Quiet
<1>2. /\ ProfilesInv' /\ profile' = profile /\ Known' = Known /\ ConnectionsInv' /\ ToldInv'
      /\ conn' = conn /\ told' = told /\ view' = view
  BY <1>1, SyncLeaves
<1>3. /\ pending'[k] = {} /\ pending' \in [Sync -> SUBSET Item]
      /\ \A l \in Sync \ {k} : pending'[l] = pending[l]
      /\ pending[k] \subseteq Item /\ IsFiniteSet(pending[k])
  BY <1>1 DEF ImapInv, TypeInv
<1>4. TypeInv'
  <2>1. IsFiniteSet(items')
    BY <1>1, <1>3, FS_Union DEF ImapInv, TypeInv
  <2>2. \A l \in Sync : IsFiniteSet(pending'[l])
    BY <1>3, FS_EmptySet DEF ImapInv, TypeInv
  <2> QED
    BY <1>1, <1>2, <1>3, <2>1, <2>2 DEF ImapInv, TypeInv, NoAnswer
<1>5. ItemFacts' = ItemFacts \cup G
  BY <1>1 DEF ItemFacts
<1>6. Facts' = Facts \cup G
  BY <1>1, <1>2, <1>5 DEF Facts, HeldBy
<1>7. /\ Pending(pending, Facts, ItemFacts, serial, DOMAIN profile, shared)
      /\ Consistent(Facts, ItemFacts, serial, DOMAIN profile, shared)
      /\ serial \in Nat
  BY IPConstants DEF ImapInv, PendingInv, FactsInv, TypeInv
<1>8. \A g \in G : \E p \in pending[k] :
        g = Fact(p) /\ g.id = p.id /\ g.uid = p.uid /\ g.mailbox = p.mailbox
  BY DEF Fact
<1> HIDE DEF G
<1>9. \A g, h \in G : g.id = h.id \/ g.uid = h.uid => g = h
  <2>1. \A p, q \in pending[k] : p.id = q.id \/ p.uid = q.uid => p = q
    BY <1>7 DEF Pending
  <2> QED
    BY <1>8, <2>1
<1>10. Consistent(Facts \cup G, ItemFacts \cup G, serial, DOMAIN profile, shared)
  <2>1. ASSUME NEW g \in G
        PROVE  /\ g.id \in Nat /\ g.id <= serial /\ g.uid \in Nat /\ g.uid <= serial
               /\ g.mailbox \in DOMAIN profile
               /\ \A f \in Facts : f.id # g.id
               /\ \A f \in ItemFacts :
                    f.mailbox = g.mailbox => f.uid < g.uid \/ {f.id, g.id} \subseteq shared
    <3>1. PICK p \in pending[k] : g.id = p.id /\ g.uid = p.uid /\ g.mailbox = p.mailbox
      BY <1>8
    <3> QED
      BY <1>7, <3>1 DEF Pending
  <2> QED
    BY <1>7, <1>9, <2>1, ConsistentGrows
<1>11. FactsInv'
  <2>1. \A g \in G : g.mailbox \in Known
    BY <1>7, <1>8 DEF Pending, Known
  <2> QED
    BY <1>1, <1>2, <1>5, <1>6, <1>10, <2>1 DEF ImapInv, FactsInv
<1>12. Pending(pending', Facts \cup G, ItemFacts \cup G, serial, DOMAIN profile, shared)
  <2>1. ASSUME NEW l \in Sync, NEW p \in pending'[l], NEW g \in G
        PROVE  /\ p.id # g.id
               /\ g.mailbox = p.mailbox => {g.id, p.id} \subseteq shared
    <3>1. l \in Sync \ {k} /\ p \in pending[l]
      BY <1>3, <2>1
    <3>2. PICK q \in pending[k] : g.id = q.id /\ g.mailbox = q.mailbox
      BY <1>8
    <3> QED
      BY <1>7, <3>1, <3>2 DEF Pending
  <2>2. \A l \in Sync : pending'[l] \subseteq pending[l]
    BY <1>3
  <2>3. Pending(pending', Facts, ItemFacts, serial, DOMAIN profile, shared)
    BY <1>7, <2>2 DEF Pending
  <2> QED
    BY <2>1, <2>3 DEF Pending
<1>13. PendingInv'
  BY <1>1, <1>2, <1>5, <1>6, <1>12 DEF PendingInv
<1> QED
  BY <1>2, <1>4, <1>11, <1>13 DEF ImapInv

LEMMA RollBackInv ==
  ASSUME ImapInv, NEW k \in Sync, RollBack(k) PROVE ImapInv'
<1>1. /\ pending' = [pending EXCEPT ![k] = {}]
      /\ UNCHANGED <<profileVars, items, serial, shared, clientVars>> /\ answer' = NoAnswer
  BY DEF RollBack, Quiet
<1>2. /\ ProfilesInv' /\ profile' = profile /\ Known' = Known /\ ConnectionsInv' /\ ToldInv'
      /\ conn' = conn /\ told' = told /\ view' = view
  BY <1>1, SyncLeaves
<1>3. /\ pending' \in [Sync -> SUBSET Item]
      /\ \A l \in Sync : pending'[l] \in {pending[l], {}}
  BY <1>1 DEF ImapInv, TypeInv
<1>4. TypeInv'
  BY <1>1, <1>2, <1>3, FS_EmptySet DEF ImapInv, TypeInv, NoAnswer
<1>5. Facts' = Facts /\ ItemFacts' = ItemFacts
  BY <1>1, <1>2 DEF Facts, ItemFacts, HeldBy
<1>6. FactsInv'
  BY <1>1, <1>2, <1>5 DEF ImapInv, FactsInv
<1>7. Pending(pending', Facts, ItemFacts, serial, DOMAIN profile, shared)
  <2>1. \A l \in Sync : pending'[l] \subseteq pending[l]
    BY <1>3
  <2> QED
    BY <2>1 DEF ImapInv, PendingInv, Pending
<1>8. PendingInv'
  BY <1>1, <1>2, <1>5, <1>7 DEF PendingInv
<1> QED
  BY <1>2, <1>4, <1>6, <1>8 DEF ImapInv

LEMMA AdministerInv ==
  ASSUME ImapInv, Administer PROVE ImapInv'
<1>1. /\ ProfilesNext /\ items' = {i \in items : i.mailbox \in DOMAIN profile'}
      /\ \A k \in Sync : \A i \in pending[k] : i.mailbox \in DOMAIN profile'
      /\ UNCHANGED <<pending, serial, shared>> /\ answer' = NoAnswer
      /\ conn' = conn /\ view' = view /\ told' = told
  BY DEF Administer, Quiet, clientVars
<1>2. ProfilesInv'
  BY <1>1, ProfilesStepInv DEF ImapInv
<1>3. TypeInv'
  <2>1. items' \in SUBSET items
    BY <1>1
  <2>2. IsFiniteSet(items')
    BY <2>1, FS_Subset DEF ImapInv, TypeInv
  <2> QED
    BY <1>1, <2>1, <2>2 DEF ImapInv, TypeInv, NoAnswer
<1>4. ConnectionsInv' /\ ToldInv'
  BY <1>1, ClientsStay
<1>5. /\ \A f \in ItemFacts : f.mailbox \in DOMAIN profile' => f \in ItemFacts'
      /\ Facts' \subseteq Facts /\ ItemFacts' \subseteq ItemFacts
  BY <1>1 DEF Facts, HeldBy, ItemFacts, Fact
<1>6. /\ Known \subseteq Known' /\ \A f \in Facts : f.mailbox \in Known
  BY <1>1, KnownGrows DEF ImapInv, FactsInv
<1>7. \A f \in Facts : f.mailbox \in DOMAIN profile' => f.mailbox \in DOMAIN profile
  BY <1>1, <1>2, <1>6, KnownGrows DEF Known, ProfilesInv, DeletedStaysDeleted
<1>8. Consistent(Facts', ItemFacts', serial', DOMAIN profile', shared')
  BY <1>1, <1>5, <1>7, ConsistentShrinks DEF ImapInv, FactsInv
<1>9. FactsInv'
  BY <1>5, <1>6, <1>8 DEF FactsInv
<1>10. PendingInv'
  <2>1. Pending(pending, Facts', ItemFacts', serial, DOMAIN profile', shared)
    BY <1>1, <1>5, PendingShrinks DEF ImapInv, PendingInv
  <2> QED
    BY <1>1, <2>1 DEF PendingInv
<1> QED
  BY <1>2, <1>3, <1>4, <1>9, <1>10 DEF ImapInv

-----------------------------------------------------------------------------
LEMMA ImapInitInv == Init => ImapInv
<1> SUFFICES ASSUME Init PROVE ImapInv
  OBVIOUS
<1>1. ProfilesInv
  BY ProfilesInitInv DEF Init
<1>2. NoView \in [exists : Nat, seen : SUBSET Told]
  BY DEF NoView
<1>3. TypeInv
  BY <1>2, ClosedFacts, FS_EmptySet, IPConstants DEF Init, TypeInv, NoAnswer
<1>4. ConnectionsInv
  BY ClosedFacts, NothingSelected DEF Init, ConnectionsInv
<1>5. Facts = {}
  BY ClosedFacts DEF Init, Facts, HeldBy, ItemFacts
<1>6. ToldInv /\ FactsInv
  BY <1>5 DEF Init, ToldInv, FactsInv, Consistent
<1>7. PendingInv
  BY DEF Init, PendingInv, Pending
<1> QED
  BY <1>1, <1>3, <1>4, <1>6, <1>7 DEF ImapInv

LEMMA ImapStepInv == ImapInv /\ [Next]_vars => ImapInv'
<1> SUFFICES ASSUME ImapInv, [Next]_vars PROVE ImapInv'
  OBVIOUS
<1>1. CASE UNCHANGED vars
  <2>1. /\ ProfilesInv' /\ profile' = profile /\ Known' = Known /\ ConnectionsInv' /\ ToldInv'
        /\ conn' = conn /\ view' = view /\ told' = told
    BY <1>1, SyncLeaves DEF vars
  <2>2. /\ items' = items /\ pending' = pending /\ serial' = serial
        /\ shared' = shared /\ answer' = answer
    BY <1>1 DEF vars, rowVars
  <2>3. TypeInv'
    BY <2>1, <2>2 DEF ImapInv, TypeInv
  <2>4. Facts' = Facts /\ ItemFacts' = ItemFacts
    BY <2>1, <2>2 DEF Facts, HeldBy, ItemFacts
  <2>5. FactsInv' /\ PendingInv'
    BY <2>1, <2>2, <2>4 DEF ImapInv, FactsInv, PendingInv
  <2> QED
    BY <2>1, <2>3, <2>5 DEF ImapInv
<1>2. CASE Next
  BY <1>2, AdministerInv, StoreInv, CommitItemsInv, RollBackInv, ConnectInv, CloseInv, LoginInv,
     CloseFolderInv, SelectInv, StatusInv, SearchInv, FetchInv DEF Next
<1> QED
  BY <1>1, <1>2

-----------------------------------------------------------------------------
(***************************************************************************)
(* The invariant holds in every behaviour of the proxy.                    *)
(***************************************************************************)
THEOREM ImapInvariant == Spec => []ImapInv
BY ImapInitInv, ImapStepInv, PTL DEF Spec

(***************************************************************************)
(* Rows, connections and answers keep their types.                         *)
(***************************************************************************)
THEOREM ImapTypes == Spec => []TypeOK
<1>1. ImapInv => TypeOK
  BY DEF ImapInv, TypeInv, TypeOK, ProfilesInv
<1> QED
  BY <1>1, ImapInvariant, PTL

\* What a client was told and what a row says of the message.
LEMMA ToldAgrees ==
  ASSUME ImapInv, NEW t \in told, NEW i \in items, t.id = i.id
  PROVE  t.mailbox = i.mailbox /\ t.folder = FolderOf(i.vis)
<1>1. FactOf(t) \in Facts /\ Fact(i) \in Facts
  BY ToldFacts DEF Facts, ItemFacts
<1>2. FactOf(t).id = Fact(i).id
  BY DEF FactOf, Fact
<1>3. FactOf(t) = Fact(i)
  BY <1>1, <1>2 DEF ImapInv, FactsInv, Consistent
<1> QED
  BY <1>3 DEF FactOf, Fact

(***************************************************************************)
(* What is told as part of INBOX is visible, and what could not be         *)
(* ingested is told nowhere, over all connections and however long they    *)
(* last.                                                                   *)
(***************************************************************************)
THEOREM FoldersApart == Spec => []FoldersKeptApart
<1>1. ASSUME ImapInv PROVE FoldersKeptApart
  <2> SUFFICES ASSUME NEW t \in told, NEW i \in items, t.id = i.id
               PROVE  (t.folder = "INBOX" => i.vis = "visible") /\ i.vis # "ingestion_error"
    BY DEF FoldersKeptApart
  <2>1. t.folder = FolderOf(i.vis) /\ t.folder \in Folder
    BY <1>1, ToldAgrees DEF ImapInv, ToldInv
  <2> QED
    BY <2>1 DEF FolderOf, Folder
<1> QED
  BY <1>1, ImapInvariant, PTL

(***************************************************************************)
(* Clients are told of messages of the mailbox they logged in to only.     *)
(***************************************************************************)
THEOREM OwnersOnly == Spec => []ServedToOwnerOnly
<1>1. ASSUME ImapInv PROVE ServedToOwnerOnly
  BY <1>1, ToldAgrees DEF ServedToOwnerOnly
<1> QED
  BY <1>1, ImapInvariant, PTL

(***************************************************************************)
(* Where no two syncs of a mailbox had rows pending at the same time, a    *)
(* UID of a folder names one message for good, after its mailbox was       *)
(* deleted too; of the others, only such two can share one.                *)
(***************************************************************************)
THEOREM UidsNameMessages == Spec => []UidNamesOneMessage
<1>1. ASSUME ImapInv PROVE UidNamesOneMessage
  <2> SUFFICES ASSUME NEW s \in told, NEW t \in told, s.validity = t.validity, s.uid = t.uid
               PROVE  s.id = t.id \/ {s.id, t.id} \subseteq shared
    BY DEF UidNamesOneMessage
  <2>1. s.mailbox = t.mailbox
    BY <1>1 DEF ImapInv, ToldInv, FolderUidValidity
  <2>2. FactOf(s) \in Facts /\ FactOf(t) \in Facts
    BY ToldFacts
  <2>3. FactOf(s).mailbox = FactOf(t).mailbox /\ FactOf(s).uid = FactOf(t).uid
    BY <2>1 DEF FactOf
  <2>4. FactOf(s) = FactOf(t) \/ {FactOf(s).id, FactOf(t).id} \subseteq shared
    BY <1>1, <2>2, <2>3 DEF ImapInv, FactsInv, Consistent
  <2> QED
    BY <2>4 DEF FactOf
<1> QED
  BY <1>1, ImapInvariant, PTL

(***************************************************************************)
(* Sequence numbers keep their meaning while a folder is selected, however *)
(* many messages arrive and whatever else is asked meanwhile.              *)
(***************************************************************************)
THEOREM NumbersKeep == Spec => []SequenceNumbersKeep
<1>1. ASSUME ImapInv PROVE SequenceNumbersKeep
  <2> SUFFICES ASSUME NEW c \in Conn
               PROVE  /\ \A l \in view[c].seen : l.seq \in 1 .. view[c].exists
                      /\ \A k, l \in view[c].seen : (k.seq = l.seq) <=> (k.id = l.id)
    BY DEF SequenceNumbersKeep
  <2> DEFINE messages == conn[c].messages
  <2>1. /\ messages \in SUBSET Item /\ IsFiniteSet(messages)
        /\ view[c].exists = Cardinality(messages) /\ view[c].seen \subseteq LinesOf(messages)
    BY <1>1 DEF ImapInv, ConnectionsInv, ConnInv, Connection
  <2>2. \A i, j \in messages : i.id = j.id => SeqOf(messages, i) = SeqOf(messages, j)
    <3>1. ASSUME NEW i \in messages, NEW j \in messages, i.id = j.id PROVE i.uid = j.uid
      <4>1. Fact(i) \in Facts /\ Fact(j) \in Facts
        BY HeldFacts
      <4>2. Fact(i).id = Fact(j).id
        BY <3>1 DEF Fact
      <4>3. Fact(i) = Fact(j)
        BY <1>1, <4>1, <4>2 DEF ImapInv, FactsInv, Consistent
      <4> QED
        BY <4>3 DEF Fact
    <3> QED
      BY <3>1 DEF SeqOf
  <2> HIDE DEF messages
  <2>3. \A l \in view[c].seen : \E i \in messages : l.seq = SeqOf(messages, i) /\ l.id = i.id
    BY <2>1 DEF LinesOf
  <2>4. \A i \in messages : /\ SeqOf(messages, i) \in 1 .. view[c].exists
                            /\ \A j \in messages :
                                 SeqOf(messages, i) = SeqOf(messages, j) => i.id = j.id
    BY <2>1, SeqOfFacts
  <2> QED
    BY <2>2, <2>3, <2>4
<1> QED
  BY <1>1, ImapInvariant, PTL

(***************************************************************************)
(* A message that is committed has a UID above all that clients were told  *)
(* in its mailbox, unless syncs overlapped: the facts about a mailbox that *)
(* exists are those of its rows, and a pending row is above them.          *)
(***************************************************************************)
THEOREM UidsGrow == Spec => LaterUidsAreHigher
<1> DEFINE Higher ==
      \A i \in items' \ items, t \in told :
        t.mailbox = i.mailbox => t.uid < i.uid \/ {t.id, i.id} \subseteq shared
<1>1. ASSUME ImapInv, Next PROVE Higher
  <2>1. ASSUME items' \subseteq items PROVE Higher
    BY <2>1
  <2>2. ASSUME NEW k \in Sync, CommitItems(k) PROVE Higher
    <3> SUFFICES ASSUME NEW i \in items' \ items, NEW t \in told, t.mailbox = i.mailbox
                 PROVE  t.uid < i.uid \/ {t.id, i.id} \subseteq shared
      OBVIOUS
    <3>1. i \in pending[k]
      BY <2>2 DEF CommitItems
    <3>2. Pending(pending, Facts, ItemFacts, serial, DOMAIN profile, shared)
      BY <1>1 DEF ImapInv, PendingInv
    <3>3. i.mailbox \in DOMAIN profile
      BY <3>1, <3>2 DEF Pending
    <3>4. FactOf(t).mailbox = t.mailbox /\ FactOf(t).uid = t.uid /\ FactOf(t).id = t.id
      BY DEF FactOf
    <3>5. FactOf(t) \in ItemFacts
      BY <1>1, <3>3, <3>4, ToldFacts DEF ImapInv, FactsInv, Consistent
    <3> QED
      BY <3>1, <3>2, <3>4, <3>5 DEF Pending
  <2>3. CASE Administer
    BY <2>1, <2>3 DEF Administer
  <2>4. ASSUME NEW k \in Sync, NEW m, NEW vis, StoreItem(k, m, vis) \/ RollBack(k) PROVE Higher
    BY <2>1, <2>4 DEF StoreItem, RollBack
  <2>5. ASSUME NEW c \in Conn, Connect(c) \/ Close(c) \/ Login(c) \/ CloseFolder(c) PROVE Higher
    BY <2>1, <2>5 DEF Connect, Close, Login, CloseFolder, Become, rowVars
  <2>6. ASSUME NEW c \in Conn, NEW f \in Folder, Select(c, f) \/ Status(c, f) PROVE Higher
    BY <2>1, <2>6 DEF Select, Status, Become, rowVars
  <2>7. ASSUME NEW c \in Conn, NEW criteria, Search(c, criteria) \/ UidSearch(c, criteria)
        PROVE  Higher
    BY <2>1, <2>7 DEF Search, UidSearch, SearchBy, rowVars
  <2>8. ASSUME NEW c \in Conn, NEW parts, NEW want,
               Fetch(c, parts, want) \/ UidFetch(c, parts, want)
        PROVE  Higher
    BY <2>1, <2>8 DEF Fetch, UidFetch, FetchBy, rowVars
  <2> HIDE DEF Higher
  <2> QED
    BY <1>1, <2>2, <2>3, <2>4, <2>5, <2>6, <2>7, <2>8 DEF Next
<1>2. ASSUME ImapInv, [Next]_vars PROVE [Higher]_vars
  BY <1>1, <1>2
<1> QED
  BY <1>2, ImapInvariant, PTL DEF Spec, LaterUidsAreHigher

-----------------------------------------------------------------------------
(* Answers *)

LEMMA OnlyElement ==
  ASSUME NEW S, IsFiniteSet(S), Cardinality(S) <= 1, NEW x \in S, NEW y \in S
  PROVE  x = y
<1> SUFFICES ASSUME x # y PROVE FALSE
  OBVIOUS
<1>1. /\ IsFiniteSet(S \ {x}) /\ Cardinality(S \ {x}) = Cardinality(S) - 1
      /\ Cardinality(S) \in Nat
  BY FS_RemoveElement, FS_CardinalityType
<1>2. Cardinality(S \ {x}) \in Nat
  BY <1>1, FS_CardinalityType
<1>3. Cardinality(S \ {x}) = 0
  BY <1>1, <1>2
<1>4. S \ {x} = {}
  BY <1>1, <1>3, FS_EmptySet
<1> QED
  BY <1>4

\* The section that is found is the one that is sent, and nothing is lost.
LEMMA PartsAnswer ==
  ASSUME NEW want \in SUBSET FetchItem, OneSection(want)
  PROVE  Due(want) \subseteq FetchParts(want)
<1> DEFINE found == SectionsFound(want)
<1>1. IsFiniteSet(Sections)
  <2>1. IsFiniteSet({"BODY[]"})
    BY FS_Singleton
  <2>2. IsFiniteSet({"BODY[]"} \cup {"BODY[HEADER]"})
    BY <2>1, FS_AddElement
  <2>3. IsFiniteSet(({"BODY[]"} \cup {"BODY[HEADER]"}) \cup {"BODY[TEXT]"})
    BY <2>2, FS_AddElement
  <2>4. Sections = ({"BODY[]"} \cup {"BODY[HEADER]"}) \cup {"BODY[TEXT]"}
    BY DEF Sections
  <2> QED
    BY <2>3, <2>4
<1>2. IsFiniteSet(found)
  <2>1. found \in SUBSET Sections
    BY DEF SectionsFound, Sections
  <2> QED
    BY <1>1, <2>1, FS_Subset
<1>3. \A x, y \in found : x = y
  BY <1>2, OnlyElement DEF OneSection
<1> DEFINE rfc822 == want \cap {"RFC822", "RFC822.SIZE"} # {}
           section == want \cap Sections # {}
           body == section \/ want \cap {"BODY", "BODYSTRUCTURE"} # {}
           chosen == IF "BODY[]" \in want \/ rfc822 THEN {"BODY[]"}
                     ELSE IF "BODY[HEADER]" \in want THEN {"BODY[HEADER]"}
                     ELSE want \cap {"BODY[TEXT]"}
<1>4. FetchParts(want) =
        {"UID"} \cup chosen \cup (want \cap {"FLAGS", "ENVELOPE", "BODYSTRUCTURE"})
          \cup (IF rfc822 \/ body THEN {"RFC822.SIZE"} ELSE {})
          \cup (IF body /\ ~section THEN {"BODYSTRUCTURE"} ELSE {})
  BY DEF FetchParts
<1>5. "RFC822" \in want \/ "RFC822.SIZE" \in want => "BODY[]" \in found
  BY DEF SectionsFound, Due, Sections
<1>6. want \cap Sections \subseteq found
  BY DEF SectionsFound, Due, Sections
<1>7. ASSUME NEW d \in Due(want), d \in Sections PROVE d \in chosen
  <2>1. d \in found
    BY <1>7 DEF SectionsFound
  <2>2. CASE "BODY[]" \in want \/ rfc822
    <3>1. "BODY[]" \in found
      BY <1>5, <1>6, <2>2 DEF Sections
    <3>2. d = "BODY[]"
      BY <1>3, <2>1, <3>1
    <3>3. chosen = {"BODY[]"}
      BY <2>2
    <3> QED
      BY <3>2, <3>3
  <2>3. CASE ~("BODY[]" \in want \/ rfc822) /\ "BODY[HEADER]" \in want
    <3>1. "BODY[HEADER]" \in found
      BY <1>6, <2>3 DEF Sections
    <3> QED
      BY <1>3, <2>1, <2>3, <3>1
  <2>4. CASE ~("BODY[]" \in want \/ rfc822) /\ "BODY[HEADER]" \notin want
    <3>1. d \in want /\ d = "BODY[TEXT]"
      BY <1>7, <2>4 DEF Due, Sections
    <3> QED
      BY <2>4, <3>1
  <2> QED
    BY <2>2, <2>3, <2>4
<1>8. ASSUME NEW d \in Due(want), d \notin Sections PROVE d \in FetchParts(want)
  <2>1. d \in {"UID", "FLAGS", "ENVELOPE", "BODYSTRUCTURE", "RFC822.SIZE"}
    BY <1>8 DEF Due, FetchItem, Sections
  <2>2. d \in want \/ (d = "BODYSTRUCTURE" /\ "BODY" \in want)
    BY <1>8 DEF Due, Sections
  <2>3. CASE d = "BODYSTRUCTURE" /\ "BODY" \in want
    <3>1. body /\ ~section
      BY <2>3 DEF OneSection
    <3> HIDE DEF chosen, rfc822, section, body
    <3> QED
      BY <1>4, <2>3, <3>1
  <2>4. CASE d = "RFC822.SIZE" /\ d \in want
    <3>1. rfc822
      BY <2>4
    <3> HIDE DEF chosen, rfc822, section, body
    <3> QED
      BY <1>4, <2>4, <3>1
  <2>5. CASE d \in {"UID", "FLAGS", "ENVELOPE", "BODYSTRUCTURE"} /\ d \in want
    <3> HIDE DEF chosen, rfc822, section, body
    <3> QED
      BY <1>4, <2>5
  <2> QED
    BY <2>1, <2>2, <2>3, <2>4, <2>5
<1> HIDE DEF chosen, rfc822, section, body
<1> QED
  BY <1>4, <1>7, <1>8

\* What the end n of a range stands for.
EndOf(n, top) == IF n = Star THEN top ELSE n

\* The numbers a set of ranges names, where "*" is the largest.
LEMMA RangesName ==
  ASSUME NEW N \in SUBSET Nat, NEW n \in Nat, \A y \in N : y <= n,
         NEW parts \in SUBSET (Nat \X Nat), NEW x \in N
  PROVE  x \in ParseSet(parts, N) <=>
           \E p \in parts : x \in EndOf(p[1], Max(N)) .. EndOf(p[2], Max(N))
<1> DEFINE End(k) == EndOf(k, Max(N))
           Bound(k) == IF k = Star THEN Max({0} \cup N) ELSE k
<1>1. Max(N) \in N /\ \A y \in N : y <= Max(N)
  BY MaxFacts
<1>2. /\ Max({0} \cup N) \in {0} \cup N
      /\ \A y \in {0} \cup N : y <= Max({0} \cup N)
  <2>1. {0} \cup N \in SUBSET Nat /\ {0} \cup N # {} /\ \A y \in {0} \cup N : y <= n
    OBVIOUS
  <2> QED
    BY <2>1, MaxFacts
<1>3. Max({0} \cup N) = Max(N) /\ Max(N) \in Nat
  <2>1. Max(N) \in Nat /\ Max(N) <= Max({0} \cup N)
    BY <1>1, <1>2
  <2>2. Max({0} \cup N) \in Nat /\ Max({0} \cup N) <= Max(N)
    <3>1. CASE Max({0} \cup N) = 0
      BY <2>1, <3>1
    <3>2. CASE Max({0} \cup N) \in N
      BY <1>1, <3>2
    <3> QED
      BY <1>2, <3>1, <3>2
  <2> QED
    BY <2>1, <2>2
<1>4. x \in ParseSet(parts, N) <=> \E p \in parts : Bound(p[1]) <= x /\ x <= Bound(p[2])
  BY DEF ParseSet
<1>5. ASSUME NEW p \in parts
      PROVE  /\ Bound(p[1]) = End(p[1]) /\ Bound(p[2]) = End(p[2])
             /\ End(p[1]) \in Nat /\ End(p[2]) \in Nat
  BY <1>3 DEF EndOf
<1>6. x \in Nat
  OBVIOUS
<1> HIDE DEF End, Bound
<1>7. x \in ParseSet(parts, N) <=> \E p \in parts : x \in End(p[1]) .. End(p[2])
  BY <1>4, <1>5, <1>6
<1> QED
  BY <1>7 DEF End

LEMMA SerialType == ImapInv => serial \in Nat
BY DEF ImapInv, TypeInv

\* UIDs of a selection are numbers up to the last id.
LEMMA SelectionUids ==
  ASSUME ImapInv, NEW c \in Conn, NEW i \in conn[c].messages
  PROVE  i.uid \in Nat /\ i.uid <= serial
<1>1. Fact(i) \in Facts
  BY HeldFacts
<1>2. Fact(i).uid = i.uid
  BY DEF Fact
<1> QED
  BY <1>1, <1>2 DEF ImapInv, FactsInv, Consistent

\* The messages that lines are about.
LEMMA LineIds ==
  ASSUME NEW c, NEW S PROVE {l.id : l \in Lines(c, S)} = {i.id : i \in S}
<1> DEFINE line(i) == [seq |-> SeqOf(conn[c].messages, i), uid |-> i.uid, id |-> i.id]
<1>1. Lines(c, S) = {line(i) : i \in S} /\ \A i \in S : line(i).id = i.id
  BY DEF Lines
<1> HIDE DEF line
<1> QED
  BY <1>1

\* An answer by UID, or about all.
LEMMA AnsweredByUid ==
  ASSUME ImapInv, NEW c \in Conn, NEW parts \in SUBSET (Nat \X Nat),
         NEW S \in SUBSET conn[c].messages,
         conn' = conn, answer'.conn = c, answer'.asked = parts,
         answer'.kind \in {"UID FETCH", "SEARCH", "UID SEARCH"},
         answer'.got = Lines(c, S),
         answer'.key # "other" /\ (answer'.kind = "SEARCH" => UidsDiffer(conn[c].messages))
           => S = {i \in conn[c].messages :
                     \/ answer'.key = "ALL"
                     \/ i.uid \in ParseSet(parts, {j.uid : j \in conn[c].messages})},
         OneSection(answer'.want) => Due(answer'.want) \subseteq answer'.parts
  PROVE  AnswersWhatWasAsked'
<1> DEFINE M == conn[c].messages
           N == {i.uid : i \in M}
           All == answer'.key = "ALL"
           Asked == {i \in M : All \/ \E p \in parts :
                                 i.uid \in EndOf(p[1], Max(N)) .. EndOf(p[2], Max(N))}
           Served == /\ answer'.key # "other"
                     /\ answer'.kind = "SEARCH" => UidsDiffer(M)
<1>1. ASSUME M # {}, Served PROVE {l.id : l \in answer'.got} = {i.id : i \in Asked}
  <2>1. \A i \in M : i.uid \in Nat /\ i.uid <= serial
    BY SelectionUids
  <2>2. N \in SUBSET Nat /\ \A x \in N : x <= serial
    BY <2>1
  <2>3. \A i \in M : i.uid \in N
    OBVIOUS
  <2>4. serial \in Nat
    BY SerialType
  <2>5. S = {i \in M : All \/ i.uid \in ParseSet(parts, N)}
    BY <1>1
  <2> HIDE DEF N, M, All
  <2>6. \A x \in N : x \in ParseSet(parts, N) <=>
                       \E p \in parts : x \in EndOf(p[1], Max(N)) .. EndOf(p[2], Max(N))
    BY <2>2, <2>4, RangesName
  <2>7. \A i \in M : i.uid \in ParseSet(parts, N) <=>
                       \E p \in parts : i.uid \in EndOf(p[1], Max(N)) .. EndOf(p[2], Max(N))
    BY <2>3, <2>6
  <2>8. S = Asked
    BY <2>5, <2>7
  <2> HIDE DEF Asked
  <2>9. answer'.got = Lines(c, Asked)
    BY <2>8
  <2>10. {l.id : l \in Lines(c, Asked)} = {i.id : i \in Asked}
    BY LineIds
  <2> QED
    BY <2>9, <2>10
<1>2. answer'.kind # "FETCH"
  OBVIOUS
<1>3. RightAnswer(answer', M)
  <2> DEFINE Number(i) == IF answer'.kind = "FETCH" THEN SeqOf(M, i) ELSE i.uid
             End(n) == IF n = Star THEN Max({Number(i) : i \in M}) ELSE n
             Ordered == \A p \in answer'.asked : End(p[1]) <= End(p[2])
             Named == {i \in M : answer'.key = "ALL" \/ \E p \in answer'.asked :
                                   Number(i) \in End(p[1]) .. End(p[2])}
             Exact == /\ M # {} /\ Ordered
                      /\ answer'.key # "other"
                      /\ answer'.kind = "SEARCH" => UidsDiffer(M)
  <2>1. \A i \in M : Number(i) = i.uid
    BY <1>2
  <2> HIDE DEF Number
  <2>2. {Number(i) : i \in M} = N
    BY <2>1
  <2> HIDE DEF N
  <2>3. \A n : End(n) = EndOf(n, Max(N))
    BY <2>2 DEF EndOf
  <2> HIDE DEF End
  <2>4. Named = Asked
    <3>1. ASSUME NEW i \in M, NEW p \in parts
          PROVE  Number(i) \in End(p[1]) .. End(p[2])
                   <=> i.uid \in EndOf(p[1], Max(N)) .. EndOf(p[2], Max(N))
      BY <2>1, <2>3
    <3>2. answer'.asked = parts /\ (answer'.key = "ALL" <=> All)
      OBVIOUS
    <3> HIDE DEF All, M
    <3> QED
      BY <3>1, <3>2
  <2> HIDE DEF Named, Asked
  <2>5. Exact => {l.id : l \in answer'.got} = {i.id : i \in Named}
    BY <1>1, <2>4
  <2>6. OneSection(answer'.want) => Due(answer'.want) \subseteq answer'.parts
    BY <1>2
  <2> QED
    BY <2>5, <2>6 DEF RightAnswer, Named, End, Number, Ordered
<1> QED
  BY <1>3 DEF AnswersWhatWasAsked

\* An answer by position.
LEMMA AnsweredBySeq ==
  ASSUME ImapInv, NEW c \in Conn, NEW parts \in SUBSET (Nat \X Nat), NEW want,
         Fetch(c, parts, want),
         OneSection(want) => Due(want) \subseteq FetchParts(want)
  PROVE  AnswersWhatWasAsked'
<1> DEFINE M == conn[c].messages
           N == {SeqOf(M, i) : i \in M}
           Asked == {i \in M : \E p \in parts :
                                 SeqOf(M, i) \in EndOf(p[1], Max(N)) .. EndOf(p[2], Max(N))}
           S == {i \in M : SeqOf(M, i) \in ParseSet(parts, N)}
<1>1. /\ answer' = [kind |-> "FETCH", conn |-> c, exists |-> 0, key |-> "none", asked |-> parts,
                    want |-> want, got |-> Lines(c, S), parts |-> FetchParts(want)]
      /\ conn' = conn
  BY DEF Fetch, FetchBy
<1>2. /\ answer'.kind = "FETCH" /\ answer'.conn = c /\ answer'.asked = parts
      /\ answer'.key = "none"
      /\ answer'.want = want /\ answer'.got = Lines(c, S)
      /\ answer'.parts = FetchParts(want)
  BY <1>1
<1>3. ASSUME M # {} PROVE {l.id : l \in answer'.got} = {i.id : i \in Asked}
  <2> DEFINE n == Cardinality(M)
  <2>1. n \in Nat /\ \A i \in M : SeqOf(M, i) \in 1 .. n
    <3>1. M \in SUBSET Item /\ IsFiniteSet(M)
      BY DEF ImapInv, ConnectionsInv, ConnInv, Connection
    <3> HIDE DEF M
    <3> QED
      BY <3>1, SeqOfFacts, FS_CardinalityType
  <2> HIDE DEF M, n
  <2>2. N \in SUBSET Nat /\ \A x \in N : x <= n
    BY <2>1
  <2>3. \A i \in M : SeqOf(M, i) \in N
    OBVIOUS
  <2> HIDE DEF N
  <2>4. \A x \in N : x \in ParseSet(parts, N) <=>
                       \E p \in parts : x \in EndOf(p[1], Max(N)) .. EndOf(p[2], Max(N))
    BY <2>1, <2>2, RangesName
  <2>5. \A i \in M : SeqOf(M, i) \in ParseSet(parts, N) <=>
                       \E p \in parts :
                         SeqOf(M, i) \in EndOf(p[1], Max(N)) .. EndOf(p[2], Max(N))
    BY <2>3, <2>4
  <2>6. S = Asked
    BY <2>5
  <2> HIDE DEF Asked, S
  <2>7. {l.id : l \in Lines(c, Asked)} = {i.id : i \in Asked}
    BY LineIds
  <2> QED
    BY <1>2, <2>6, <2>7
<1> HIDE DEF S
<1>4. RightAnswer(answer', M)
  <2> DEFINE Number(i) == IF answer'.kind = "FETCH" THEN SeqOf(M, i) ELSE i.uid
             End(n) == IF n = Star THEN Max({Number(i) : i \in M}) ELSE n
             Ordered == \A p \in answer'.asked : End(p[1]) <= End(p[2])
             Named == {i \in M : answer'.key = "ALL" \/ \E p \in answer'.asked :
                                   Number(i) \in End(p[1]) .. End(p[2])}
             Exact == /\ M # {} /\ Ordered
                      /\ answer'.key # "other"
                      /\ answer'.kind = "SEARCH" => UidsDiffer(M)
  <2>1. \A i \in M : Number(i) = SeqOf(M, i)
    BY <1>2
  <2> HIDE DEF Number
  <2>2. {Number(i) : i \in M} = N
    BY <2>1
  <2> HIDE DEF N
  <2>3. \A n : End(n) = EndOf(n, Max(N))
    BY <2>2 DEF EndOf
  <2> HIDE DEF End
  <2>4. Named = Asked
    BY <1>2, <2>1, <2>3
  <2> HIDE DEF Named, Asked
  <2>5. Exact => {l.id : l \in answer'.got} = {i.id : i \in Named}
    BY <1>3, <2>4
  <2>6. OneSection(answer'.want) => Due(answer'.want) \subseteq answer'.parts
    BY <1>2
  <2> QED
    BY <2>5, <2>6 DEF RightAnswer, Named, End, Number, Ordered
<1> QED
  BY <1>1, <1>2, <1>4 DEF AnswersWhatWasAsked

\* Where UIDs differ, what is looked up by UID is what was found.
LEMMA FirstIsOnly ==
  ASSUME NEW messages, UidsDiffer(messages), NEW S \in SUBSET messages,
         \A i \in messages : i.id \in Nat
  PROVE  FirstByUid(S, messages) = S
<1>1. ASSUME NEW i \in messages, NEW j \in messages, i.uid = j.uid PROVE i = j
  BY <1>1 DEF UidsDiffer
<1>2. ASSUME NEW i \in S PROVE i \in FirstByUid(S, messages)
  <2>1. \A j \in messages : j.uid = i.uid => i.id <= j.id
    BY <1>1
  <2> QED
    BY <2>1 DEF FirstByUid
<1>3. ASSUME NEW i \in FirstByUid(S, messages) PROVE i \in S
  BY <1>1 DEF FirstByUid
<1> QED
  BY <1>2, <1>3 DEF FirstByUid

\* What a search is asked for.
LEMMA SearchFinds ==
  ASSUME NEW criteria \in Criteria, NEW messages, criteria[1] # "other"
  PROVE  /\ criteria[2] \in SUBSET (Nat \X Nat)
         /\ ApplySearch(criteria, messages) =
              {i \in messages : criteria[1] = "ALL"
                                \/ i.uid \in ParseSet(criteria[2], {j.uid : j \in messages})}
<1>1. CASE criteria = <<"ALL", {}>>
  BY <1>1 DEF ApplySearch
<1>2. CASE criteria \in {"UID"} \X Sets
  BY <1>2, IPConstants DEF ApplySearch
<1>3. criteria # <<"other", {}>>
  OBVIOUS
<1> QED
  BY <1>1, <1>2, <1>3 DEF Criteria

LEMMA SearchAnswers ==
  ASSUME ImapInv, NEW c \in Conn, NEW criteria \in Criteria,
         Search(c, criteria) \/ UidSearch(c, criteria)
  PROVE  AnswersWhatWasAsked'
<1> DEFINE M == conn[c].messages
           found == ApplySearch(criteria, M)
           S == IF answer'.kind = "SEARCH" THEN FirstByUid(found, M) ELSE found
<1>1. found \in SUBSET M /\ FirstByUid(found, M) \in SUBSET M
  BY DEF ApplySearch, FirstByUid
<1>2. ASSUME NEW kind \in {"SEARCH", "UID SEARCH"}, NEW T, SearchBy(c, kind, criteria, T)
      PROVE  /\ conn' = conn /\ answer'.conn = c /\ answer'.asked = criteria[2]
             /\ answer'.kind = kind /\ answer'.key = criteria[1] /\ answer'.want = {}
             /\ answer'.got = Lines(c, T)
  BY <1>2 DEF SearchBy, NoAnswer
<1>3. /\ conn' = conn /\ answer'.conn = c /\ answer'.asked = criteria[2]
      /\ answer'.kind \in {"SEARCH", "UID SEARCH"}
      /\ answer'.key = criteria[1] /\ answer'.want = {}
      /\ answer'.got = Lines(c, S)
  <2>1. CASE Search(c, criteria)
    BY <1>2, <2>1 DEF Search
  <2>2. CASE UidSearch(c, criteria)
    BY <1>2, <2>2 DEF UidSearch
  <2> QED
    BY <2>1, <2>2
<1>4. Due(answer'.want) = {}
  BY <1>3 DEF Due
<1>5. \A i \in M : i.id \in Nat
  BY DEF ImapInv, TypeInv, Connection, Item
<1>6. ASSUME criteria[1] # "other", answer'.kind = "SEARCH" => UidsDiffer(M) PROVE S = found
  <2> HIDE DEF M, found
  <2> QED
    BY <1>1, <1>5, <1>6, FirstIsOnly
<1>7. CASE criteria[1] = "other"
  <2>1. ~(answer'.kind = "FETCH") /\ answer'.key = "other"
    BY <1>3, <1>7
  <2> QED
    BY <1>3, <1>4, <2>1 DEF AnswersWhatWasAsked, RightAnswer
<1>8. CASE criteria[1] # "other"
  <2>1. S \in SUBSET M
    BY <1>1
  <2>2. /\ criteria[2] \in SUBSET (Nat \X Nat)
        /\ found = {i \in M : criteria[1] = "ALL"
                              \/ i.uid \in ParseSet(criteria[2], {j.uid : j \in M})}
    BY <1>8, SearchFinds
  <2>3. OneSection(answer'.want) => Due(answer'.want) \subseteq answer'.parts
    BY <1>4
  <2>4. answer'.key # "other" /\ (answer'.kind = "SEARCH" => UidsDiffer(M))
          => S = {i \in M : \/ answer'.key = "ALL"
                            \/ i.uid \in ParseSet(criteria[2], {j.uid : j \in M})}
    <3> HIDE DEF S, found, M
    <3>1. (answer'.kind = "SEARCH" => UidsDiffer(M)) => S = found
      BY <1>6, <1>8
    <3>2. found = {i \in M : \/ answer'.key = "ALL"
                             \/ i.uid \in ParseSet(criteria[2], {j.uid : j \in M})}
      BY <1>3, <2>2
    <3> QED
      BY <3>1, <3>2
  <2> HIDE DEF S, found
  <2>5. answer'.kind \in {"UID FETCH", "SEARCH", "UID SEARCH"}
    BY <1>3
  <2> QED
    BY <1>3, <2>1, <2>2, <2>3, <2>4, <2>5, AnsweredByUid
<1> QED
  BY <1>7, <1>8

LEMMA NextAnswers ==
  ASSUME ImapInv, Next
  PROVE  AnswersWhatWasAsked'
<1>1. ASSUME answer'.kind \notin {"FETCH", "UID FETCH", "SEARCH", "UID SEARCH"}
      PROVE  AnswersWhatWasAsked'
  BY <1>1 DEF AnswersWhatWasAsked
<1>2. ASSUME Quiet PROVE AnswersWhatWasAsked'
  BY <1>1, <1>2 DEF Quiet, NoAnswer
<1>3. ASSUME NEW c \in Conn, NEW f \in Folder, Status(c, f) PROVE AnswersWhatWasAsked'
  BY <1>1, <1>3 DEF Status, NoAnswer
<1>4. \A parts \in Sets : parts \in SUBSET (Nat \X Nat)
  BY IPConstants
<1>5. \A want \in Wants : OneSection(want) => Due(want) \subseteq FetchParts(want)
  BY IPConstants, PartsAnswer
<1>6. ASSUME NEW c \in Conn, NEW parts \in Sets, NEW want \in Wants, UidFetch(c, parts, want)
      PROVE  AnswersWhatWasAsked'
  <2> DEFINE S == {i \in conn[c].messages :
                     i.uid \in ParseSet(parts, {j.uid : j \in conn[c].messages})}
  <2>1. /\ conn' = conn /\ answer'.conn = c /\ answer'.asked = parts
        /\ answer'.kind = "UID FETCH" /\ answer'.want = want /\ answer'.key = "none"
        /\ answer'.parts = FetchParts(want) /\ answer'.got = Lines(c, S)
    BY <1>6 DEF UidFetch, FetchBy
  <2>2. OneSection(answer'.want) => Due(answer'.want) \subseteq answer'.parts
    BY <1>5, <2>1
  <2>3. S \in SUBSET conn[c].messages
    OBVIOUS
  <2>4. S = {i \in conn[c].messages :
               \/ answer'.key = "ALL"
               \/ i.uid \in ParseSet(parts, {j.uid : j \in conn[c].messages})}
    BY <2>1
  <2> HIDE DEF S
  <2> QED
    BY <1>4, <2>1, <2>2, <2>3, <2>4, AnsweredByUid
<1>7. ASSUME NEW c \in Conn, NEW parts \in Sets, NEW want \in Wants, Fetch(c, parts, want)
      PROVE  AnswersWhatWasAsked'
  BY <1>4, <1>5, <1>7, AnsweredBySeq
<1> QED
  BY <1>2, <1>3, <1>6, <1>7, SearchAnswers DEF Next, Administer, StoreItem, CommitItems, RollBack,
     Connect, Close, Login, CloseFolder, Select

(***************************************************************************)
(* FETCH and SEARCH answer with the messages that were asked for, from the *)
(* list of the selection, and FETCH with all that was asked of them, for   *)
(* any sets of ranges and any items the server knows; of searches, those   *)
(* for ALL and for UIDs.                                                   *)
(***************************************************************************)
THEOREM AnswersAreRight == Spec => []AnswersWhatWasAsked
<1>1. Init => AnswersWhatWasAsked
  BY DEF Init, NoAnswer, AnswersWhatWasAsked
<1>2. ImapInv /\ AnswersWhatWasAsked /\ [Next]_vars => AnswersWhatWasAsked'
  <2>1. CASE Next
    BY <2>1, NextAnswers
  <2>2. ASSUME AnswersWhatWasAsked, UNCHANGED vars PROVE AnswersWhatWasAsked'
    BY <2>2 DEF vars, clientVars, AnswersWhatWasAsked
  <2> QED
    BY <2>1, <2>2
<1> QED
  BY <1>1, <1>2, ImapInvariant, PTL DEF Spec

-----------------------------------------------------------------------------
(* The profiles next to the proxy *)

\* Only the handlers of the profiles change them: a client reads.
LEMMA ProfilesChange == [Next]_vars => [ProfilesNext]_profileVars
<1> SUFFICES ASSUME [Next]_vars PROVE [ProfilesNext]_profileVars
  OBVIOUS
<1>1. CASE Administer
  BY <1>1 DEF Administer
<1>2. ASSUME NEW k \in Sync, NEW m, NEW vis, StoreItem(k, m, vis) \/ CommitItems(k) \/ RollBack(k)
      PROVE  UNCHANGED profileVars
  BY <1>2 DEF StoreItem, CommitItems, RollBack
<1>3. ASSUME NEW c \in Conn, Connect(c) \/ Close(c) \/ Login(c) \/ CloseFolder(c)
      PROVE  UNCHANGED profileVars
  BY <1>3 DEF Connect, Close, Login, CloseFolder, Become
<1>4. ASSUME NEW c \in Conn, NEW f \in Folder, Select(c, f) \/ Status(c, f)
      PROVE  UNCHANGED profileVars
  BY <1>4 DEF Select, Status, Become
<1>5. ASSUME NEW c \in Conn, NEW criteria, NEW parts, NEW want,
             \/ Search(c, criteria) \/ UidSearch(c, criteria)
             \/ Fetch(c, parts, want) \/ UidFetch(c, parts, want)
      PROVE  UNCHANGED profileVars
  BY <1>5 DEF Search, UidSearch, SearchBy, Fetch, UidFetch, FetchBy
<1>6. CASE UNCHANGED vars
  BY <1>6 DEF vars
<1> QED
  BY <1>1, <1>2, <1>3, <1>4, <1>5, <1>6 DEF Next

(***************************************************************************)
(* The proxy is read-only towards the profiles: next to it they behave as  *)
(* they do alone, whatever clients send.                                   *)
(***************************************************************************)
THEOREM ClientsLeaveProfiles == Spec => ProfilesSpec
<1>1. Init => ProfilesInit
  BY DEF Init
<1> QED
  BY <1>1, ProfilesChange, PTL DEF Spec, ProfilesSpec

(***************************************************************************)
(* So the password a client logs in with is the one its owner was last     *)
(* shown, and a deleted mailbox is never back to be read.                  *)
(***************************************************************************)
THEOREM ProfilesStandForClients ==
  Spec => [](CredentialsAsLastSet /\ TestResultStands /\ DeletedStaysDeleted)
BY ClientsLeaveProfiles, CredentialsStand, TestResultsStand, DeletionIsFinal, PTL
=============================================================================
