------------------------------ MODULE ImapProxy ------------------------------
(***************************************************************************)
(* The read-only IMAP proxy: the connections of app/proxies/imap/server.py *)
(* and the virtual folders of app/proxies/imap/mailbox.py, next to the     *)
(* handlers that administer the profiles and to the synchronisations that  *)
(* add messages while clients are connected.                               *)
(*                                                                         *)
(* A connection reads its folder once, at SELECT, and answers from that    *)
(* list until the next SELECT or CLOSE, whatever syncs add meanwhile.      *)
(* Commands answer and leave the connection as it is, except the ones      *)
(* below; a refused one (NO, BAD), NOOP, CAPABILITY, LIST and every        *)
(* command that would change the mailbox leave no trace and are no step.   *)
(* A SELECT of an unknown folder is one of them: the selection stays.      *)
(*                                                                         *)
(* `view' is what the client has been told about the folder it selected,   *)
(* `told' what clients have been told about messages over all connections, *)
(* as a mail client that keeps a copy of the mailbox would have it.        *)
(*                                                                         *)
(* Of a synchronisation (module MailboxSync) the model has what clients    *)
(* can see: its session numbers messages, one or more, and commits them or *)
(* is rolled back.  Nothing keeps two of a mailbox apart.                  *)
(***************************************************************************)
EXTENDS MailboxProfiles, PolicyVerdict, FiniteSetsExt

CONSTANTS
  Conn,      \* connections of mail clients
  Sync,      \* sessions of synchronisations that may run at the same time
  SoftHold,  \* the setting quarantine_soft_hold
  Sets,      \* the message sets a client may name: sets of ranges
  Wants,     \* what clients may ask for: sets of FETCH items
  MaxItems   \* bound: messages numbered

(***************************************************************************)
(* A range is a pair of numbers, 0 standing for "*"; a single number is a  *)
(* range of one.                                                           *)
(***************************************************************************)
Star == 0

Sections == {"BODY[]", "BODY[HEADER]", "BODY[TEXT]"}

\* The FETCH items the server knows.
FetchItem == Sections \cup {"UID", "FLAGS", "ENVELOPE", "BODYSTRUCTURE", "BODY",
                            "RFC822", "RFC822.SIZE"}

ASSUME IPConstants ==
  /\ SoftHold \in BOOLEAN
  /\ Sets \subseteq SUBSET (Nat \X Nat)
  /\ Wants \subseteq SUBSET FetchItem
  /\ MaxItems \in Nat
  /\ "none" \notin Mailbox

VARIABLES
  items,   \* mailbox_items: the committed rows
  pending, \* the rows each sync has numbered and not committed
  serial,  \* the last id of an item
  conn,    \* the connections, as the server sees them
  answer,  \* what the last step sent to a client
  view,    \* history: what each client knows of its selection
  told,    \* history: what clients know of messages
  shared   \* history: ids of rows pending beside rows of another sync

rowVars == <<items, pending, serial, shared>>
clientVars == <<conn, view, told>>
vars == <<profileVars, rowVars, clientVars, answer>>

Folder == {"INBOX", "Mindwall/Quarantine"}

Item == [id : Nat, mailbox : Mailbox, uid : Nat, vis : Visibility]

Connection == [state : {"closed", "NOT_AUTH", "AUTH", "SELECTED"},
               session : Mailbox \cup {"none"}, folder : Folder \cup {"none"},
               messages : SUBSET Item]

Closed == [state |-> "closed", session |-> "none", folder |-> "none", messages |-> {}]

\* A line of an answer: sequence number, UID and message.
Told == [seq : Nat, uid : Nat, id : Nat]

NoAnswer == [kind |-> "none", conn |-> "none", exists |-> 0, key |-> "none",
             asked |-> {}, want |-> {}, got |-> {}, parts |-> {}]

NoView == [exists |-> 0, seen |-> {}]

TypeOK ==
  /\ ProfilesTypeOK
  /\ items \subseteq Item
  /\ pending \in [Sync -> SUBSET Item]
  /\ serial \in 0 .. MaxItems
  /\ shared \subseteq 1 .. serial
  /\ conn \in [Conn -> Connection]
  /\ \A c \in Conn : /\ view[c].exists \in Nat
                     /\ view[c].seen \subseteq Told
  /\ answer.got \subseteq Told

-----------------------------------------------------------------------------
(* The virtual folders *)

\* Mutant: the inbox is everything that is not in quarantine.
VisibilitiesNotQuarantined(folder) ==
  IF folder = "INBOX" THEN Visibility \ {"quarantined"} ELSE {"quarantined", "hidden"}

\* _INBOX_VISIBILITIES and _QUARANTINE_VISIBILITIES.
Visibilities(folder) ==
  IF folder = "INBOX" THEN {"visible"} ELSE {"quarantined", "hidden"}

\* Mutant: the items of every mailbox.
LoadItemsOfAll(m, visibilities) == {i \in items : i.vis \in visibilities}

LoadItems(m, visibilities) == {i \in items : i.mailbox = m /\ i.vis \in visibilities}

\* select_mailbox: what the folder holds at this moment.
SelectMailbox(m, folder) == LoadItems(m, Visibilities(folder))

\* The position of i in the folder: by UID, then by id.
SeqOf(messages, i) ==
  Cardinality({j \in messages : j.uid < i.uid \/ (j.uid = i.uid /\ j.id <= i.id)})

UidNext(messages) == Max({0} \cup {i.uid : i \in messages}) + 1

\* _folder_uid_validity: one value for each folder of each profile, for good.
FolderUidValidity(m, folder) == <<m, folder>>

\* Mutant: the range stops before its end.
ParseSetShort(parts, numbers) ==
  LET top == Max({0} \cup numbers)
      Bound(n) == IF n = Star THEN top ELSE n
  IN  {x \in numbers : \E p \in parts : Bound(p[1]) <= x /\ x < Bound(p[2])}

(***************************************************************************)
(* _parse_uid_set and _parse_seq_set: the numbers of the selection that    *)
(* fall in a range.  A range written backwards is empty, as is every set   *)
(* of an empty folder.                                                     *)
(***************************************************************************)
ParseSet(parts, numbers) ==
  LET top == Max({0} \cup numbers)
      Bound(n) == IF n = Star THEN top ELSE n
  IN  {x \in numbers : \E p \in parts : Bound(p[1]) <= x /\ x <= Bound(p[2])}

(***************************************************************************)
(* _build_fetch_response: the parts of the response to a set of FETCH      *)
(* items.  Items are found as parts of the text, so that RFC822.SIZE also  *)
(* counts as RFC822 and brings the whole message, and BODYSTRUCTURE as     *)
(* BODY and brings the size.  Of several sections one is sent.             *)
(***************************************************************************)
FetchParts(want) ==
  LET rfc822  == want \cap {"RFC822", "RFC822.SIZE"} # {}
      section == want \cap Sections # {}
      body    == section \/ want \cap {"BODY", "BODYSTRUCTURE"} # {}
      chosen  == IF "BODY[]" \in want \/ rfc822 THEN {"BODY[]"}
                 ELSE IF "BODY[HEADER]" \in want THEN {"BODY[HEADER]"}
                 ELSE want \cap {"BODY[TEXT]"}
  IN  {"UID"} \cup chosen
      \cup (want \cap {"FLAGS", "ENVELOPE", "BODYSTRUCTURE"})
      \cup (IF rfc822 \/ body THEN {"RFC822.SIZE"} ELSE {})
      \cup (IF body /\ ~section THEN {"BODYSTRUCTURE"} ELSE {})

-----------------------------------------------------------------------------
(* The connections *)

Quiet == answer' = NoAnswer

Become(c, s) ==
  /\ conn' = [conn EXCEPT ![c] = s]
  /\ UNCHANGED <<profileVars, rowVars>>

Connect(c) ==
  /\ conn[c].state = "closed"
  /\ Become(c, [Closed EXCEPT !.state = "NOT_AUTH"])
  /\ Quiet
  /\ UNCHANGED <<view, told>>

\* Mutant: the state before the logout is not left.
CloseKeeping(c) ==
  /\ conn[c].state # "closed"
  /\ Become(c, [Closed EXCEPT !.state = "LOGOUT"])
  /\ view' = [view EXCEPT ![c] = NoView]
  /\ Quiet
  /\ UNCHANGED told

(***************************************************************************)
(* LOGOUT, a connection lost, a line too long, silence or 1800 seconds in  *)
(* all, and a range that is not made of numbers (it raises ValueError):    *)
(* the connection is closed.                                               *)
(***************************************************************************)
Close(c) ==
  /\ conn[c].state # "closed"
  /\ Become(c, Closed)
  /\ view' = [view EXCEPT ![c] = NoView]
  /\ Quiet
  /\ UNCHANGED told

Login(c) ==
  /\ conn[c].state = "NOT_AUTH"
  /\ \E m \in DOMAIN profile, password \in 1 .. requests :
       /\ AuthenticateProxyCredentials(profile[m], password)
       /\ Become(c, [conn[c] EXCEPT !.session = m, !.state = "AUTH"])
  /\ Quiet
  /\ UNCHANGED <<view, told>>

\* SELECT and EXAMINE: the list is read, and announced as EXISTS.
Select(c, folder) ==
  LET messages == SelectMailbox(conn[c].session, folder)
  IN  /\ conn[c].state \in {"AUTH", "SELECTED"}
      /\ Become(c, [conn[c] EXCEPT !.state = "SELECTED", !.folder = folder,
                                   !.messages = messages])
      /\ view' = [view EXCEPT ![c] = [exists |-> Cardinality(messages), seen |-> {}]]
      /\ Quiet
      /\ UNCHANGED told

\* Mutant: the folder asked about is the selected one from now on.
StatusSelecting(c, folder) ==
  LET messages == SelectMailbox(conn[c].session, folder)
  IN  /\ conn[c].state \in {"AUTH", "SELECTED"}
      /\ Become(c, [conn[c] EXCEPT !.messages = messages])
      /\ answer' = [NoAnswer EXCEPT !.kind = "STATUS", !.conn = c,
                                    !.exists = Cardinality(messages)]
      /\ UNCHANGED <<view, told>>

\* STATUS reads the folder anew, the selected one too, and keeps nothing.
Status(c, folder) ==
  LET messages == SelectMailbox(conn[c].session, folder)
  IN  /\ conn[c].state \in {"AUTH", "SELECTED"}
      /\ answer' = [NoAnswer EXCEPT !.kind = "STATUS", !.conn = c,
                                    !.exists = Cardinality(messages)]
      /\ UNCHANGED <<profileVars, rowVars, clientVars>>

CloseFolder(c) ==
  /\ conn[c].state = "SELECTED"
  /\ Become(c, [conn[c] EXCEPT !.state = "AUTH", !.folder = "none", !.messages = {}])
  /\ view' = [view EXCEPT ![c] = NoView]
  /\ Quiet
  /\ UNCHANGED told

\* The lines that tell the client of the messages S of its selection.
Lines(c, S) ==
  {[seq |-> SeqOf(conn[c].messages, i), uid |-> i.uid, id |-> i.id] : i \in S}

\* What a client remembers of such lines.
Remember(c, lines) ==
  /\ view' = [view EXCEPT ![c].seen = @ \cup lines]
  /\ told' = told \cup
       {[mailbox |-> conn[c].session, folder |-> conn[c].folder, uid |-> l.uid, id |-> l.id,
         validity |-> FolderUidValidity(conn[c].session, conn[c].folder)] : l \in lines}

\* The messages S of the selection are answered, with the parts asked for.
FetchBy(c, kind, parts, want, S) ==
  /\ conn[c].state = "SELECTED"
  /\ answer' = [kind |-> kind, conn |-> c, exists |-> 0, key |-> "none", asked |-> parts,
                want |-> want, got |-> Lines(c, S), parts |-> FetchParts(want)]
  /\ Remember(c, Lines(c, S))
  /\ UNCHANGED <<profileVars, rowVars, conn>>

\* FETCH: by position.
Fetch(c, parts, want) ==
  LET messages == conn[c].messages
      numbers  == ParseSet(parts, {SeqOf(messages, i) : i \in messages})
  IN  FetchBy(c, "FETCH", parts, want, {i \in messages : SeqOf(messages, i) \in numbers})

\* UID FETCH: by UID.
UidFetch(c, parts, want) ==
  LET messages == conn[c].messages
      uids     == ParseSet(parts, {i.uid : i \in messages})
  IN  FetchBy(c, "UID FETCH", parts, want, {i \in messages : i.uid \in uids})

(***************************************************************************)
(* What a client may search for: ALL (or nothing at all), a set of UIDs,   *)
(* or anything else: SEEN, UNSEEN, a set of sequence numbers, a date, two  *)
(* criteria at once.                                                       *)
(***************************************************************************)
Criteria == {<<"ALL", {}>>, <<"other", {}>>} \cup ({"UID"} \X Sets)

(***************************************************************************)
(* _apply_search: the messages whose UID is in a set; for every other      *)
(* criterion all of them, as for ALL.                                      *)
(***************************************************************************)
ApplySearch(criteria, messages) ==
  {i \in messages : criteria[1] = "UID" =>
                      i.uid \in ParseSet(criteria[2], {j.uid : j \in messages})}

\* by_uid for each of the messages S: the first of the folder with that UID.
FirstByUid(S, messages) ==
  {i \in messages : /\ \E j \in S : j.uid = i.uid
                    /\ \A j \in messages : j.uid = i.uid => i.id <= j.id}

\* The answer to a search, about the messages S.
SearchBy(c, kind, criteria, S) ==
  /\ conn[c].state = "SELECTED"
  /\ answer' = [NoAnswer EXCEPT !.kind = kind, !.conn = c, !.key = criteria[1],
                                !.asked = criteria[2], !.got = Lines(c, S)]
  /\ Remember(c, Lines(c, S))
  /\ UNCHANGED <<profileVars, rowVars, conn>>

\* SEARCH: answers by position, which it looks up by UID.
Search(c, criteria) ==
  LET messages == conn[c].messages
  IN  SearchBy(c, "SEARCH", criteria, FirstByUid(ApplySearch(criteria, messages), messages))

\* UID SEARCH
UidSearch(c, criteria) ==
  SearchBy(c, "UID SEARCH", criteria, ApplySearch(criteria, conn[c].messages))

-----------------------------------------------------------------------------
(* The synchronisations *)

\* The rows of m that a sync other than k has pending.
Beside(k, m) == {i \in UNION {pending[q] : q \in Sync \ {k}} : i.mailbox = m}

\* Mutant: the rows the sync has not committed yet are not counted.
NextMindwallUidCommitted(k, m) == UidNext({i \in items : i.mailbox = m})

\* Mutant: the UIDs of the inbox are numbered on their own.
NextMindwallUidOfInbox(k, m) ==
  UidNext({i \in items \cup pending[k] : i.mailbox = m /\ i.vis = "visible"})

\* _allocate_mindwall_uid: one more than the largest the session sees.
NextMindwallUid(k, m) == UidNext({i \in items \cup pending[k] : i.mailbox = m})

(***************************************************************************)
(* Sync k numbers a message of m and adds its row, with the visibility its *)
(* verdict gives or as one that could not be ingested, to those it has not *)
(* committed.  Nothing changes the visibility of a row later: neither a    *)
(* release nor another analysis does (update_item_visibility has no        *)
(* caller).                                                                *)
(***************************************************************************)
StoreItem(k, m, vis) ==
  LET row == [id |-> serial + 1, mailbox |-> m, uid |-> NextMindwallUid(k, m), vis |-> vis]
  IN  /\ m \in DOMAIN profile
      /\ \A i \in pending[k] : i.mailbox = m
      /\ serial < MaxItems
      /\ serial' = row.id
      /\ pending' = [pending EXCEPT ![k] = @ \cup {row}]
      /\ shared' = shared \cup
           {i.id : i \in IF Beside(k, m) = {} THEN {} ELSE {row} \cup Beside(k, m)}
      /\ Quiet
      /\ UNCHANGED <<profileVars, items, clientVars>>

\* The session commits: at its end, or before the next message (ingestion and
\* analysis commit it).
CommitItems(k) ==
  /\ pending[k] # {}
  /\ items' = items \cup pending[k]
  /\ pending' = [pending EXCEPT ![k] = {}]
  /\ Quiet
  /\ UNCHANGED <<profileVars, serial, shared, clientVars>>

\* The session ends in an error or the process dies.
RollBack(k) ==
  /\ pending[k] # {}
  /\ pending' = [pending EXCEPT ![k] = {}]
  /\ Quiet
  /\ UNCHANGED <<profileVars, items, serial, shared, clientVars>>

(***************************************************************************)
(* The handlers of the profiles.  A profile that is deleted takes its rows *)
(* with it; the deletion waits for rows that are not committed, whose      *)
(* foreign key holds the profile.                                          *)
(***************************************************************************)
Administer ==
  /\ ProfilesNext
  /\ \A k \in Sync : \A i \in pending[k] : i.mailbox \in DOMAIN profile'
  /\ items' = {i \in items : i.mailbox \in DOMAIN profile'}
  /\ Quiet
  /\ UNCHANGED <<pending, serial, shared, clientVars>>

Init ==
  /\ ProfilesInit
  /\ items = {}
  /\ pending = [k \in Sync |-> {}]
  /\ serial = 0
  /\ shared = {}
  /\ conn = [c \in Conn |-> Closed]
  /\ answer = NoAnswer
  /\ view = [c \in Conn |-> NoView]
  /\ told = {}

SyncedVisibility ==
  {VerdictToVisibility(v, SoftHold) : v \in Verdict} \cup {"ingestion_error"}

Next ==
  \/ Administer
  \/ \E k \in Sync :
       \/ \E m \in Mailbox, vis \in SyncedVisibility : StoreItem(k, m, vis)
       \/ CommitItems(k) \/ RollBack(k)
  \/ \E c \in Conn :
       \/ Connect(c) \/ Close(c) \/ Login(c) \/ CloseFolder(c)
       \/ \E f \in Folder : Select(c, f) \/ Status(c, f)
       \/ \E criteria \in Criteria : Search(c, criteria) \/ UidSearch(c, criteria)
       \/ \E parts \in Sets, want \in Wants : Fetch(c, parts, want) \/ UidFetch(c, parts, want)

Spec == Init /\ [][Next]_vars

-----------------------------------------------------------------------------
(* Properties *)

\* What the response to a set of FETCH items is to have in it.
Due(want) ==
  (want \ {"RFC822", "BODY"})
    \cup (IF "RFC822" \in want THEN {"BODY[]"} ELSE {})
    \cup (IF "BODY" \in want THEN {"BODYSTRUCTURE"} ELSE {})

\* The sections the server finds in such a set.
SectionsFound(want) ==
  (Due(want) \cap Sections) \cup (IF "RFC822.SIZE" \in want THEN {"BODY[]"} ELSE {})

OneSection(want) ==
  /\ Cardinality(SectionsFound(want)) <= 1
  /\ "BODY" \in want => want \cap Sections = {}

(***************************************************************************)
(* What is told as part of INBOX is a message whose verdict let it         *)
(* through, and a message that could not be ingested is told in no folder: *)
(* over all connections, however long their lists are kept and whatever    *)
(* has been synchronised, deleted or asked since.                          *)
(***************************************************************************)
FoldersKeptApart ==
  \A t \in told, i \in items : t.id = i.id =>
    /\ t.folder = "INBOX" => i.vis = "visible"
    /\ i.vis # "ingestion_error"

(***************************************************************************)
(* A client is told of the messages of the mailbox it logged in to and of  *)
(* no other's.                                                             *)
(***************************************************************************)
ServedToOwnerOnly ==
  \A t \in told, i \in items : t.id = i.id => t.mailbox = i.mailbox

(***************************************************************************)
(* While a folder is selected its sequence numbers keep their meaning: all *)
(* the client was told since SELECT fits the EXISTS it heard, and gives    *)
(* one message a number and one number a message, though messages arrive   *)
(* and other folders are asked about meanwhile.                            *)
(***************************************************************************)
SequenceNumbersKeep ==
  \A c \in Conn : /\ \A l \in view[c].seen : l.seq \in 1 .. view[c].exists
                  /\ \A k, l \in view[c].seen : (k.seq = l.seq) <=> (k.id = l.id)

(***************************************************************************)
(* While the UIDVALIDITY of a folder is the same a UID names one message,  *)
(* over all connections, selections and syncs; only syncs that had rows    *)
(* pending at the same time may have given one UID to two.                 *)
(***************************************************************************)
UidNamesOneMessage ==
  \A s, t \in told :
    s.validity = t.validity /\ s.uid = t.uid => s.id = t.id \/ {s.id, t.id} \subseteq shared

UidsDiffer(messages) == \A i, j \in messages : i.uid = j.uid => i = j

\* The answer a to a request about the list messages of a selection.
RightAnswer(a, messages) ==
  LET Number(i) == IF a.kind = "FETCH" THEN SeqOf(messages, i) ELSE i.uid
      Top == Max({Number(i) : i \in messages})
      End(n) == IF n = Star THEN Top ELSE n
      Ordered == \A p \in a.asked : End(p[1]) <= End(p[2])
      Asked == {i \in messages :
                  a.key = "ALL" \/ \E p \in a.asked : Number(i) \in End(p[1]) .. End(p[2])}
      Exact == /\ messages # {} /\ Ordered
               /\ a.key # "other"
               /\ a.kind = "SEARCH" => UidsDiffer(messages)
  IN  /\ Exact => {l.id : l \in a.got} = {i.id : i \in Asked}
      /\ OneSection(a.want) => Due(a.want) \subseteq a.parts

(***************************************************************************)
(* What a FETCH or a search answers is what was asked for.  ALL is all the *)
(* selection has, and of a set whose ranges are in order the answer names  *)
(* exactly the messages in them, by position or by UID; and the response   *)
(* to a FETCH has every item of the request, unless this asks for more     *)
(* than one section of the body (as RFC822.SIZE does too), or for BODY     *)
(* beside a section.  Of a SEARCH by position this holds where no two      *)
(* messages share a UID.  It says nothing of other search criteria: SEEN,  *)
(* UNSEEN and sets of sequence numbers, which docs/imap-proxy.md:61 lists  *)
(* as supported, are answered with all messages (ApplySearch).             *)
(***************************************************************************)
AnswersWhatWasAsked ==
  answer.kind \in {"FETCH", "UID FETCH", "SEARCH", "UID SEARCH"} =>
    RightAnswer(answer, conn[answer.conn].messages)

(***************************************************************************)
(* A message that is committed late does not slip in below what clients    *)
(* know: its UID is above every UID they were told in its mailbox, in      *)
(* either folder, so that a client that asks for what is above its highest *)
(* UID misses none.  Only of two messages whose syncs had rows pending at  *)
(* the same time the later one may be the lower one.                       *)
(***************************************************************************)
LaterUidsAreHigher ==
  [][\A i \in items' \ items, t \in told :
       t.mailbox = i.mailbox => t.uid < i.uid \/ {t.id, i.id} \subseteq shared]_vars
=============================================================================
