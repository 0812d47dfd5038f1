------------------------------ MODULE MailboxSync ------------------------------
(***************************************************************************)
(* The synchronisation of one upstream IMAP folder:                        *)
(* sync_mailbox_folder of app/mailboxes/sync_service.py with the           *)
(* ingestion, the analysis and the auto-quarantine it calls, on the tables *)
(* of app/mailboxes/sync_models.py and the client of                       *)
(* app/proxies/imap/client.py.                                             *)
(*                                                                         *)
(* A sync runs in one database session.  It works on a copy of the state   *)
(* row (never refreshed: expire_on_commit is off) and on uncommitted       *)
(* mailbox items.  The ingestion and the analysis it calls COMMIT the      *)
(* session, so a message, its analysis and its item are three separate     *)
(* transactions, and the checkpoint is written by a last one.  Nothing     *)
(* keeps two syncs of a folder apart except the row lock the database      *)
(* takes from the UPDATE of the state row to the next commit, and the      *)
(* unique key (profile, folder, upstream UID) of the items.  An error of   *)
(* the database poisons the session: the run ends and what it had not      *)
(* committed is gone.                                                      *)
(*                                                                         *)
(* Next to the syncs an administrator analyses stored messages again (the  *)
(* route /messages/{id}/analyze) and releases quarantined ones: neither    *)
(* touches the mailbox items.                                              *)
(*                                                                         *)
(* A definition whose comment starts with "Mutant" is not part of the      *)
(* model: it is the one after it with a plausible bug, and the properties  *)
(* are tested against it.                                                  *)
(***************************************************************************)
EXTENDS PolicyVerdict, FiniteSetsExt, Sequences

CONSTANTS
  Run,              \* sync handlers; each runs one sync at a time
  BatchSize,        \* the setting imap_sync_batch_size
  SoftHold,         \* the setting quarantine_soft_hold
  AnalysisVerdict,  \* the verdicts an analysis may return
  MaxUid,           \* bound: upstream UIDs
  MaxEpoch,         \* bound: values of UIDVALIDITY
  MaxExpunged,      \* bound: upstream messages deleted in an epoch
  MaxSyncs,         \* bound: syncs triggered
  MaxCrashes,       \* bound: syncs that die between two steps
  MaxAdmin          \* bound: messages re-analysed or released, each once

ASSUME SyncConstants ==
  /\ BatchSize \in Nat \ {0}
  /\ SoftHold \in BOOLEAN
  /\ AnalysisVerdict \subseteq Verdict
  /\ MaxUid \in Nat /\ MaxEpoch \in Nat \ {0} /\ MaxExpunged \in Nat
  /\ MaxSyncs \in Nat /\ MaxCrashes \in Nat /\ MaxAdmin \in Nat

VARIABLES
  folder,    \* the upstream folder: its UIDVALIDITY, its UIDs, the next UID
  state,     \* mailbox_sync_states: the committed row of the folder
  items,     \* mailbox_items: the committed rows of the folder
  messages,  \* messages, by id: where each came from and its last verdict
  review,    \* quarantine_items: the ids of the messages that have one
  sync,      \* what each handler is doing, and its session
  syncs,     \* syncs triggered so far
  crashes,   \* syncs that died so far
  again,     \* ids of the messages an administrator has analysed again
  released,  \* ids of the messages an analyst has released
  raced,     \* history: running syncs that had another one beside them
  shared     \* history: items such a sync has committed

syncVars == <<folder, state, items, messages, review, sync, syncs, crashes>>
adminVars == <<again, released>>
vars == <<folder, state, items, messages, review, sync, syncs, crashes,
          again, released, raced, shared>>

SyncStatus == {"idle", "syncing", "error", "partial"}
Columns == {"status", "seen", "validity"}

\* status is "none" while there is no row; seen (last_seen_uid) and validity
\* (uid_validity) are 0 while they are null.
StateRow == [status : SyncStatus \cup {"none"}, seen : Nat, validity : Nat]

\* msg is 0 in an item whose message could not be ingested.
Item == [uid : Nat, epoch : Nat, mwuid : Nat, vis : Visibility, msg : Nat]

Message == [uid : Nat, epoch : Nat, verdict : Verdict \cup {"none"}]

NoItem == [uid |-> 0, epoch |-> 0, mwuid |-> 0, vis |-> "ingestion_error", msg |-> 0]

Session ==
  [pc     : {"idle", "load", "select", "scan", "fetch", "analyse",
             "quarantine", "allocate", "store"},
   row    : StateRow,         \* the session's copy of the state row
   dirty  : SUBSET Columns,   \* the columns its next commit writes
   locks  : BOOLEAN,          \* it has updated the row and not committed yet
   added  : SUBSET Item,      \* flushed, not committed
   todo   : SUBSET Nat,       \* new_uids not processed yet
   last   : Nat,              \* last_seen
   high   : Nat,              \* highest_uid_synced
   stored : BOOLEAN,          \* result.new_messages > 0
   failed : BOOLEAN,          \* result.errors > 0
   item   : Item]             \* the item under construction

NoRow == [status |-> "none", seen |-> 0, validity |-> 0]

Idle == [pc |-> "idle", row |-> NoRow, dirty |-> {}, locks |-> FALSE,
         added |-> {}, todo |-> {}, last |-> 0, high |-> 0,
         stored |-> FALSE, failed |-> FALSE, item |-> NoItem]

TypeOK ==
  /\ folder \in [epoch : Nat, uids : SUBSET Nat, next : Nat]
  /\ state \in StateRow
  /\ items \subseteq Item
  /\ messages \in Seq(Message)
  /\ review \subseteq Nat
  /\ sync \in [Run -> Session]
  /\ syncs \in Nat
  /\ crashes \in Nat
  /\ released \subseteq review
  /\ again \subseteq DOMAIN messages
  /\ raced \subseteq Run
  /\ shared \subseteq items

Init ==
  /\ folder = [epoch |-> 1, uids |-> {}, next |-> 1]
  /\ state = NoRow
  /\ items = {}
  /\ messages = <<>>
  /\ review = {}
  /\ sync = [r \in Run |-> Idle]
  /\ syncs = 0
  /\ crashes = 0
  /\ again = {} /\ released = {}
  /\ raced = {} /\ shared = {}

-------------------------------------------------------------------------------
(* The upstream folder *)

Unchanged == UNCHANGED <<state, items, messages, review, sync, syncs, crashes>>

Deliver ==
  /\ folder.next <= MaxUid
  /\ folder' = [folder EXCEPT !.uids = @ \cup {folder.next}, !.next = @ + 1]
  /\ Unchanged

Expunge(u) ==
  /\ u \in folder.uids
  /\ folder.next - 1 - Cardinality(folder.uids) < MaxExpunged
  /\ folder' = [folder EXCEPT !.uids = @ \ {u}]
  /\ Unchanged

\* The server starts a new UIDVALIDITY: its messages are numbered again.
Renumber ==
  /\ folder.epoch < MaxEpoch
  /\ folder' = [epoch |-> folder.epoch + 1,
                uids  |-> 1 .. Cardinality(folder.uids),
                next  |-> Cardinality(folder.uids) + 1]
  /\ Unchanged

\* The message sequence number of UID u.
SequenceNumber(u) == Cardinality({v \in folder.uids : v <= u})

(***************************************************************************)
(* What the server answers to UID SEARCH n:*.  Without the search key UID, *)
(* n:* is a set of message SEQUENCE NUMBERS; the star is the last one, and *)
(* the range may be given in either order.                                 *)
(***************************************************************************)
SearchFrom(n) ==
  {u \in folder.uids :
     SequenceNumber(u) >= Min({n, Cardinality(folder.uids)})}

-------------------------------------------------------------------------------
(* The database session *)

\* The handler's session assigns a new value to its copy of the row.
Assign(s, row) ==
  [s EXCEPT !.row = row, !.dirty = @ \cup {c \in Columns : row[c] # s.row[c]}]

\* The row after the session s commits: only its dirty columns are written.
Written(s) ==
  [status   |-> IF "status" \in s.dirty THEN s.row.status ELSE state.status,
   seen     |-> IF "seen" \in s.dirty THEN s.row.seen ELSE state.seen,
   validity |-> IF "validity" \in s.dirty THEN s.row.validity ELSE state.validity]

\* Session s commits its changes of the row and the items it has added.
Commit(s) ==
  /\ state' = Written(s)
  /\ items' = items \cup s.added

Committed(s) == [s EXCEPT !.dirty = {}, !.locks = FALSE, !.added = {}]

\* The items a handler's own queries see.
Sees(r) == items \cup sync[r].added

LockFree(r) == \A q \in Run \ {r} : ~sync[q].locks

\* Another session has an uncommitted item for this UID.
Contended(r, uid) ==
  \E q \in Run \ {r} : \E i \in sync[q].added : i.uid = uid

Continue(r, s) == sync' = [sync EXCEPT ![r] = s]

\* The handler returns, or its session is rolled back.
End(r) == Continue(r, Idle)

-------------------------------------------------------------------------------
(* Before the messages *)

\* trigger_mailbox_sync; get_sync_state reads the row, or finds none.
LoadState(r) ==
  /\ sync[r].pc = "idle"
  /\ syncs < MaxSyncs
  /\ syncs' = syncs + 1
  /\ Continue(r, [Idle EXCEPT !.pc = "load", !.row = state])
  /\ UNCHANGED <<folder, state, items, messages, review, crashes>>

\* The first flush: the row is inserted, or updated and locked.
MarkSyncing(r) ==
  LET s == sync[r] IN
  /\ s.pc = "load"
  /\ LockFree(r)
  /\ s.row.status = "none" => state.status = "none"
  /\ Continue(r, [Assign(s, [s.row EXCEPT !.status = "syncing"])
                    EXCEPT !.pc = "select", !.locks = TRUE])
  /\ UNCHANGED <<folder, state, items, messages, review, syncs, crashes>>

\* _abort_sync: the password, the connection, SELECT or SEARCH failed.
AbortSync(r) ==
  /\ sync[r].pc = "select"
  /\ Commit(Assign(sync[r], [sync[r].row EXCEPT !.status = "error"]))
  /\ End(r)
  /\ UNCHANGED <<folder, messages, review, syncs, crashes>>

\* all_uids[-batch_size:] and new_uids[:batch_size]
Newest(uids) == {u \in uids : Cardinality({v \in uids : v > u}) < BatchSize}
Oldest(uids) == {u \in uids : Cardinality({v \in uids : v < u}) < BatchSize}

(***************************************************************************)
(* SELECT, the comparison of UIDVALIDITY and the list of UIDs to process:  *)
(* the newest ones when nothing was seen, else the oldest above the        *)
(* checkpoint.  A SEARCH that is not answered OK counts as an empty one.   *)
(***************************************************************************)
SelectFolder(r) ==
  LET s == sync[r]
      reset == s.row.validity \notin {0, folder.epoch}
      last == IF reset THEN 0 ELSE s.row.seen
      listed == IF last = 0
                THEN Newest(folder.uids)
                ELSE Oldest({u \in SearchFrom(last + 1) : u > last})
  IN
  /\ s.pc = "select"
  /\ \E uids \in {listed, {}} :
       Continue(r, [Assign(s, [s.row EXCEPT !.seen = last,
                                            !.validity = folder.epoch])
                      EXCEPT !.pc = "scan", !.todo = uids,
                             !.last = last, !.high = last])
  /\ UNCHANGED <<folder, state, items, messages, review, syncs, crashes>>

-------------------------------------------------------------------------------
(* One message *)

Mapped(r, uid) == \E i \in Sees(r) : i.uid = uid

\* _uid_already_mapped: by UID alone, of whatever UIDVALIDITY.
SkipMapped(r) ==
  LET s == sync[r]
      uid == Min(s.todo)
  IN
  /\ s.pc = "scan" /\ s.todo # {}
  /\ Mapped(r, uid)
  /\ Continue(r, [s EXCEPT !.todo = @ \ {uid}, !.high = Max({@, uid})])
  /\ UNCHANGED <<folder, state, items, messages, review, syncs, crashes>>

\* Mutant: the record of the message before is reused.
StartMessageReuses(r) ==
  LET s == sync[r]
      uid == Min(s.todo)
  IN
  /\ s.pc = "scan" /\ s.todo # {}
  /\ ~Mapped(r, uid)
  /\ Continue(r, [s EXCEPT !.pc = "fetch", !.item.uid = uid,
                           !.item.epoch = s.row.validity])
  /\ UNCHANGED <<folder, state, items, messages, review, syncs, crashes>>

StartMessage(r) ==
  LET s == sync[r]
      uid == Min(s.todo)
  IN
  /\ s.pc = "scan" /\ s.todo # {}
  /\ ~Mapped(r, uid)
  /\ Continue(r, [s EXCEPT !.pc = "fetch",
                           !.item = [NoItem EXCEPT !.uid = uid,
                                                   !.epoch = s.row.validity]])
  /\ UNCHANGED <<folder, state, items, messages, review, syncs, crashes>>

\* Mutant: the failed message is not recorded, as if an error were no item.
MessageFailsUnrecorded(r) ==
  /\ sync[r].pc = "fetch"
  /\ Continue(r, [sync[r] EXCEPT !.pc = "scan", !.failed = TRUE,
                                 !.todo = @ \ {sync[r].item.uid}])
  /\ UNCHANGED <<folder, state, items, messages, review, syncs, crashes>>

\* The FETCH fails, or the ingestion does before it commits: the item is
\* recorded without a message (_record_failed_item).
MessageFails(r) ==
  /\ sync[r].pc = "fetch"
  /\ Continue(r, [sync[r] EXCEPT !.pc = "allocate"])
  /\ UNCHANGED <<folder, state, items, messages, review, syncs, crashes>>

\* Mutant: the commit of the message carries the checkpoint.
IngestCheckpoints(r) ==
  LET s == sync[r] IN
  /\ s.pc = "fetch"
  /\ s.row.validity = folder.epoch /\ s.item.uid \in folder.uids
  /\ messages' = Append(messages, [uid |-> s.item.uid, epoch |-> folder.epoch,
                                   verdict |-> "none"])
  /\ Commit(Assign(s, [s.row EXCEPT !.seen = s.item.uid]))
  /\ Continue(r, [Committed(s) EXCEPT !.pc = "analyse",
                                      !.item.msg = Len(messages) + 1])
  /\ UNCHANGED <<folder, review, syncs, crashes>>

\* ingest_raw_message: store the message and commit the session.
Ingest(r) ==
  LET s == sync[r] IN
  /\ s.pc = "fetch"
  /\ s.row.validity = folder.epoch /\ s.item.uid \in folder.uids
  /\ messages' = Append(messages, [uid |-> s.item.uid, epoch |-> folder.epoch,
                                   verdict |-> "none"])
  /\ Commit(s)
  /\ Continue(r, [Committed(s) EXCEPT !.pc = "analyse",
                                      !.item.msg = Len(messages) + 1])
  /\ UNCHANGED <<folder, review, syncs, crashes>>

(***************************************************************************)
(* run_analysis raises before it persists a run, and the message is let    *)
(* through with the verdict allow.                                         *)
(***************************************************************************)
AnalysisFails(r) ==
  /\ sync[r].pc = "analyse"
  /\ Continue(r, [sync[r] EXCEPT
                    !.pc = "allocate",
                    !.item.vis = VerdictToVisibility("allow", SoftHold)])
  /\ UNCHANGED <<folder, state, items, messages, review, syncs, crashes>>

\* Mutant: the visibility does not wait for the verdict.
AnalyseVerdictLost(r, verdict) ==
  LET s == sync[r] IN
  /\ s.pc = "analyse"
  /\ messages' = [messages EXCEPT ![s.item.msg].verdict = verdict]
  /\ Continue(r, [s EXCEPT
                    !.pc = IF ShouldQuarantine(verdict, SoftHold)
                           THEN "quarantine" ELSE "allocate",
                    !.item.vis = VerdictToVisibility("allow", SoftHold)])
  /\ UNCHANGED <<folder, state, items, review, syncs, crashes>>

\* run_analysis up to the commit of the AnalysisRun.
Analyse(r, verdict) ==
  LET s == sync[r] IN
  /\ s.pc = "analyse"
  /\ messages' = [messages EXCEPT ![s.item.msg].verdict = verdict]
  /\ Continue(r, [s EXCEPT
                    !.pc = IF ShouldQuarantine(verdict, SoftHold)
                           THEN "quarantine" ELSE "allocate",
                    !.item.vis = VerdictToVisibility(verdict, SoftHold)])
  /\ UNCHANGED <<folder, state, items, review, syncs, crashes>>

\* Mutant: the quarantine item is refused and the error only logged.
QuarantineSwallowed(r) ==
  /\ sync[r].pc = "quarantine"
  /\ Continue(r, [sync[r] EXCEPT !.pc = "allocate"])
  /\ UNCHANGED <<folder, state, items, messages, review, syncs, crashes>>

\* The auto-quarantine step of run_analysis and its commit.
Quarantine(r) ==
  /\ sync[r].pc = "quarantine"
  /\ review' = review \cup {sync[r].item.msg}
  /\ Continue(r, [sync[r] EXCEPT !.pc = "allocate"])
  /\ UNCHANGED <<folder, state, items, messages, syncs, crashes>>

\* Mutant: only committed items are counted.
AllocateUidCommitted(r) ==
  LET highest == Max({0} \cup {i.mwuid : i \in items}) IN
  /\ sync[r].pc = "allocate"
  /\ Continue(r, [sync[r] EXCEPT !.pc = "store", !.item.mwuid = highest + 1])
  /\ UNCHANGED <<folder, state, items, messages, review, syncs, crashes>>

\* Mutant: items without a message are not counted.
AllocateUidIngested(r) ==
  LET highest == Max({0} \cup {i.mwuid : i \in {j \in Sees(r) : j.msg # 0}}) IN
  /\ sync[r].pc = "allocate"
  /\ Continue(r, [sync[r] EXCEPT !.pc = "store", !.item.mwuid = highest + 1])
  /\ UNCHANGED <<folder, state, items, messages, review, syncs, crashes>>

\* _allocate_mindwall_uid: one more than the largest this session sees.
AllocateUid(r) ==
  LET highest == Max({0} \cup {i.mwuid : i \in Sees(r)}) IN
  /\ sync[r].pc = "allocate"
  /\ Continue(r, [sync[r] EXCEPT !.pc = "store", !.item.mwuid = highest + 1])
  /\ UNCHANGED <<folder, state, items, messages, review, syncs, crashes>>

\* Add the item and flush it; the unique key makes the flush wait for a
\* session that has an uncommitted item for the same UID.
StoreItem(r) ==
  LET s == sync[r]
      uid == s.item.uid
      ingested == s.item.msg # 0
  IN
  /\ s.pc = "store"
  /\ ~Contended(r, uid) /\ ~Mapped(r, uid)
  /\ Continue(r, [s EXCEPT !.pc = "scan",
                           !.todo = @ \ {uid},
                           !.added = @ \cup {s.item},
                           !.stored = @ \/ ingested,
                           !.failed = @ \/ ~ingested,
                           !.high = IF ingested THEN Max({@, uid}) ELSE @])
  /\ UNCHANGED <<folder, state, items, messages, review, syncs, crashes>>

-------------------------------------------------------------------------------
(* After the messages *)

\* Mutant: a status the column does not have.
OutcomeSuccess(s) == IF s.failed THEN "error" ELSE "success"

Outcome(s) ==
  CASE s.failed /\ ~s.stored -> "error"
    [] s.failed /\ s.stored  -> "partial"
    [] ~s.failed             -> "idle"

\* Mutant: the last UID processed is the checkpoint.
FinishLastUid(r) ==
  LET s == sync[r] IN
  /\ s.pc = "scan" /\ s.todo = {}
  /\ LockFree(r)
  /\ Commit(Assign(s, [s.row EXCEPT !.seen = s.item.uid,
                                    !.status = Outcome(s)]))
  /\ End(r)
  /\ UNCHANGED <<folder, messages, review, syncs, crashes>>

\* Checkpoint, status and last commit.
Finish(r) ==
  LET s == sync[r] IN
  /\ s.pc = "scan" /\ s.todo = {}
  /\ LockFree(r)
  /\ Commit(Assign(s, [s.row EXCEPT
                         !.seen = IF s.high > s.last THEN s.high ELSE @,
                         !.status = Outcome(s)]))
  /\ End(r)
  /\ UNCHANGED <<folder, messages, review, syncs, crashes>>

-------------------------------------------------------------------------------
(* Failures *)

AwaitsRow(r) ==
  \/ sync[r].pc = "load"
  \/ sync[r].pc = "scan" /\ sync[r].todo = {}

AwaitsUid(r, q) ==
  sync[r].pc = "store" /\ \E i \in sync[q].added : i.uid = sync[r].item.uid

WaitsFor(r, q) ==
  q # r /\ (AwaitsUid(r, q) \/ (AwaitsRow(r) /\ sync[q].locks))

\* r is on a cycle of waits: in S each waits for one and is waited for.  (A
\* handler waits for one other at most, so such an S is made of cycles.)
Deadlocked(r) ==
  \E S \in SUBSET Run :
    /\ r \in S
    /\ \A p \in S : /\ \E q \in S : WaitsFor(p, q)
                    /\ \E q \in S : WaitsFor(q, p)

\* Mutant: the database does not look for deadlocks.
DatabaseErrorConflict(r) ==
  /\ \/ /\ sync[r].pc = "load" /\ LockFree(r)
        /\ sync[r].row.status = "none" /\ state.status # "none"
     \/ sync[r].pc = "store" /\ Mapped(r, sync[r].item.uid)
  /\ End(r)
  /\ UNCHANGED <<folder, state, items, messages, review, syncs, crashes>>

(***************************************************************************)
(* A unique key is violated (the state row or the item was inserted by     *)
(* another sync meanwhile), or the database breaks a deadlock by failing   *)
(* one of its victims.  Whatever the handler does next with the session    *)
(* raises too, the run ends and its transaction is rolled back.            *)
(***************************************************************************)
DatabaseError(r) ==
  /\ \/ /\ sync[r].pc = "load" /\ LockFree(r)
        /\ sync[r].row.status = "none" /\ state.status # "none"
     \/ sync[r].pc = "store" /\ Mapped(r, sync[r].item.uid)
     \/ Deadlocked(r)
  /\ End(r)
  /\ UNCHANGED <<folder, state, items, messages, review, syncs, crashes>>

\* The process dies, or the database drops the connection.
Crash(r) ==
  /\ sync[r].pc # "idle"
  /\ crashes < MaxCrashes
  /\ crashes' = crashes + 1
  /\ End(r)
  /\ UNCHANGED <<folder, state, items, messages, review, syncs>>

-------------------------------------------------------------------------------
(* The administrator *)

Administered == Cardinality(again) + Cardinality(released)

(***************************************************************************)
(* analyze_message of app/messages/router.py: run_analysis on a stored     *)
(* message.  The verdict of the latest run counts; the quarantine item is  *)
(* a second commit, which a failure may prevent (no sync reads it, so that *)
(* both are one step); the mailbox item is left alone.                     *)
(***************************************************************************)
Reanalyse(m, verdict) ==
  /\ m \notin again /\ Administered < MaxAdmin
  /\ messages' = [messages EXCEPT ![m].verdict = verdict]
  /\ review' \in IF ShouldQuarantine(verdict, SoftHold)
                 THEN {review, review \cup {m}} ELSE {review}
  /\ again' = again \cup {m}
  /\ UNCHANGED <<folder, state, items, sync, syncs, crashes, released>>

\* apply_action with "release": the status of the review item, and no more.
Release(m) ==
  /\ m \in review \ released /\ Administered < MaxAdmin
  /\ released' = released \cup {m}
  /\ UNCHANGED <<syncVars, again>>

Administer ==
  \/ \E m \in DOMAIN messages, v \in AnalysisVerdict : Reanalyse(m, v)
  \/ \E m \in review : Release(m)

-------------------------------------------------------------------------------
Upstream == Deliver \/ Renumber \/ \E u \in folder.uids : Expunge(u)

\* What a sync does by itself once it was triggered.
Step(r) ==
  \/ MarkSyncing(r) \/ AbortSync(r) \/ SelectFolder(r)
  \/ SkipMapped(r) \/ StartMessage(r) \/ MessageFails(r) \/ Ingest(r)
  \/ AnalysisFails(r) \/ (\E v \in AnalysisVerdict : Analyse(r, v))
  \/ Quarantine(r) \/ AllocateUid(r) \/ StoreItem(r)
  \/ Finish(r) \/ DatabaseError(r)

Syncing == \E r \in Run : LoadState(r) \/ Step(r) \/ Crash(r)

(***************************************************************************)
(* History, which no code keeps: a sync is raced from the moment another   *)
(* one of the folder is under way beside it until its own end.             *)
(***************************************************************************)
Recall ==
  /\ raced' = {r \in Run : /\ sync'[r].pc # "idle"
                           /\ r \in raced \/ \E q \in Run \ {r} : sync'[q].pc # "idle"}
  /\ shared' = shared \cup {i \in items' \ items : \E r \in raced : i \in sync[r].added}

Next ==
  /\ \/ (Upstream \/ Syncing) /\ UNCHANGED adminVars
     \/ Administer
  /\ Recall

Spec == Init /\ [][Next]_vars

\* IMAP calls have a timeout and the database answers: a sync goes on.
\* Nobody has to trigger one, and nothing has to arrive upstream.
FairSpec == Spec /\ \A r \in Run : WF_syncVars(Step(r))

-------------------------------------------------------------------------------
(* Properties *)

(***************************************************************************)
(* An item the virtual inbox shows as quarantined can be reviewed: its     *)
(* message has a quarantine item.  The two are written by different        *)
(* transactions, in different calls, and a crash or a database error may   *)
(* fall between them (run_analysis, sync_mailbox_folder).                  *)
(***************************************************************************)
QuarantinedHasReviewItem ==
  \A i \in items : i.vis = "quarantined" => i.msg \in review

(***************************************************************************)
(* What the inbox does with a message agrees with the verdict stored for   *)
(* it (_verdict_to_visibility), unless an administrator has analysed or    *)
(* released it since, which changes no item; a message that was not        *)
(* analysed counts as allowed, one that was not ingested is an error.      *)
(***************************************************************************)
VisibilityMatchesVerdict ==
  \A i \in items : i.msg \notin again \cup released =>
    i.vis = IF i.msg = 0 THEN "ingestion_error"
            ELSE LET verdict == messages[i.msg].verdict
                 IN VerdictToVisibility(IF verdict = "none" THEN "allow"
                                        ELSE verdict, SoftHold)

(***************************************************************************)
(* An item maps its upstream UID to the message fetched under that UID and *)
(* that UIDVALIDITY, whatever failed before or ran beside it.              *)
(***************************************************************************)
ItemMapsItsMessage ==
  \A i \in items : i.msg # 0 =>
    /\ i.msg \in DOMAIN messages
    /\ messages[i.msg].uid = i.uid
    /\ messages[i.msg].epoch = i.epoch

\* The checkpoint never runs ahead of the mapping: the UID it names has an
\* item, also when the sync that stored it died or lost a race.
CheckpointBacked ==
  state.seen # 0 => \E i \in items : i.uid = state.seen

\* A sync that was triggered ends, whatever the other one locks.
RunEnds == \A r \in Run : sync[r].pc # "idle" ~> sync[r].pc = "idle"

(***************************************************************************)
(* Where the checkpoint advances it passes over no message: each UID of    *)
(* the folder up to the new checkpoint has an item ("UIDs greater than     *)
(* this are fetched on the next sync run", MailboxSyncState.last_seen_uid) *)
(***************************************************************************)
NothingPassedOver ==
  [][0 < state.seen /\ state.validity = folder.epoch
       /\ state'.validity = state.validity =>
       \A u \in folder.uids :
         state.seen < u /\ u <= state'.seen => \E i \in items' : i.uid = u]_vars

\* This step is one of a sync that had another one beside it.
OfRacedSync == \E r \in raced : sync'[r] # sync[r]

(***************************************************************************)
(* A checkpoint that advances passes over a message only where the SEARCH  *)
(* mistakes the UID for a sequence number, that is, if the message stands  *)
(* among as many first ones of the folder as the old checkpoint says; or   *)
(* if two syncs overlapped.  No failure, no batch limit and no change of   *)
(* UIDVALIDITY makes it pass over any other.                               *)
(***************************************************************************)
PassedOverByPosition ==
  [][0 < state.seen /\ state.validity = folder.epoch
       /\ state'.validity = state.validity /\ ~OfRacedSync =>
       \A u \in folder.uids :
         state.seen < u /\ u <= state'.seen =>
           SequenceNumber(u) <= state.seen \/ \E i \in items' : i.uid = u]_vars

(***************************************************************************)
(* mindwall_uid is a key of the virtual inbox: two items share one only if *)
(* each was stored by a sync that had another one beside it, for such      *)
(* syncs read the same maximum (_allocate_mindwall_uid).                   *)
(***************************************************************************)
UniqueMindwallUid ==
  \A i, j \in items : i.mwuid = j.mwuid /\ i # j => {i, j} \subseteq shared

(***************************************************************************)
(* It also only grows: what a step adds gets numbers above those in use,   *)
(* so that a client that has seen the inbox finds the rest above it; the   *)
(* items of overlapping syncs excepted, when both were stored by such.     *)
(***************************************************************************)
MindwallUidsAscend ==
  [][\A i \in items, j \in items' \ items :
       i.mwuid < j.mwuid \/ {i, j} \subseteq shared']_vars

(***************************************************************************)
(* The checkpoint only goes back when UIDVALIDITY has changed, or when the *)
(* sync that writes it had another one beside it: the comparison with the  *)
(* checkpoint read at its start is stale in no other case.                 *)
(***************************************************************************)
CheckpointNeverRegresses ==
  [][state'.seen < state.seen /\ state'.validity = state.validity => OfRacedSync]_vars

(***************************************************************************)
(* After a change of UIDVALIDITY the folder is read again from the start:  *)
(* a checkpoint was reached by messages of the UIDVALIDITY it is stored    *)
(* with.                                                                   *)
(***************************************************************************)
CheckpointOfItsEpoch ==
  state.seen # 0 =>
    \E i \in items : i.uid = state.seen /\ i.epoch = state.validity

\* A message is shown in the inbox only once an analysis has cleared it.
AnalysedBeforeVisible ==
  \A i \in items : i.vis = "visible" => messages[i.msg].verdict # "none"
================================================================================
