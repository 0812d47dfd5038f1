--------------------------- MODULE MailboxSyncProofs ---------------------------
(***************************************************************************)
(* Proofs about MailboxSync, for any set of sync handlers, any batch size  *)
(* and any bound: an item maps the message fetched for it, shows what its  *)
(* verdict says, and can be reviewed when it is quarantined, although      *)
(* message, analysis, review item and mailbox item are committed apart;    *)
(* and every sync comes to an end, and syncs that wait for each other do   *)
(* not wait for ever.                                                      *)
(***************************************************************************)
EXTENDS MailboxSync, NumberFacts, SequenceTheorems, FiniteSetTheorems, TLAPS

-------------------------------------------------------------------------------
(* Types *)

\* The types of what the syncs and the folder change.
SyncTypes ==
  /\ folder \in [epoch : Nat, uids : SUBSET Nat, next : Nat]
  /\ state \in StateRow
  /\ items \subseteq Item
  /\ messages \in Seq(Message)
  /\ review \subseteq Nat
  /\ sync \in [Run -> Session]
  /\ syncs \in Nat
  /\ crashes \in Nat

\* The Mindwall UIDs of a set of items have a largest one.
Bounded(S) == \E n \in Nat : \A i \in S : i.mwuid <= n

TInv ==
  /\ SyncTypes
  /\ IsFiniteSet(folder.uids)
  /\ Bounded(items)
  /\ \A r \in Run : Bounded(sync[r].added)

LEMMA BoundedUnion ==
  ASSUME NEW S \in SUBSET Item, NEW T \in SUBSET Item, Bounded(S), Bounded(T)
  PROVE  Bounded(S \cup T)
<1>1. PICK n \in Nat : \A i \in S : i.mwuid <= n
  BY DEF Bounded
<1>2. PICK k \in Nat : \A i \in T : i.mwuid <= k
  BY DEF Bounded
<1>3. \A i \in S \cup T : i.mwuid \in Nat /\ i.mwuid <= n + k
  BY <1>1, <1>2 DEF Item
<1> QED BY <1>3 DEF Bounded

LEMMA BoundedEmpty == Bounded({})
<1>1. 0 \in Nat /\ \A i \in {} : i.mwuid <= 0
  OBVIOUS
<1> QED BY <1>1 DEF Bounded

LEMMA IdleSession == Idle \in Session /\ Idle.added = {}
BY DEF Idle, Session, StateRow, NoRow, NoItem, Item, Visibility

LEMMA InitType == Init => TInv
<1> SUFFICES ASSUME Init PROVE TInv
  OBVIOUS
<1>1. SyncTypes
  BY IdleSession DEF Init, SyncTypes, NoRow, StateRow, SyncStatus
<1>2. IsFiniteSet(folder.uids)
  BY FS_EmptySet DEF Init
<1>3. Bounded(items) /\ \A r \in Run : Bounded(sync[r].added)
  BY IdleSession, BoundedEmpty DEF Init
<1> QED BY <1>1, <1>2, <1>3 DEF TInv

\* A step of r that replaces its session, and nobody else's.
LEMMA ContinueFacts ==
  ASSUME TInv, NEW r \in Run, NEW t, Continue(r, t)
  PROVE  sync'[r] = t /\ \A q \in Run \ {r} : sync'[q] = sync[q]
BY DEF TInv, SyncTypes, Continue

LEMMA ContinueType ==
  ASSUME TInv, NEW r \in Run, NEW t \in Session, Bounded(t.added),
         Continue(r, t)
  PROVE  /\ sync' \in [Run -> Session]
         /\ \A q \in Run : Bounded(sync'[q].added)
<1>1. sync' \in [Run -> Session]
  BY DEF TInv, SyncTypes, Continue
<1>2. ASSUME NEW q \in Run PROVE Bounded(sync'[q].added)
  BY ContinueFacts DEF TInv
<1> QED BY <1>1, <1>2

\* A step that commits nothing of the folder.
LEMMA SessionType ==
  ASSUME TInv, NEW r \in Run, NEW t \in Session, Bounded(t.added),
         Continue(r, t), syncs' \in Nat, crashes' \in Nat,
         messages' \in Seq(Message), review' \in SUBSET Nat,
         UNCHANGED <<folder, state, items>>
  PROVE  TInv'
<1>1. sync' \in [Run -> Session] /\ \A q \in Run : Bounded(sync'[q].added)
  BY ContinueType
<1> QED BY <1>1 DEF TInv, SyncTypes, Bounded

LEMMA CommitType ==
  ASSUME TInv, NEW s \in Session, Bounded(s.added), Commit(s)
  PROVE  state' \in StateRow /\ items' \in SUBSET Item /\ Bounded(items')
<1>1. state' \in StateRow
  BY DEF Commit, Written, TInv, SyncTypes, Session, StateRow
<1>2. items' \in SUBSET Item /\ Bounded(items')
  BY BoundedUnion DEF Commit, TInv, SyncTypes, Session
<1> QED BY <1>1, <1>2

LEMMA AssignType ==
  ASSUME NEW s \in Session, NEW row \in StateRow
  PROVE  Assign(s, row) \in Session /\ Assign(s, row).added = s.added
BY DEF Assign, Session

LEMMA EndType ==
  ASSUME TInv, NEW r \in Run, End(r)
  PROVE  sync' \in [Run -> Session] /\ \A q \in Run : Bounded(sync'[q].added)
<1>1. Bounded(Idle.added)
  BY IdleSession, BoundedEmpty
<1> QED BY <1>1, IdleSession, ContinueType DEF End

LEMMA CommitStepType ==
  ASSUME TInv, NEW r \in Run, NEW s \in Session, Bounded(s.added), Commit(s),
         NEW t \in Session, Bounded(t.added), Continue(r, t),
         messages' \in Seq(Message), UNCHANGED <<folder, review, syncs, crashes>>
  PROVE  TInv'
<1>1. sync' \in [Run -> Session] /\ \A q \in Run : Bounded(sync'[q].added)
  BY ContinueType
<1>2. state' \in StateRow /\ items' \in SUBSET Item /\ Bounded(items')
  BY CommitType
<1> QED BY <1>1, <1>2 DEF TInv, SyncTypes, Bounded

LEMMA UpstreamType ==
  ASSUME TInv, Upstream
  PROVE  TInv'
<1>1. folder' \in [epoch : Nat, uids : SUBSET Nat, next : Nat]
      /\ IsFiniteSet(folder'.uids)
  <2>1. CASE Deliver
    <3>1. IsFiniteSet(folder.uids \cup {folder.next})
      BY FS_AddElement DEF TInv
    <3> DEFINE uids == folder.uids \cup {folder.next}
               next == folder.next + 1
    <3>2. /\ folder \in [epoch : Nat, uids : SUBSET Nat, next : Nat]
          /\ folder' = [folder EXCEPT !.uids = uids, !.next = next]
      BY <2>1 DEF Deliver, TInv, SyncTypes
    <3>3. uids \in SUBSET Nat /\ next \in Nat
      BY <3>2
    <3> HIDE DEF uids, next
    <3>4. /\ folder' \in [epoch : Nat, uids : SUBSET Nat, next : Nat]
          /\ folder'.uids = uids
      BY <3>2, <3>3
    <3> QED BY <3>1, <3>4 DEF uids
  <2>2. ASSUME NEW u \in folder.uids, Expunge(u)
        PROVE  /\ folder' \in [epoch : Nat, uids : SUBSET Nat, next : Nat]
               /\ IsFiniteSet(folder'.uids)
    <3>1. IsFiniteSet(folder.uids \ {u})
      BY FS_RemoveElement DEF TInv
    <3> QED BY <2>2, <3>1 DEF Expunge, TInv, SyncTypes
  <2>3. CASE Renumber
    <3>1. Cardinality(folder.uids) \in Nat
      BY FS_CardinalityType DEF TInv
    <3>2. IsFiniteSet(1 .. Cardinality(folder.uids))
      BY <3>1, FS_Interval
    <3> QED BY <2>3, <3>1, <3>2 DEF Renumber, TInv, SyncTypes
  <2> QED BY <2>1, <2>2, <2>3 DEF Upstream
<1>2. Unchanged
  BY DEF Upstream, Deliver, Expunge, Renumber
<1> QED BY <1>1, <1>2 DEF Unchanged, TInv, SyncTypes, Bounded

\* What the lemmas on the single steps use of a session.
LEMMA SessionFacts ==
  ASSUME TInv, NEW r \in Run
  PROVE  /\ sync[r] \in Session
         /\ Bounded(sync[r].added)
         /\ messages \in Seq(Message) /\ review \in SUBSET Nat
         /\ syncs \in Nat /\ crashes \in Nat
BY DEF TInv, SyncTypes

LEMMA LoadStateType ==
  ASSUME TInv, NEW r \in Run, LoadState(r)
  PROVE  TInv'
<1> DEFINE t == [Idle EXCEPT !.pc = "load", !.row = state]
<1>1. t \in Session /\ t.added = {}
  BY IdleSession DEF TInv, SyncTypes, Session
<1> HIDE DEF t
<1>2. Bounded(t.added)
  BY <1>1, BoundedEmpty
<1>3. Continue(r, t)
  BY DEF LoadState, t
<1>4. syncs' \in Nat
  BY SessionFacts DEF LoadState
<1> QED BY <1>1, <1>2, <1>3, <1>4, SessionFacts, SessionType DEF LoadState

LEMMA MarkSyncingType ==
  ASSUME TInv, NEW r \in Run, MarkSyncing(r)
  PROVE  TInv'
<1> DEFINE s == Assign(sync[r], [sync[r].row EXCEPT !.status = "syncing"])
           t == [s EXCEPT !.pc = "select", !.locks = TRUE]
<1>1. [sync[r].row EXCEPT !.status = "syncing"] \in StateRow
  BY SessionFacts DEF Session, StateRow, SyncStatus
<1>2. s \in Session /\ s.added = sync[r].added
  BY <1>1, SessionFacts, AssignType
<1> HIDE DEF s
<1>3. t \in Session /\ t.added = sync[r].added
  BY <1>2 DEF Session
<1> HIDE DEF t
<1>4. Continue(r, t)
  BY DEF MarkSyncing, t, s
<1> QED BY <1>3, <1>4, SessionFacts, SessionType DEF MarkSyncing

LEMMA SelectFolderType ==
  ASSUME TInv, NEW r \in Run, SelectFolder(r)
  PROVE  TInv'
<1> DEFINE last == IF sync[r].row.validity \notin {0, folder.epoch}
                   THEN 0 ELSE sync[r].row.seen
           s == Assign(sync[r], [sync[r].row EXCEPT !.seen = last,
                                                    !.validity = folder.epoch])
<1>1. PICK uids \in SUBSET Nat :
        Continue(r, [s EXCEPT !.pc = "scan", !.todo = uids,
                              !.last = last, !.high = last])
  <2>1. Newest(folder.uids) \subseteq Nat
        /\ Oldest({u \in SearchFrom(last + 1) : u > last}) \subseteq Nat
    BY DEF Newest, Oldest, SearchFrom, TInv, SyncTypes
  <2> QED BY <2>1 DEF SelectFolder
<1> DEFINE t == [s EXCEPT !.pc = "scan", !.todo = uids,
                          !.last = last, !.high = last]
<1>2. last \in Nat /\ folder.epoch \in Nat
  BY SessionFacts DEF Session, StateRow, TInv, SyncTypes
<1> HIDE DEF last
<1>3. [sync[r].row EXCEPT !.seen = last, !.validity = folder.epoch] \in StateRow
  BY <1>2, SessionFacts DEF Session, StateRow
<1>4. s \in Session /\ s.added = sync[r].added
  BY <1>3, SessionFacts, AssignType
<1> HIDE DEF s
<1>5. t \in Session /\ t.added = sync[r].added
  BY <1>2, <1>4 DEF Session
<1> QED BY <1>1, <1>5, SessionFacts, SessionType DEF SelectFolder

LEMMA SkipMappedType ==
  ASSUME TInv, NEW r \in Run, SkipMapped(r)
  PROVE  TInv'
<1> DEFINE uid == Min(sync[r].todo)
           high == Max({sync[r].high, uid})
           t == [sync[r] EXCEPT !.todo = @ \ {uid}, !.high = high]
<1>1. uid \in Nat
  BY SessionFacts, MinFacts DEF SkipMapped, Session
<1>2. high \in Nat
  BY <1>1, SessionFacts, MaxOfTwo DEF Session
<1>3. Continue(r, t)
  BY DEF SkipMapped
<1> HIDE DEF uid, high
<1>4. t \in Session /\ t.added = sync[r].added
  BY <1>1, <1>2, SessionFacts DEF Session
<1> QED BY <1>3, <1>4, SessionFacts, SessionType DEF SkipMapped

LEMMA StartMessageType ==
  ASSUME TInv, NEW r \in Run, StartMessage(r)
  PROVE  TInv'
<1> DEFINE uid == Min(sync[r].todo)
           new == [NoItem EXCEPT !.uid = uid, !.epoch = sync[r].row.validity]
           t == [sync[r] EXCEPT !.pc = "fetch", !.item = new]
<1>1. uid \in Nat
  BY SessionFacts, MinFacts DEF StartMessage, Session
<1>2. Continue(r, t)
  BY DEF StartMessage
<1> HIDE DEF uid
<1>3. new \in Item
  BY <1>1, SessionFacts DEF Session, StateRow, NoItem, Item, Visibility
<1> HIDE DEF new
<1>4. t \in Session /\ t.added = sync[r].added
  BY <1>3, SessionFacts DEF Session
<1> QED BY <1>2, <1>4, SessionFacts, SessionType DEF StartMessage

LEMMA ItemUpdates ==
  /\ \A i \in Item, k \in Nat : [i EXCEPT !.msg = k] \in Item
  /\ \A i \in Item, k \in Nat : [i EXCEPT !.mwuid = k] \in Item
  /\ \A i \in Item, vis \in Visibility : [i EXCEPT !.vis = vis] \in Item
BY DEF Item

\* A session that goes on with another item keeps its type.
LEMMA ItemStep ==
  ASSUME NEW s \in Session, NEW new \in Item,
         NEW pc \in {"analyse", "quarantine", "allocate", "store"}
  PROVE  /\ [s EXCEPT !.pc = pc, !.item = new] \in Session
         /\ [s EXCEPT !.pc = pc, !.item = new].added = s.added
BY DEF Session

LEMMA MessageFailsType ==
  ASSUME TInv, NEW r \in Run, MessageFails(r)
  PROVE  TInv'
<1> DEFINE t == [sync[r] EXCEPT !.pc = "allocate"]
<1>1. t \in Session /\ t.added = sync[r].added
  BY SessionFacts DEF Session
<1> QED BY <1>1, SessionFacts, SessionType DEF MessageFails

LEMMA IngestType ==
  ASSUME TInv, NEW r \in Run, Ingest(r)
  PROVE  TInv'
<1> DEFINE m == [uid |-> sync[r].item.uid, epoch |-> folder.epoch,
                 verdict |-> "none"]
           id == Len(messages) + 1
           new == [sync[r].item EXCEPT !.msg = id]
           t == [Committed(sync[r]) EXCEPT !.pc = "analyse", !.item = new]
<1>1. m \in Message /\ id \in Nat
  BY SessionFacts, LenProperties DEF Session, Item, Message, TInv, SyncTypes
<1>2. Append(messages, m) \in Seq(Message)
  BY <1>1, SessionFacts, AppendProperties
<1>3. t \in Session /\ t.added = {}
  <2> HIDE DEF id
  <2>1. new \in Item
    BY <1>1, SessionFacts, ItemUpdates DEF Session
  <2> HIDE DEF new
  <2>2. Committed(sync[r]) \in Session /\ Committed(sync[r]).added = {}
    BY SessionFacts DEF Committed, Session
  <2> QED BY <2>1, <2>2, ItemStep
<1>4. Continue(r, t) /\ messages' = Append(messages, m)
  BY DEF Ingest, Committed
<1> HIDE DEF t
<1>5. Bounded(t.added)
  BY <1>3, BoundedEmpty
<1> QED BY <1>2, <1>3, <1>4, <1>5, SessionFacts, CommitStepType DEF Ingest

LEMMA VisibilityFacts ==
  ASSUME NEW v
  PROVE  VerdictToVisibility(v, SoftHold) \in Visibility
BY DEF VerdictToVisibility, Visibility

LEMMA AnalysisFailsType ==
  ASSUME TInv, NEW r \in Run, AnalysisFails(r)
  PROVE  TInv'
<1> DEFINE vis == VerdictToVisibility("allow", SoftHold)
           new == [sync[r].item EXCEPT !.vis = vis]
           t == [sync[r] EXCEPT !.pc = "allocate", !.item = new]
<1>1. vis \in Visibility
  BY VisibilityFacts
<1>2. Continue(r, t)
  BY DEF AnalysisFails
<1> HIDE DEF vis
<1>3. t \in Session /\ t.added = sync[r].added
  <2>1. new \in Item
    BY <1>1, SessionFacts, ItemUpdates DEF Session
  <2> HIDE DEF new
  <2> QED BY <1>1, <2>1, SessionFacts, ItemStep
<1> QED BY <1>2, <1>3, SessionFacts, SessionType DEF AnalysisFails

LEMMA AnalyseType ==
  ASSUME TInv, NEW r \in Run, NEW v \in AnalysisVerdict, Analyse(r, v)
  PROVE  TInv'
<1> DEFINE vis == VerdictToVisibility(v, SoftHold)
           pc == IF ShouldQuarantine(v, SoftHold) THEN "quarantine" ELSE "allocate"
           new == [sync[r].item EXCEPT !.vis = vis]
           t == [sync[r] EXCEPT !.pc = pc, !.item = new]
<1>1. vis \in Visibility /\ pc \in {"quarantine", "allocate"}
  BY VisibilityFacts
<1>2. Continue(r, t)
  BY DEF Analyse
<1>3. [messages EXCEPT ![sync[r].item.msg].verdict = v] \in Seq(Message)
  <2>1. v \in Verdict
    BY SyncConstants
  <2>2. messages \in [1 .. Len(messages) -> Message] /\ Len(messages) \in Nat
    BY SessionFacts, LenProperties
  <2>3. [messages EXCEPT ![sync[r].item.msg].verdict = v]
          \in [1 .. Len(messages) -> Message]
    BY <2>1, <2>2 DEF Message
  <2> QED BY <2>2, <2>3, SeqDef
<1> HIDE DEF vis, pc
<1>4. t \in Session /\ t.added = sync[r].added
  <2>1. new \in Item
    BY <1>1, SessionFacts, ItemUpdates DEF Session
  <2> HIDE DEF new
  <2> QED BY <1>1, <2>1, SessionFacts, ItemStep
<1> QED BY <1>2, <1>3, <1>4, SessionFacts, SessionType DEF Analyse

LEMMA QuarantineType ==
  ASSUME TInv, NEW r \in Run, Quarantine(r)
  PROVE  TInv'
<1> DEFINE t == [sync[r] EXCEPT !.pc = "allocate"]
<1>1. t \in Session /\ t.added = sync[r].added
  BY SessionFacts DEF Session
<1>2. review' \in SUBSET Nat
  BY SessionFacts DEF Quarantine, Session, Item
<1> QED BY <1>1, <1>2, SessionFacts, SessionType DEF Quarantine

\* The number a handler allocates is above those of the items it sees.
LEMMA HighestUid ==
  ASSUME TInv, NEW r \in Run
  PROVE  LET highest == Max({0} \cup {i.mwuid : i \in Sees(r)})
         IN  highest \in Nat /\ \A i \in Sees(r) : i.mwuid <= highest
<1> DEFINE S == {0} \cup {i.mwuid : i \in Sees(r)}
<1>1. Sees(r) \subseteq Item /\ Bounded(Sees(r))
  BY SessionFacts, BoundedUnion DEF Sees, Session, TInv, SyncTypes
<1>2. PICK n \in Nat : \A i \in Sees(r) : i.mwuid <= n
  BY <1>1 DEF Bounded
<1>3. S \in SUBSET Nat /\ S # {} /\ \A x \in S : x <= n
  BY <1>1, <1>2 DEF Item
<1>4. \A i \in Sees(r) : i.mwuid \in S
  OBVIOUS
<1> HIDE DEF S
<1>5. Max(S) \in S /\ \A y \in S : y <= Max(S)
  BY <1>3, MaxFacts
<1>6. Max(S) \in Nat /\ \A i \in Sees(r) : i.mwuid <= Max(S)
  BY <1>3, <1>4, <1>5
<1> QED BY <1>6 DEF S

LEMMA AllocateUidType ==
  ASSUME TInv, NEW r \in Run, AllocateUid(r)
  PROVE  TInv'
<1> DEFINE next == Max({0} \cup {i.mwuid : i \in Sees(r)}) + 1
           new == [sync[r].item EXCEPT !.mwuid = next]
           t == [sync[r] EXCEPT !.pc = "store", !.item = new]
<1>1. next \in Nat
  BY HighestUid
<1>2. Continue(r, t)
  BY DEF AllocateUid
<1> HIDE DEF next
<1>3. t \in Session /\ t.added = sync[r].added
  <2>1. new \in Item
    BY <1>1, SessionFacts, ItemUpdates DEF Session
  <2> HIDE DEF new
  <2> QED BY <1>1, <2>1, SessionFacts, ItemStep
<1> QED BY <1>2, <1>3, SessionFacts, SessionType DEF AllocateUid

LEMMA StoreItemType ==
  ASSUME TInv, NEW r \in Run, StoreItem(r)
  PROVE  TInv'
<1> DEFINE s == sync[r]
           ingested == s.item.msg # 0
           high == IF ingested THEN Max({s.high, s.item.uid}) ELSE s.high
           stored == s.stored \/ ingested
           failed == s.failed \/ ~ingested
           todo == s.todo \ {s.item.uid}
           added == s.added \cup {s.item}
           t == [s EXCEPT !.pc = "scan",
                          !.todo = todo,
                          !.added = added,
                          !.stored = stored,
                          !.failed = failed,
                          !.high = high]
<1>1. high \in Nat /\ stored \in BOOLEAN /\ failed \in BOOLEAN
  BY SessionFacts, MaxOfTwo DEF Session, Item
<1>2. Continue(r, t)
  BY DEF StoreItem
<1>3. s \in Session /\ s.item \in Item /\ s.added \in SUBSET Item
      /\ todo \in SUBSET Nat /\ added \in SUBSET Item
  BY SessionFacts DEF Session
<1>4. Bounded({s.item})
  BY <1>3 DEF Bounded, Item
<1>5. Bounded(added)
  BY <1>3, <1>4, SessionFacts, BoundedUnion
<1> HIDE DEF s, high, stored, failed, todo, added
<1>6. t \in Session /\ t.added = added
  BY <1>1, <1>3 DEF Session
<1> QED BY <1>2, <1>5, <1>6, SessionFacts, SessionType DEF StoreItem

LEMMA AbortSyncType ==
  ASSUME TInv, NEW r \in Run, AbortSync(r)
  PROVE  TInv'
<1> DEFINE s == Assign(sync[r], [sync[r].row EXCEPT !.status = "error"])
<1>1. s \in Session /\ s.added = sync[r].added
  <2>1. [sync[r].row EXCEPT !.status = "error"] \in StateRow
    BY SessionFacts DEF Session, StateRow, SyncStatus
  <2> QED BY <2>1, SessionFacts, AssignType
<1>2. Commit(s)
  BY DEF AbortSync
<1> HIDE DEF s
<1>3. Bounded(Idle.added)
  BY IdleSession, BoundedEmpty
<1> QED BY <1>1, <1>2, <1>3, IdleSession, SessionFacts, CommitStepType
        DEF AbortSync, End

LEMMA OutcomeType ==
  ASSUME NEW s \in Session
  PROVE  Outcome(s) \in SyncStatus
BY DEF Outcome, Session, SyncStatus

LEMMA FinishType ==
  ASSUME TInv, NEW r \in Run, Finish(r)
  PROVE  TInv'
<1> DEFINE seen == IF sync[r].high > sync[r].last THEN sync[r].high
                   ELSE sync[r].row.seen
           out == Outcome(sync[r])
           s == Assign(sync[r], [sync[r].row EXCEPT !.seen = seen, !.status = out])
<1>1. Commit(s)
  BY DEF Finish
<1>2. seen \in Nat /\ out \in SyncStatus
  BY SessionFacts, OutcomeType DEF Session, StateRow
<1> HIDE DEF seen, out
<1>3. s \in Session /\ s.added = sync[r].added
  <2>1. [sync[r].row EXCEPT !.seen = seen, !.status = out] \in StateRow
    BY <1>2, SessionFacts DEF Session, StateRow
  <2> QED BY <2>1, SessionFacts, AssignType
<1> HIDE DEF s
<1>4. Bounded(Idle.added)
  BY IdleSession, BoundedEmpty
<1> QED BY <1>1, <1>3, <1>4, IdleSession, SessionFacts, CommitStepType
        DEF Finish, End

\* A session that ends without a commit: a database error or a crash.
LEMMA DropType ==
  ASSUME TInv, NEW r \in Run, End(r), crashes' \in Nat,
         UNCHANGED <<folder, state, items, messages, review, syncs>>
  PROVE  TInv'
<1>1. sync' \in [Run -> Session] /\ \A q \in Run : Bounded(sync'[q].added)
  BY EndType
<1> QED BY <1>1 DEF TInv, SyncTypes, Bounded

LEMMA NextCases ==
  ASSUME [Next]_vars
  PROVE  \/ Upstream /\ UNCHANGED adminVars
         \/ /\ UNCHANGED adminVars
            /\ \E r \in Run : LoadState(r) \/ Step(r) \/ Crash(r)
         \/ Administer
         \/ UNCHANGED vars
BY DEF Next, Syncing

LEMMA AdministerType ==
  ASSUME TInv, Administer
  PROVE  TInv'
<1>1. ASSUME NEW m \in DOMAIN messages, NEW v \in AnalysisVerdict, Reanalyse(m, v)
      PROVE  TInv'
  <2>1. v \in Verdict
    BY SyncConstants
  <2>2. /\ messages \in [1 .. Len(messages) -> Message] /\ Len(messages) \in Nat
        /\ m \in Nat
    BY LenProperties DEF TInv, SyncTypes
  <2>3. [messages EXCEPT ![m].verdict = v] \in [1 .. Len(messages) -> Message]
    BY <2>1, <2>2 DEF Message
  <2>4. messages' \in Seq(Message) /\ review' \subseteq Nat
    BY <1>1, <2>2, <2>3, SeqDef DEF Reanalyse, TInv, SyncTypes
  <2> QED BY <1>1, <2>4 DEF Reanalyse, TInv, SyncTypes, Bounded
<1>2. ASSUME NEW m \in review, Release(m) PROVE TInv'
  BY <1>2 DEF Release, syncVars, TInv, SyncTypes, Bounded
<1> QED BY <1>1, <1>2 DEF Administer

LEMMA NextType == TInv /\ [Next]_vars => TInv'
<1> SUFFICES ASSUME TInv, [Next]_vars PROVE TInv'
  OBVIOUS
<1>1. CASE Upstream
  BY <1>1, UpstreamType
<1>2. ASSUME NEW r \in Run, LoadState(r) PROVE TInv'
  BY <1>2, LoadStateType
<1>3. ASSUME NEW r \in Run, Step(r) PROVE TInv'
  <2>1. CASE MarkSyncing(r) \/ AbortSync(r) \/ SelectFolder(r)
    BY <2>1, MarkSyncingType, AbortSyncType, SelectFolderType
  <2>2. CASE SkipMapped(r) \/ StartMessage(r) \/ MessageFails(r) \/ Ingest(r)
    BY <2>2, SkipMappedType, StartMessageType, MessageFailsType, IngestType
  <2>3. CASE AnalysisFails(r) \/ \E v \in AnalysisVerdict : Analyse(r, v)
    BY <2>3, AnalysisFailsType, AnalyseType
  <2>4. CASE Quarantine(r) \/ AllocateUid(r) \/ StoreItem(r) \/ Finish(r)
    BY <2>4, QuarantineType, AllocateUidType, StoreItemType, FinishType
  <2>5. CASE DatabaseError(r)
    BY <2>5, SessionFacts, DropType DEF DatabaseError
  <2> QED BY <1>3, <2>1, <2>2, <2>3, <2>4, <2>5 DEF Step
<1>4. ASSUME NEW r \in Run, Crash(r) PROVE TInv'
  <2>1. crashes' \in Nat
    BY <1>4, SessionFacts DEF Crash
  <2> QED BY <1>4, <2>1, DropType DEF Crash
<1>5. CASE UNCHANGED vars
  BY <1>5 DEF vars, TInv, SyncTypes, Bounded
<1> QED BY <1>1, <1>2, <1>3, <1>4, <1>5, AdministerType, NextCases

\* Types hold, and the Mindwall UIDs in use always have a largest one.
LEMMA TypesHold == Spec => []TInv
BY InitType, NextType, PTL DEF Spec

\* What the administrator has dealt with and the history of the syncs.
HistoryTypes ==
  /\ released \subseteq review
  /\ again \subseteq DOMAIN messages
  /\ raced \subseteq Run
  /\ shared \subseteq items

\* No step takes a row away, and what is dealt with exists.
LEMMA TablesGrow ==
  ASSUME TInv, HistoryTypes, [Next]_vars
  PROVE  /\ released' \subseteq review' /\ again' \subseteq DOMAIN messages'
         /\ items \subseteq items'
<1>1. CASE Upstream /\ UNCHANGED adminVars
  BY <1>1 DEF Upstream, Deliver, Renumber, Expunge, Unchanged, adminVars, HistoryTypes
<1>2. ASSUME NEW r \in Run, LoadState(r) \/ Step(r) \/ Crash(r), UNCHANGED adminVars
      PROVE  /\ released' \subseteq review' /\ again' \subseteq DOMAIN messages'
             /\ items \subseteq items'
  <2>1. CASE Ingest(r)
    <3> DEFINE m == [uid |-> sync[r].item.uid, epoch |-> folder.epoch,
                     verdict |-> "none"]
    <3>1. m \in Message /\ messages \in Seq(Message)
      BY SessionFacts DEF TInv, SyncTypes, Session, Item, Message
    <3>2. messages' = Append(messages, m)
      BY <2>1 DEF Ingest
    <3> HIDE DEF m
    <3>3. DOMAIN messages \subseteq DOMAIN messages'
      BY <3>1, <3>2, LenProperties, AppendProperties
    <3> QED BY <1>2, <2>1, <3>3 DEF Ingest, Commit, adminVars, HistoryTypes
  <2>2. CASE AbortSync(r) \/ Finish(r)
    BY <1>2, <2>2 DEF AbortSync, Finish, Commit, Assign, adminVars, HistoryTypes
  <2>3. CASE \E v \in AnalysisVerdict : Analyse(r, v)
    BY <1>2, <2>3 DEF Analyse, adminVars, HistoryTypes
  <2>4. CASE UNCHANGED <<items, messages>> /\ review \subseteq review'
    BY <1>2, <2>4 DEF adminVars, HistoryTypes
  <2> QED
    BY <1>2, <2>1, <2>2, <2>3, <2>4
       DEF LoadState, Crash, Step, MarkSyncing, SelectFolder, SkipMapped,
           StartMessage, MessageFails, AnalysisFails, Quarantine, AllocateUid,
           StoreItem, DatabaseError
<1>3. CASE Administer
  <2>1. ASSUME NEW m \in DOMAIN messages, NEW v \in AnalysisVerdict, Reanalyse(m, v)
        PROVE  /\ released' \subseteq review' /\ again' \subseteq DOMAIN messages'
               /\ items \subseteq items'
    BY <2>1 DEF Reanalyse, HistoryTypes
  <2>2. ASSUME NEW m \in review, Release(m)
        PROVE  /\ released' \subseteq review' /\ again' \subseteq DOMAIN messages'
               /\ items \subseteq items'
    BY <2>2 DEF Release, syncVars, HistoryTypes
  <2> QED BY <1>3, <2>1, <2>2 DEF Administer
<1>4. CASE UNCHANGED vars
  BY <1>4 DEF vars, HistoryTypes
<1> QED BY <1>1, <1>2, <1>3, <1>4, NextCases

\* Every row, item and session keeps its type (app/mailboxes/sync_models.py).
THEOREM TypeCorrect == Spec => []TypeOK
<1> DEFINE Types == TInv /\ HistoryTypes
<1>1. Init => Types
  BY InitType DEF Init, HistoryTypes
<1>2. Types /\ [Next]_vars => Types'
  BY NextType, TablesGrow DEF Recall, Next, vars, HistoryTypes
<1>3. Types => TypeOK
  BY DEF TInv, SyncTypes, HistoryTypes, TypeOK
<1> QED BY <1>1, <1>2, <1>3, PTL DEF Spec

-------------------------------------------------------------------------------
(* What an item says of its message *)

\* The item maps its UID to the message fetched under that UID.
Located(i) ==
  i.msg # 0 => /\ i.msg \in DOMAIN messages
               /\ messages[i.msg].uid = i.uid
               /\ messages[i.msg].epoch = i.epoch

\* The item shows what the stored verdict says, unless an administrator has
\* dealt with the message.
Shown(i) ==
  i.msg \notin again \cup released =>
    i.vis = IF i.msg = 0 THEN "ingestion_error"
            ELSE LET verdict == messages[i.msg].verdict
                 IN VerdictToVisibility(IF verdict = "none" THEN "allow"
                                        ELSE verdict, SoftHold)

Reviewable(i) == i.vis = "quarantined" => i.msg \in review

Good(i) == Located(i) /\ Shown(i) /\ Reviewable(i)

\* Where a session holds the item of a message that may be stored already.
Holding == {"analyse", "quarantine", "allocate", "store"}

\* What a session has made true of its item at each step, and of the items
\* it has not committed.
InProgress(s) ==
  /\ s.pc = "fetch" => /\ s.item.msg = 0
                       /\ s.item.vis = "ingestion_error"
                       /\ s.item.epoch = s.row.validity
  /\ s.pc \in Holding => Located(s.item)
  /\ s.pc = "analyse" => /\ s.item.msg # 0
                         /\ \/ messages[s.item.msg].verdict = "none"
                            \/ s.item.msg \in again
  /\ s.pc = "quarantine" => s.item.msg # 0 /\ Shown(s.item)
  /\ s.pc \in {"allocate", "store"} => Good(s.item)
  /\ \A i \in s.added : Good(i)

\* A message whose item is under construction belongs to one session, and no
\* other item refers to it.
Exclusive ==
  \A r \in Run : sync[r].pc \in Holding /\ sync[r].item.msg # 0 =>
    /\ \A i \in items : i.msg # sync[r].item.msg
    /\ \A q \in Run : \A i \in sync[q].added : i.msg # sync[r].item.msg
    /\ \A q \in Run \ {r} :
         sync[q].pc \in Holding => sync[q].item.msg # sync[r].item.msg

IInv ==
  /\ TInv
  /\ \A i \in items : Good(i)
  /\ \A r \in Run : InProgress(sync[r])
  /\ Exclusive

LEMMA InitInv == Init => IInv
<1> SUFFICES ASSUME Init PROVE IInv
  OBVIOUS
<1>1. TInv
  BY InitType
<1>2. \A r \in Run : sync[r].pc = "idle" /\ sync[r].added = {}
  BY DEF Init, Idle
<1> QED BY <1>1, <1>2 DEF Init, IInv, InProgress, Exclusive, Holding

\* Steps that store no message and no verdict: they may commit what the
\* session has added, go on with the same message, or add its item.
LEMMA LocalStep ==
  ASSUME IInv, TInv', UNCHANGED adminVars, NEW r \in Run,
         \A q \in Run \ {r} : sync'[q] = sync[q],
         messages' = messages, review \subseteq review',
         items' \subseteq items \cup sync[r].added,
         InProgress(sync[r])',
         \/ /\ sync'[r].added \subseteq sync[r].added
            /\ sync'[r].pc \in Holding /\ sync'[r].item.msg # 0 =>
                 /\ sync[r].pc \in Holding
                 /\ sync'[r].item.msg = sync[r].item.msg
         \/ /\ sync[r].pc \in Holding /\ sync'[r].pc \notin Holding
            /\ sync'[r].added \subseteq sync[r].added \cup {sync[r].item}
  PROVE  IInv'
<1>1. \A i : Good(i) => Good(i)'
  BY DEF Good, Located, Shown, Reviewable, adminVars
<1>2. \A i \in items' : Good(i)'
  BY <1>1 DEF IInv, InProgress
<1>3. ASSUME NEW q \in Run PROVE InProgress(sync[q])'
  <2>1. CASE q = r
    BY <2>1
  <2>2. CASE q # r
    <3>1. sync'[q] = sync[q] /\ InProgress(sync[q])
      BY <2>2 DEF IInv
    <3>2. \A i : Located(i) => Located(i)'
      BY DEF Located
    <3>3. \A i : Shown(i) => Shown(i)'
      BY DEF Shown, adminVars
    <3>4. \A i : Reviewable(i) => Reviewable(i)'
      BY DEF Reviewable
    <3>5. again' = again
      BY DEF adminVars
    <3> QED BY <3>1, <3>2, <3>3, <3>4, <3>5, <1>1 DEF InProgress
  <2> QED BY <2>1, <2>2
<1>4. Exclusive'
  <2>1. ASSUME NEW p \in Run, sync'[p].pc \in Holding, sync'[p].item.msg # 0
        PROVE  /\ \A i \in items' : i.msg # sync'[p].item.msg
               /\ \A q \in Run : \A i \in sync'[q].added : i.msg # sync'[p].item.msg
               /\ \A q \in Run \ {p} :
                    sync'[q].pc \in Holding => sync'[q].item.msg # sync'[p].item.msg
    <3> DEFINE m == sync'[p].item.msg
    <3>1. sync[p].pc \in Holding /\ sync[p].item.msg = m
      BY <2>1
    <3>2. /\ \A i \in items : i.msg # m
          /\ \A q \in Run : \A i \in sync[q].added : i.msg # m
          /\ \A q \in Run \ {p} : sync[q].pc \in Holding => sync[q].item.msg # m
      BY <2>1, <3>1 DEF IInv, Exclusive
    <3>3. \A i \in items' : i.msg # m
      BY <3>2
    <3>4. ASSUME NEW q \in Run, NEW i \in sync'[q].added PROVE i.msg # m
      <4>1. CASE i \in sync[q].added
        BY <3>2, <4>1
      <4>2. CASE i \notin sync[q].added
        <5>1. q = r /\ i = sync[r].item /\ sync[r].pc \in Holding /\ p # r
          BY <2>1, <3>4, <4>2
        <5> QED BY <3>2, <5>1
      <4> QED BY <4>1, <4>2
    <3>5. ASSUME NEW q \in Run \ {p}, sync'[q].pc \in Holding PROVE sync'[q].item.msg # m
      <4>1. CASE q # r
        BY <3>2, <3>5, <4>1
      <4>2. CASE q = r
        BY <2>1, <3>2, <3>5, <4>2
      <4> QED BY <4>1, <4>2
    <3> QED BY <3>3, <3>4, <3>5
  <2> QED BY <2>1 DEF Exclusive
<1> QED BY <1>2, <1>3, <1>4 DEF IInv

LEMMA GoodKept ==
  ASSUME UNCHANGED adminVars, messages' = messages, review \subseteq review'
  PROVE  /\ \A i : Good(i) => Good(i)'
         /\ \A i : Located(i) => Located(i)'
         /\ \A i : Shown(i) => Shown(i)'
BY DEF Good, Located, Shown, Reviewable, adminVars

\* Steps after which the session has no item under construction.
LEMMA RestingStep ==
  ASSUME IInv, TInv', UNCHANGED adminVars, NEW r \in Run,
         \A q \in Run \ {r} : sync'[q] = sync[q],
         UNCHANGED <<messages, review>>,
         items' \subseteq items \cup sync[r].added,
         sync'[r].added \subseteq sync[r].added,
         sync'[r].pc \in {"idle", "load", "select", "scan"}
  PROVE  IInv'
<1>1. sync'[r].pc # "fetch" /\ sync'[r].pc \notin Holding
  BY DEF Holding
<1>2. \A i \in sync'[r].added : Good(i)'
  BY GoodKept DEF IInv, InProgress
<1>3. InProgress(sync[r])'
  BY <1>1, <1>2 DEF InProgress, Holding
<1> QED BY <1>1, <1>3, LocalStep

LEMMA StartMessageInv ==
  ASSUME IInv, TInv', UNCHANGED adminVars, NEW r \in Run, StartMessage(r)
  PROVE  IInv'
<1> DEFINE new == [NoItem EXCEPT !.uid = Min(sync[r].todo),
                                 !.epoch = sync[r].row.validity]
<1>1. /\ sync'[r] = [sync[r] EXCEPT !.pc = "fetch", !.item = new]
      /\ \A q \in Run \ {r} : sync'[q] = sync[q]
  BY ContinueFacts DEF StartMessage, IInv
<1>2. new.msg = 0 /\ new.vis = "ingestion_error"
      /\ new.epoch = sync[r].row.validity
  BY DEF NoItem
<1> HIDE DEF new
<1>3. /\ sync'[r].pc = "fetch" /\ sync'[r].item = new
      /\ sync'[r].added = sync[r].added /\ sync'[r].row = sync[r].row
  BY <1>1, SessionFacts DEF IInv, Session
<1>4. \A i \in sync'[r].added : Good(i)'
  BY <1>3, GoodKept DEF StartMessage, IInv, InProgress
<1>5. InProgress(sync[r])'
  BY <1>2, <1>3, <1>4 DEF InProgress, Holding
<1> QED BY <1>1, <1>3, <1>5, LocalStep DEF StartMessage, Holding

\* Steps that change the item of a message without storing anything.
LEMMA ItemStepInv ==
  ASSUME IInv, TInv', UNCHANGED adminVars, NEW r \in Run,
         \A q \in Run \ {r} : sync'[q] = sync[q],
         UNCHANGED <<items, messages>>, review \subseteq review',
         sync'[r].added = sync[r].added,
         sync'[r].pc \in {"allocate", "store"},
         sync'[r].item.msg # 0 => sync[r].pc \in Holding,
         sync'[r].item.msg = sync[r].item.msg,
         Good(sync[r].item)'
  PROVE  IInv'
<1>1. Located(sync[r].item)'
  BY DEF Good
<1>2. \A i \in sync'[r].added : Good(i)'
  BY GoodKept DEF IInv, InProgress
<1>3. InProgress(sync[r])'
  BY <1>1, <1>2 DEF InProgress, Holding
<1> QED BY <1>3, LocalStep DEF Holding

LEMMA MessageFailsInv ==
  ASSUME IInv, TInv', UNCHANGED adminVars, NEW r \in Run, MessageFails(r)
  PROVE  IInv'
<1>1. /\ sync'[r] = [sync[r] EXCEPT !.pc = "allocate"]
      /\ \A q \in Run \ {r} : sync'[q] = sync[q]
  BY ContinueFacts DEF MessageFails, IInv
<1>2. /\ sync'[r].pc = "allocate" /\ sync'[r].item = sync[r].item
      /\ sync'[r].added = sync[r].added
  BY <1>1, SessionFacts DEF IInv, Session
<1>3. sync[r].item.msg = 0 /\ sync[r].item.vis = "ingestion_error"
  BY DEF MessageFails, IInv, InProgress
<1>4. Good(sync[r].item)'
  BY <1>2, <1>3 DEF Good, Located, Shown, Reviewable, adminVars
<1> QED BY <1>1, <1>2, <1>3, <1>4, ItemStepInv DEF MessageFails

LEMMA AnalysisFailsInv ==
  ASSUME IInv, TInv', UNCHANGED adminVars, NEW r \in Run, AnalysisFails(r)
  PROVE  IInv'
<1> DEFINE vis == VerdictToVisibility("allow", SoftHold)
           new == [sync[r].item EXCEPT !.vis = vis]
<1>1. /\ sync'[r] = [sync[r] EXCEPT !.pc = "allocate", !.item = new]
      /\ \A q \in Run \ {r} : sync'[q] = sync[q]
  BY ContinueFacts DEF AnalysisFails, IInv
<1>2. vis # "quarantined"
  BY DEF VerdictToVisibility, ShouldQuarantine, QuarantineVerdicts
<1>3. /\ sync[r].item.msg # 0 /\ Located(sync[r].item)
      /\ messages[sync[r].item.msg].verdict = "none" \/ sync[r].item.msg \in again
  BY DEF AnalysisFails, IInv, InProgress, Holding
<1> HIDE DEF vis
<1>4. /\ new.vis = vis /\ new.msg = sync[r].item.msg
      /\ new.uid = sync[r].item.uid /\ new.epoch = sync[r].item.epoch
  BY SessionFacts DEF IInv, Session, Item
<1> HIDE DEF new
<1>5. /\ sync'[r].pc = "allocate" /\ sync'[r].item = new
      /\ sync'[r].added = sync[r].added
  BY <1>1, SessionFacts DEF IInv, Session
<1>6. Good(sync[r].item)'
  BY <1>2, <1>3, <1>4, <1>5
     DEF AnalysisFails, Good, Located, Shown, Reviewable, adminVars, vis
<1> QED BY <1>1, <1>4, <1>5, <1>6, ItemStepInv DEF AnalysisFails, Holding

LEMMA QuarantineInv ==
  ASSUME IInv, TInv', UNCHANGED adminVars, NEW r \in Run, Quarantine(r)
  PROVE  IInv'
<1>1. /\ sync'[r] = [sync[r] EXCEPT !.pc = "allocate"]
      /\ \A q \in Run \ {r} : sync'[q] = sync[q]
  BY ContinueFacts DEF Quarantine, IInv
<1>2. /\ sync'[r].pc = "allocate" /\ sync'[r].item = sync[r].item
      /\ sync'[r].added = sync[r].added
  BY <1>1, SessionFacts DEF IInv, Session
<1>3. /\ sync[r].pc = "quarantine"
      /\ Located(sync[r].item) /\ Shown(sync[r].item)
  BY DEF Quarantine, IInv, InProgress, Holding
<1>4. sync[r].item.msg \in review' /\ review \subseteq review'
  BY DEF Quarantine
<1>5. Good(sync[r].item)'
  BY <1>2, <1>3, <1>4 DEF Quarantine, Good, Located, Shown, Reviewable, adminVars
<1> QED BY <1>1, <1>2, <1>3, <1>4, <1>5, ItemStepInv DEF Quarantine, Holding

LEMMA AllocateUidInv ==
  ASSUME IInv, TInv', UNCHANGED adminVars, NEW r \in Run, AllocateUid(r)
  PROVE  IInv'
<1> DEFINE next == Max({0} \cup {i.mwuid : i \in Sees(r)}) + 1
           new == [sync[r].item EXCEPT !.mwuid = next]
<1>1. /\ sync'[r] = [sync[r] EXCEPT !.pc = "store", !.item = new]
      /\ \A q \in Run \ {r} : sync'[q] = sync[q]
  BY ContinueFacts DEF AllocateUid, IInv
<1>2. sync[r].pc = "allocate" /\ Good(sync[r].item)
  BY DEF AllocateUid, IInv, InProgress
<1> HIDE DEF next
<1>3. /\ new.vis = sync[r].item.vis /\ new.msg = sync[r].item.msg
      /\ new.uid = sync[r].item.uid /\ new.epoch = sync[r].item.epoch
  BY SessionFacts DEF IInv, Session, Item
<1> HIDE DEF new
<1>4. /\ sync'[r].pc = "store" /\ sync'[r].item = new
      /\ sync'[r].added = sync[r].added
  BY <1>1, SessionFacts DEF IInv, Session
<1>5. Good(sync[r].item)'
  BY <1>2, <1>3, <1>4 DEF AllocateUid, Good, Located, Shown, Reviewable, adminVars
<1> QED BY <1>1, <1>2, <1>3, <1>4, <1>5, ItemStepInv DEF AllocateUid, Holding

LEMMA StoreItemInv ==
  ASSUME IInv, TInv', UNCHANGED adminVars, NEW r \in Run, StoreItem(r)
  PROVE  IInv'
<1> DEFINE s == sync[r]
           ingested == s.item.msg # 0
           todo == s.todo \ {s.item.uid}
           added == s.added \cup {s.item}
           stored == s.stored \/ ingested
           failed == s.failed \/ ~ingested
           high == IF ingested THEN Max({s.high, s.item.uid}) ELSE s.high
           t == [s EXCEPT !.pc = "scan", !.todo = todo, !.added = added,
                          !.stored = stored, !.failed = failed, !.high = high]
<1>1. sync'[r] = t /\ \A q \in Run \ {r} : sync'[q] = sync[q]
  <2>1. Continue(r, t)
    BY DEF StoreItem
  <2> QED BY <2>1, ContinueFacts DEF IInv
<1>2. s.pc = "store" /\ Good(s.item) /\ \A i \in s.added : Good(i)
  BY DEF StoreItem, IInv, InProgress
<1>3. s \in Session
  BY SessionFacts DEF IInv
<1> HIDE DEF todo, stored, failed, high
<1>4. sync'[r].pc = "scan" /\ sync'[r].added = added
  BY <1>1, <1>3 DEF Session
<1>5. \A i \in sync'[r].added : Good(i)'
  BY <1>2, <1>4, GoodKept DEF StoreItem
<1>6. InProgress(sync[r])'
  BY <1>4, <1>5 DEF InProgress, Holding
<1> QED BY <1>1, <1>2, <1>4, <1>6, LocalStep DEF StoreItem, Holding

LEMMA LoadStateInv ==
  ASSUME IInv, TInv', UNCHANGED adminVars, NEW r \in Run, LoadState(r)
  PROVE  IInv'
<1>1. /\ sync'[r] = [Idle EXCEPT !.pc = "load", !.row = state]
      /\ \A q \in Run \ {r} : sync'[q] = sync[q]
  BY ContinueFacts DEF LoadState, IInv
<1>2. sync'[r].pc = "load" /\ sync'[r].added = {}
  BY <1>1 DEF Idle
<1> QED BY <1>1, <1>2, RestingStep DEF LoadState

\* A session that ends, with or without a commit.
LEMMA EndInv ==
  ASSUME IInv, TInv', UNCHANGED adminVars, NEW r \in Run, End(r),
         items' \subseteq items \cup sync[r].added,
         UNCHANGED <<messages, review>>
  PROVE  IInv'
<1>1. sync'[r] = Idle /\ \A q \in Run \ {r} : sync'[q] = sync[q]
  BY ContinueFacts DEF End, IInv
<1>2. sync'[r].pc = "idle" /\ sync'[r].added = {}
  BY <1>1 DEF Idle
<1> QED BY <1>1, <1>2, RestingStep

LEMMA MarkSyncingInv ==
  ASSUME IInv, TInv', UNCHANGED adminVars, NEW r \in Run, MarkSyncing(r)
  PROVE  IInv'
<1> DEFINE row == [sync[r].row EXCEPT !.status = "syncing"]
           s == Assign(sync[r], row)
           t == [s EXCEPT !.pc = "select", !.locks = TRUE]
<1>1. sync'[r] = t /\ \A q \in Run \ {r} : sync'[q] = sync[q]
  <2>1. Continue(r, t)
    BY DEF MarkSyncing
  <2> QED BY <2>1, ContinueFacts DEF IInv
<1>2. row \in StateRow
  BY SessionFacts DEF IInv, Session, StateRow, SyncStatus
<1> HIDE DEF row
<1>3. s \in Session /\ s.added = sync[r].added
  BY <1>2, SessionFacts, AssignType DEF IInv
<1> HIDE DEF s
<1>4. sync'[r].pc = "select" /\ sync'[r].added = sync[r].added
  BY <1>1, <1>3 DEF Session
<1> QED BY <1>1, <1>4, RestingStep DEF MarkSyncing

LEMMA SelectFolderInv ==
  ASSUME IInv, TInv', UNCHANGED adminVars, NEW r \in Run, SelectFolder(r)
  PROVE  IInv'
<1> DEFINE last == IF sync[r].row.validity \notin {0, folder.epoch}
                   THEN 0 ELSE sync[r].row.seen
           row == [sync[r].row EXCEPT !.seen = last, !.validity = folder.epoch]
           s == Assign(sync[r], row)
<1>1. PICK uids :
        Continue(r, [s EXCEPT !.pc = "scan", !.todo = uids,
                              !.last = last, !.high = last])
  BY DEF SelectFolder
<1> DEFINE t == [s EXCEPT !.pc = "scan", !.todo = uids,
                          !.last = last, !.high = last]
<1>2. sync'[r] = t /\ \A q \in Run \ {r} : sync'[q] = sync[q]
  BY <1>1, ContinueFacts DEF IInv
<1>3. last \in Nat /\ folder.epoch \in Nat
  BY SessionFacts DEF Session, StateRow, IInv, TInv, SyncTypes
<1> HIDE DEF last
<1>4. row \in StateRow
  BY <1>3, SessionFacts DEF IInv, Session, StateRow
<1> HIDE DEF row
<1>5. s \in Session /\ s.added = sync[r].added
  BY <1>4, SessionFacts, AssignType DEF IInv
<1> HIDE DEF s
<1>6. sync'[r].pc = "scan" /\ sync'[r].added = sync[r].added
  BY <1>2, <1>5 DEF Session
<1> QED BY <1>2, <1>6, RestingStep DEF SelectFolder

LEMMA SkipMappedInv ==
  ASSUME IInv, TInv', UNCHANGED adminVars, NEW r \in Run, SkipMapped(r)
  PROVE  IInv'
<1> DEFINE uid == Min(sync[r].todo)
           high == Max({sync[r].high, uid})
<1>1. /\ sync'[r] = [sync[r] EXCEPT !.todo = @ \ {uid}, !.high = high]
      /\ \A q \in Run \ {r} : sync'[q] = sync[q]
  BY ContinueFacts DEF SkipMapped, IInv
<1> HIDE DEF uid, high
<1>2. sync'[r].pc = sync[r].pc /\ sync'[r].added = sync[r].added
  BY <1>1, SessionFacts DEF IInv, Session
<1> QED BY <1>1, <1>2, RestingStep DEF SkipMapped

\* What a commit adds to the items was added by the session.
LEMMA CommitAdds ==
  ASSUME NEW s \in Session, NEW row, Commit(Assign(s, row))
  PROVE  items' = items \cup s.added
BY DEF Commit, Assign, Session

LEMMA IngestInv ==
  ASSUME IInv, TInv', UNCHANGED adminVars, NEW r \in Run, Ingest(r)
  PROVE  IInv'
<1> DEFINE s == sync[r]
           id == Len(messages) + 1
           m == [uid |-> s.item.uid, epoch |-> folder.epoch, verdict |-> "none"]
           new == [s.item EXCEPT !.msg = id]
           t == [Committed(s) EXCEPT !.pc = "analyse", !.item = new]
<1>1. sync'[r] = t /\ \A q \in Run \ {r} : sync'[q] = sync[q]
  <2>1. Continue(r, t)
    BY DEF Ingest, Committed
  <2> QED BY <2>1, ContinueFacts DEF IInv
<1>2. /\ s.pc = "fetch" /\ s.item.epoch = folder.epoch
      /\ items' = items \cup s.added /\ review' = review
  BY DEF Ingest, Commit, IInv, InProgress
<1>3. /\ id \in Nat \ {0} /\ id \notin DOMAIN messages
      /\ DOMAIN messages' = DOMAIN messages \cup {id}
      /\ \A k \in DOMAIN messages : messages'[k] = messages[k]
      /\ messages'[id] = m
  <2>1. m \in Message
    BY SessionFacts DEF IInv, TInv, SyncTypes, Session, Item, Message
  <2>2. messages \in Seq(Message) /\ messages' = Append(messages, m)
    BY SessionFacts DEF Ingest, IInv
  <2> HIDE DEF m
  <2>3. /\ Len(messages) \in Nat /\ DOMAIN messages = 1 .. Len(messages)
        /\ messages' \in Seq(Message) /\ Len(messages') = Len(messages) + 1
        /\ \A k \in 1 .. Len(messages) : messages'[k] = messages[k]
        /\ messages'[Len(messages) + 1] = m
    BY <2>1, <2>2, LenProperties, AppendProperties
  <2>4. DOMAIN messages' = 1 .. Len(messages) + 1
    BY <2>3, LenProperties
  <2> QED BY <2>3, <2>4
<1> HIDE DEF id
<1>4. /\ new.msg = id /\ new.uid = s.item.uid /\ new.epoch = s.item.epoch
  BY SessionFacts DEF IInv, Session, Item
<1> HIDE DEF new
<1>5. sync'[r].pc = "analyse" /\ sync'[r].item = new /\ sync'[r].added = {}
  BY <1>1, SessionFacts DEF Committed, IInv, Session
<1>6. \A i : Good(i) => Good(i)' /\ i.msg # id
  BY <1>2, <1>3 DEF Good, Located, Shown, Reviewable, adminVars
<1>7. \A i : Located(i) => Located(i)' /\ i.msg # id
  BY <1>3 DEF Located
<1>8. \A i \in items' : Good(i)' /\ i.msg # id
  BY <1>2, <1>6 DEF IInv, InProgress
<1>9. ASSUME NEW q \in Run PROVE InProgress(sync[q])'
  <2>1. CASE q = r
    <3>1. Located(sync[r].item)' /\ messages'[sync'[r].item.msg].verdict = "none"
      BY <1>2, <1>3, <1>4, <1>5 DEF Located
    <3> QED BY <2>1, <1>3, <1>4, <1>5, <3>1 DEF InProgress
  <2>2. CASE q # r
    <3>1. sync'[q] = sync[q] /\ InProgress(sync[q])
      BY <2>2, <1>1 DEF IInv
    <3>2. \A i : Located(i) /\ i.msg # 0 => messages'[i.msg] = messages[i.msg]
      BY <1>3 DEF Located
    <3>3. \A i : Located(i) /\ Shown(i) => Shown(i)'
      BY <3>2 DEF Shown, adminVars
    <3> QED BY <3>1, <3>2, <3>3, <1>6, <1>7 DEF InProgress, Holding, adminVars
  <2> QED BY <2>1, <2>2
<1>10. Exclusive'
  <2>1. \A q \in Run \ {r} : sync[q].pc \in Holding => sync[q].item.msg # id
    BY <1>7 DEF IInv, InProgress
  <2>2. \A q \in Run : \A i \in sync'[q].added : i.msg # id
    BY <1>1, <1>5, <1>6 DEF IInv, InProgress
  <2>3. \A i \in items' : i \in items \/ i \in sync[r].added
    BY <1>2
  <2> SUFFICES ASSUME NEW p \in Run, sync'[p].pc \in Holding, sync'[p].item.msg # 0
               PROVE  /\ \A i \in items' : i.msg # sync'[p].item.msg
                      /\ \A q \in Run : \A i \in sync'[q].added :
                           i.msg # sync'[p].item.msg
                      /\ \A q \in Run \ {p} :
                           sync'[q].pc \in Holding =>
                             sync'[q].item.msg # sync'[p].item.msg
    BY DEF Exclusive
  <2>4. CASE p = r
    BY <2>4, <1>1, <1>4, <1>5, <1>8, <2>1, <2>2
  <2>5. CASE p # r
    <3>1. sync'[p] = sync[p] /\ sync[p].item.msg # id
      BY <2>1, <2>5, <1>1
    <3>2. /\ \A i \in items : i.msg # sync[p].item.msg
          /\ \A q \in Run : \A i \in sync[q].added : i.msg # sync[p].item.msg
          /\ \A q \in Run \ {p} :
               sync[q].pc \in Holding => sync[q].item.msg # sync[p].item.msg
      <4>1. sync[p].pc \in Holding /\ sync[p].item.msg # 0
        BY <3>1
      <4>2. Exclusive
        BY DEF IInv
      <4> QED BY <4>1, <4>2 DEF Exclusive
    <3>3. \A i \in items' : i.msg # sync[p].item.msg
      BY <3>2, <2>3
    <3>4. \A q \in Run : \A i \in sync'[q].added : i.msg # sync[p].item.msg
      BY <3>2, <1>1, <1>5
    <3>5. \A q \in Run \ {p} :
            sync'[q].pc \in Holding => sync'[q].item.msg # sync[p].item.msg
      <4>1. sync'[r].item.msg # sync[p].item.msg
        BY <3>1, <1>4, <1>5
      <4> QED BY <3>2, <4>1, <1>1
    <3> QED BY <3>1, <3>3, <3>4, <3>5
  <2> QED BY <2>4, <2>5
<1> QED BY <1>8, <1>9, <1>10 DEF IInv

LEMMA AnalyseInv ==
  ASSUME IInv, TInv', UNCHANGED adminVars, NEW r \in Run, NEW v \in AnalysisVerdict, Analyse(r, v)
  PROVE  IInv'
<1> DEFINE s == sync[r]
           m == s.item.msg
           vis == VerdictToVisibility(v, SoftHold)
           pc == IF ShouldQuarantine(v, SoftHold) THEN "quarantine" ELSE "allocate"
           new == [s.item EXCEPT !.vis = vis]
           t == [s EXCEPT !.pc = pc, !.item = new]
<1>1. sync'[r] = t /\ \A q \in Run \ {r} : sync'[q] = sync[q]
  <2>1. Continue(r, t)
    BY DEF Analyse
  <2> QED BY <2>1, ContinueFacts DEF IInv
<1>2. /\ pc = "quarantine" \/ pc = "allocate"
      /\ pc = "allocate" => vis # "quarantined"
  BY DEF VerdictToVisibility
<1>3. /\ s.pc = "analyse" /\ Located(s.item) /\ m # 0 /\ m \in DOMAIN messages
      /\ items' = items /\ review' = review
  BY DEF Analyse, IInv, InProgress, Holding, Located
<1>4. /\ v \in Verdict /\ v # "none"
  BY SyncConstants DEF Verdict
<1>5. /\ DOMAIN messages' = DOMAIN messages
      /\ messages'[m] = [messages[m] EXCEPT !.verdict = v]
      /\ \A k \in DOMAIN messages \ {m} : messages'[k] = messages[k]
  BY <1>3 DEF Analyse
<1>6. messages[m] \in Message
  <2>1. messages \in [1 .. Len(messages) -> Message]
    BY SessionFacts, LenProperties DEF IInv
  <2> QED BY <2>1, <1>3
<1>7. /\ messages'[m].verdict = v /\ messages'[m].uid = messages[m].uid
      /\ messages'[m].epoch = messages[m].epoch
  BY <1>5, <1>6 DEF Message
<1> HIDE DEF pc
<1>8. /\ new.msg = m /\ new.vis = vis
      /\ new.uid = s.item.uid /\ new.epoch = s.item.epoch
  BY SessionFacts DEF IInv, Session, Item
<1> HIDE DEF new
<1>9. sync'[r].pc = pc /\ sync'[r].item = new /\ sync'[r].added = s.added
  BY <1>1, SessionFacts DEF IInv, Session
<1>10. \A i : Located(i) => Located(i)'
  BY <1>5, <1>7 DEF Located
<1>11. \A i : Located(i) /\ Shown(i) /\ i.msg # m => Shown(i)'
  <2>1. \A i : Located(i) /\ i.msg # 0 /\ i.msg # m => messages'[i.msg] = messages[i.msg]
    BY <1>5 DEF Located
  <2> QED BY <2>1 DEF Shown, adminVars
<1>12. \A i : Good(i) /\ i.msg # m => Good(i)'
  BY <1>3, <1>10, <1>11 DEF Good, Reviewable
<1>13. /\ \A i \in items : i.msg # m
       /\ \A q \in Run : \A i \in sync[q].added : i.msg # m
       /\ \A q \in Run \ {r} : sync[q].pc \in Holding => sync[q].item.msg # m
  <2>1. s.pc \in Holding
    BY <1>3 DEF Holding
  <2> QED BY <2>1, <1>3 DEF IInv, Exclusive
<1>14. \A i \in items' : Good(i)'
  BY <1>3, <1>12, <1>13 DEF IInv
<1>15. ASSUME NEW q \in Run PROVE InProgress(sync[q])'
  <2>1. CASE q = r
    <3>1. Located(sync[r].item)' /\ Shown(sync[r].item)'
      BY <1>3, <1>4, <1>5, <1>7, <1>8, <1>9 DEF Located, Shown, adminVars
    <3>2. pc = "allocate" => Reviewable(sync[r].item)'
      BY <1>2, <1>8, <1>9 DEF Reviewable
    <3>3. \A i \in sync'[r].added : Good(i)'
      BY <1>9, <1>12, <1>13 DEF IInv, InProgress
    <3> QED BY <2>1, <1>2, <1>3, <1>8, <1>9, <3>1, <3>2, <3>3
            DEF InProgress, Good, Holding
  <2>2. CASE q # r
    <3>1. sync'[q] = sync[q] /\ InProgress(sync[q])
      BY <2>2, <1>1 DEF IInv
    <3>2. \A i \in sync[q].added : Good(i)'
      BY <3>1, <1>12, <1>13 DEF InProgress
    <3>3. sync[q].pc \in Holding => sync[q].item.msg # m
      BY <2>2, <1>13
    <3>4. sync[q].pc = "analyse" =>
            messages'[sync[q].item.msg].verdict = messages[sync[q].item.msg].verdict
      BY <3>1, <3>3, <1>5 DEF InProgress, Holding, Located
    <3> QED BY <3>1, <3>2, <3>3, <3>4, <1>10, <1>11, <1>12
            DEF InProgress, Holding, adminVars
  <2> QED BY <2>1, <2>2
<1>16. Exclusive'
  <2>1. ASSUME NEW q \in Run
        PROVE  /\ sync'[q].added = sync[q].added
               /\ sync'[q].item.msg = sync[q].item.msg
               /\ sync'[q].pc \in Holding <=> sync[q].pc \in Holding
    BY <1>1, <1>2, <1>3, <1>8, <1>9 DEF Holding
  <2> HIDE DEF s, m, t
  <2> QED BY <2>1, <1>3 DEF IInv, Exclusive
<1> QED BY <1>14, <1>15, <1>16 DEF IInv

Undisturbed ==
  /\ UNCHANGED <<items, sync>>
  /\ \A i : Good(i) => Good(i)'
  /\ \A i : Located(i) => Located(i)'
  /\ \A i : Located(i) /\ Shown(i) => Shown(i)'
  /\ \A k \in DOMAIN messages :
       messages[k].verdict = "none" \/ k \in again =>
         messages'[k].verdict = "none" \/ k \in again'

\* What an administrator does to a message keeps what is said of the items:
\* he changes none, and the verdict of no message he has not dealt with.
LEMMA AdministerInv ==
  ASSUME IInv, TInv', Administer
  PROVE  IInv'
<1>1. Undisturbed
  <2>1. ASSUME NEW m \in DOMAIN messages, NEW v \in AnalysisVerdict, Reanalyse(m, v)
        PROVE  Undisturbed
    <3>1. /\ DOMAIN messages' = DOMAIN messages
          /\ \A k \in DOMAIN messages \ {m} : messages'[k] = messages[k]
          /\ messages'[m] = [messages[m] EXCEPT !.verdict = v]
      BY <2>1 DEF Reanalyse
    <3>2. messages[m] \in Message
      <4>1. messages \in [1 .. Len(messages) -> Message]
        BY SessionFacts, LenProperties DEF IInv, TInv, SyncTypes
      <4> QED BY <4>1
    <3>3. messages'[m].uid = messages[m].uid /\ messages'[m].epoch = messages[m].epoch
      BY <3>1, <3>2 DEF Message
    <3>4. \A i : Located(i) => Located(i)'
      BY <3>1, <3>3 DEF Located
    <3>5. again' = again \cup {m} /\ released' = released /\ review \subseteq review'
      BY <2>1 DEF Reanalyse
    <3>6. \A i : Located(i) /\ Shown(i) => Shown(i)'
      <4> SUFFICES ASSUME NEW i, Located(i), Shown(i) PROVE Shown(i)'
        OBVIOUS
      <4>1. CASE i.msg = m
        BY <4>1, <3>5 DEF Shown
      <4>2. CASE i.msg # m /\ i.msg # 0
        BY <4>2, <3>1, <3>5 DEF Shown, Located
      <4>3. CASE i.msg # m /\ i.msg = 0
        BY <4>3, <3>5 DEF Shown
      <4> QED BY <4>1, <4>2, <4>3
    <3>7. /\ UNCHANGED <<items, sync>>
          /\ \A k \in DOMAIN messages :
               messages[k].verdict = "none" \/ k \in again =>
                 messages'[k].verdict = "none" \/ k \in again'
      BY <2>1, <3>1, <3>5 DEF Reanalyse
    <3>8. \A i : Good(i) => Good(i)'
      BY <3>4, <3>5, <3>6 DEF Good, Reviewable
    <3> QED BY <3>4, <3>6, <3>7, <3>8 DEF Undisturbed
  <2>2. ASSUME NEW m \in review, Release(m)
        PROVE  Undisturbed
    BY <2>2 DEF Release, syncVars, Undisturbed, Good, Located, Shown, Reviewable
  <2> QED BY <2>1, <2>2 DEF Administer
<1>2. \A i \in items' : Good(i)'
  BY <1>1 DEF IInv, Undisturbed
<1>3. ASSUME NEW q \in Run PROVE InProgress(sync[q])'
  <2>1. sync'[q] = sync[q] /\ InProgress(sync[q])
    BY <1>1 DEF IInv, Undisturbed
  <2>2. sync[q].pc = "analyse" =>
          /\ sync[q].item.msg \in DOMAIN messages
          /\ \/ messages[sync[q].item.msg].verdict = "none"
             \/ sync[q].item.msg \in again
    BY <2>1 DEF InProgress, Holding, Located
  <2> QED BY <1>1, <2>1, <2>2 DEF InProgress, Holding, Undisturbed
<1>4. Exclusive'
  BY <1>1 DEF IInv, Undisturbed, Exclusive
<1> QED BY <1>2, <1>3, <1>4 DEF IInv

LEMMA NextInv == IInv /\ [Next]_vars => IInv'
<1> SUFFICES ASSUME IInv, [Next]_vars PROVE IInv'
  OBVIOUS
<1>1. TInv'
  BY NextType DEF IInv
<1>2. CASE Upstream /\ UNCHANGED adminVars
  <2>1. Unchanged
    BY <1>2 DEF Upstream, Deliver, Expunge, Renumber
  <2>2. UNCHANGED <<items, messages, review, sync>>
    BY <2>1 DEF Unchanged
  <2> QED BY <1>1, <1>2, <2>2 DEF IInv, Good, Located, Shown, Reviewable, InProgress,
                            Exclusive, adminVars
<1>3. ASSUME NEW r \in Run, LoadState(r), UNCHANGED adminVars PROVE IInv'
  BY <1>1, <1>3, LoadStateInv
<1>4. ASSUME NEW r \in Run, Step(r), UNCHANGED adminVars PROVE IInv'
  <2>1. CASE MarkSyncing(r) \/ SelectFolder(r) \/ SkipMapped(r)
    BY <1>1, <1>4, <2>1, MarkSyncingInv, SelectFolderInv, SkipMappedInv
  <2>2. CASE AbortSync(r)
    <3>1. items' = items \cup sync[r].added
      BY <2>2, SessionFacts, CommitAdds DEF AbortSync, IInv
    <3> QED BY <1>1, <1>4, <2>2, <3>1, EndInv DEF AbortSync
  <2>3. CASE StartMessage(r) \/ MessageFails(r) \/ Ingest(r)
    BY <1>1, <1>4, <2>3, StartMessageInv, MessageFailsInv, IngestInv
  <2>4. CASE AnalysisFails(r) \/ \E v \in AnalysisVerdict : Analyse(r, v)
    BY <1>1, <1>4, <2>4, AnalysisFailsInv, AnalyseInv
  <2>5. CASE Quarantine(r) \/ AllocateUid(r) \/ StoreItem(r)
    BY <1>1, <1>4, <2>5, QuarantineInv, AllocateUidInv, StoreItemInv
  <2>6. CASE Finish(r)
    <3>1. items' = items \cup sync[r].added
      BY <2>6, SessionFacts, CommitAdds DEF Finish, IInv
    <3> QED BY <1>1, <1>4, <2>6, <3>1, EndInv DEF Finish
  <2>7. CASE DatabaseError(r)
    BY <1>1, <1>4, <2>7, EndInv DEF DatabaseError
  <2> QED BY <1>4, <2>1, <2>2, <2>3, <2>4, <2>5, <2>6, <2>7 DEF Step
<1>5. ASSUME NEW r \in Run, Crash(r), UNCHANGED adminVars PROVE IInv'
  BY <1>1, <1>5, EndInv DEF Crash
<1>6. CASE UNCHANGED vars
  BY <1>1, <1>6 DEF vars, IInv, Good, Located, Shown, Reviewable, InProgress,
                    Exclusive
<1> QED BY <1>1, <1>2, <1>3, <1>4, <1>5, <1>6, AdministerInv, NextCases

\* Every behaviour keeps the inductive invariant.
THEOREM InvariantHolds == Spec => []IInv
BY InitInv, NextInv, PTL DEF Spec

(***************************************************************************)
(* Whatever the inbox shows as quarantined has an item an analyst can      *)
(* review, although the two rows are written by different transactions of  *)
(* run_analysis and sync_mailbox_folder that a crash, a database error or  *)
(* another sync may separate.                                              *)
(***************************************************************************)
THEOREM QuarantinedIsReviewable == Spec => []QuarantinedHasReviewItem
<1>1. IInv => QuarantinedHasReviewItem
  BY DEF IInv, Good, Reviewable, QuarantinedHasReviewItem
<1> QED BY <1>1, InvariantHolds, PTL

\* An item shows what the verdict stored for its message says
\* (_verdict_to_visibility), however the syncs of the folder interleave and
\* whatever an administrator does meanwhile to other messages.
THEOREM InboxFollowsVerdict == Spec => []VisibilityMatchesVerdict
<1>1. IInv => VisibilityMatchesVerdict
  BY DEF IInv, Good, Shown, VisibilityMatchesVerdict
<1> QED BY <1>1, InvariantHolds, PTL

\* An item maps the UID and the UIDVALIDITY its message was fetched under
\* (ingest_raw_message and the MailboxItem built after it).
THEOREM MappingIsFaithful == Spec => []ItemMapsItsMessage
<1>1. IInv => ItemMapsItsMessage
  BY DEF IInv, Good, Located, ItemMapsItsMessage
<1> QED BY <1>1, InvariantHolds, PTL

-------------------------------------------------------------------------------
(* How far a sync has come *)

\* A batch is finite and no larger than imap_sync_batch_size.
LEMMA BatchBound ==
  ASSUME NEW U \in SUBSET Nat, IsFiniteSet(U)
  PROVE  \A B \in {Newest(U), Oldest(U)} :
           B \subseteq Nat /\ IsFiniteSet(B) /\ Cardinality(B) \in 0 .. BatchSize
<1>1. Newest(U) \in SUBSET U /\ Oldest(U) \in SUBSET U /\ BatchSize \in Nat
  BY SyncConstants DEF Newest, Oldest
<1>2. ASSUME NEW B \in SUBSET U, NEW m \in B, NEW A \in SUBSET U,
             Cardinality(A) < BatchSize, B \ {m} \subseteq A
      PROVE  Cardinality(B) <= BatchSize
  <2>1. IsFiniteSet(A) /\ IsFiniteSet(B) /\ IsFiniteSet(B \ {m})
    BY <1>2, FS_Subset, FS_RemoveElement
  <2>2. /\ Cardinality(B) = Cardinality(B \ {m}) + 1
    BY <2>1, FS_RemoveElement, FS_CardinalityType
  <2>3. Cardinality(B \ {m}) <= Cardinality(A)
    BY <1>2, <2>1, FS_Subset
  <2>4. /\ Cardinality(A) \in Nat /\ Cardinality(B) \in Nat
        /\ Cardinality(B \ {m}) \in Nat
    BY <2>1, FS_CardinalityType
  <2> QED
    BY <1>1, <1>2, <2>2, <2>3, <2>4
<1>3. ASSUME NEW B \in SUBSET U,
             \/ B = {}
             \/ \E m \in B, A \in SUBSET U :
                  Cardinality(A) < BatchSize /\ B \ {m} \subseteq A
      PROVE  B \subseteq Nat /\ IsFiniteSet(B) /\ Cardinality(B) \in 0 .. BatchSize
  <2>1. IsFiniteSet(B) /\ Cardinality(B) \in Nat
    BY FS_Subset, FS_CardinalityType
  <2>2. Cardinality(B) <= BatchSize
    <3>1. CASE B = {}
      BY <1>1, <3>1, FS_EmptySet
    <3>2. CASE B # {}
      <4>1. PICK m \in B, A \in SUBSET U :
              Cardinality(A) < BatchSize /\ B \ {m} \subseteq A
        BY <1>3, <3>2
      <4> QED
        BY <1>2, <4>1
    <3> QED
      BY <3>1, <3>2
  <2> QED
    BY <1>1, <2>1, <2>2
<1>4. ASSUME Newest(U) # {}
      PROVE  \E m \in Newest(U), A \in SUBSET U :
               Cardinality(A) < BatchSize /\ Newest(U) \ {m} \subseteq A
  <2> DEFINE m == Min(Newest(U))
  <2>1. m \in Newest(U) /\ \A u \in Newest(U) : m <= u
    BY <1>1, <1>4, MinFacts
  <2> HIDE DEF m
  <2>2. Cardinality({v \in U : v > m}) < BatchSize
    BY <2>1 DEF Newest
  <2>3. Newest(U) \ {m} \subseteq {v \in U : v > m}
    <3>1. \A u \in Newest(U) : u \in U /\ u \in Nat
      BY <1>1
    <3>2. \A u \in Newest(U) \ {m} : u > m
      BY <2>1, <3>1
    <3> QED
      BY <3>1, <3>2
  <2> QED
    BY <2>1, <2>2, <2>3
<1>5. ASSUME Oldest(U) # {}
      PROVE  \E m \in Oldest(U), A \in SUBSET U :
               Cardinality(A) < BatchSize /\ Oldest(U) \ {m} \subseteq A
  <2> DEFINE f == [u \in Oldest(U) |-> u]
  <2>1. /\ IsFiniteSet(Oldest(U)) /\ f \in [Oldest(U) -> Nat]
        /\ \A u \in Oldest(U) : f[u] = u /\ u \in U /\ u \in Nat
    BY <1>1, FS_Subset
  <2> HIDE DEF f
  <2>2. PICK m \in Oldest(U) : \A u \in Oldest(U) : u <= m
    <3>1. PICK m \in Oldest(U) : \A u \in Oldest(U) : f[u] <= f[m]
      BY <1>5, <2>1, LargestValue
    <3> QED
      BY <2>1, <3>1
  <2>3. Cardinality({v \in U : v < m}) < BatchSize
    BY <2>2 DEF Oldest
  <2>4. Oldest(U) \ {m} \subseteq {v \in U : v < m}
    <3>1. \A u \in Oldest(U) \ {m} : u < m
      BY <2>1, <2>2
    <3> QED
      BY <2>1, <3>1
  <2> QED
    BY <2>3, <2>4
<1>6. Newest(U) \subseteq Nat /\ IsFiniteSet(Newest(U))
      /\ Cardinality(Newest(U)) \in 0 .. BatchSize
  BY <1>1, <1>3, <1>4
<1>7. Oldest(U) \subseteq Nat /\ IsFiniteSet(Oldest(U))
      /\ Cardinality(Oldest(U)) \in 0 .. BatchSize
  BY <1>1, <1>3, <1>5
<1> QED
  BY <1>6, <1>7

(***************************************************************************)
(* The fields of a session that say how far it has come: a step of r       *)
(* begins a sync, takes it up to the messages, skips, takes up, carries on *)
(* or stores one, or ends the sync.                                        *)
(***************************************************************************)
Begins(s, t) ==
  s.pc = "idle" /\ t.pc = "load" /\ ~t.locks /\ t.added = {} /\ t.todo = {}

Marks(s, t) == s.pc = "load" /\ t.pc = "select" /\ t.added = s.added /\ t.todo = s.todo

Selects(s, t) ==
  /\ s.pc = "select" /\ t.pc = "scan"
  /\ t.added = s.added /\ t.locks = s.locks
  /\ t.todo \subseteq Nat /\ IsFiniteSet(t.todo)
  /\ Cardinality(t.todo) \in 0 .. BatchSize

Skips(s, t) ==
  /\ s.pc = "scan" /\ t.pc = "scan" /\ s.todo # {}
  /\ t.added = s.added /\ t.locks = s.locks
  /\ t.todo = s.todo \ {Min(s.todo)}

TakesUp(s, t) ==
  /\ s.pc = "scan" /\ t.pc = "fetch" /\ s.todo # {}
  /\ t.added = s.added /\ t.locks = s.locks /\ t.todo = s.todo
  /\ t.item.uid = Min(s.todo)

\* The steps left until the item of a message can be stored.
Stage(pc) ==
  CASE pc = "fetch"      -> 4
    [] pc = "analyse"    -> 3
    [] pc = "quarantine" -> 2
    [] pc = "allocate"   -> 1
    [] OTHER             -> 0

LEMMA Stages ==
  /\ Stage("fetch") = 4 /\ Stage("analyse") = 3 /\ Stage("quarantine") = 2
  /\ Stage("allocate") = 1 /\ Stage("store") = 0
BY DEF Stage

AtMessage(s) == s.pc \in {"fetch", "analyse", "quarantine", "allocate", "store"}

CarriesOn(s, t) ==
  /\ AtMessage(s) /\ AtMessage(t) /\ Stage(t.pc) < Stage(s.pc)
  /\ t.added \subseteq s.added /\ (t.locks => s.locks) /\ t.todo = s.todo
  /\ t.item.uid = s.item.uid

Stores(s, t) ==
  /\ s.pc = "store" /\ t.pc = "scan" /\ t.locks = s.locks
  /\ t.added = s.added \cup {s.item}
  /\ t.todo = s.todo \ {s.item.uid}

Advances(s, t) ==
  \/ Marks(s, t) \/ Selects(s, t) \/ Skips(s, t) \/ TakesUp(s, t)
  \/ CarriesOn(s, t) \/ Stores(s, t)
  \/ s.pc # "idle" /\ t = Idle

LEMMA MarkSyncingAdvances ==
  ASSUME TInv, NEW r \in Run, MarkSyncing(r)
  PROVE  /\ \A q \in Run \ {r} : sync'[q] = sync[q]
         /\ Marks(sync[r], sync'[r])
<1> DEFINE s == Assign(sync[r], [sync[r].row EXCEPT !.status = "syncing"])
           t == [s EXCEPT !.pc = "select", !.locks = TRUE]
<1>1. sync'[r] = t /\ \A q \in Run \ {r} : sync'[q] = sync[q]
  BY ContinueFacts DEF MarkSyncing
<1>2. t.pc = "select" /\ t.added = sync[r].added /\ t.todo = sync[r].todo
  BY SessionFacts DEF Assign, Session
<1> QED
  BY <1>1, <1>2 DEF MarkSyncing, Marks

LEMMA SelectFolderAdvances ==
  ASSUME TInv, NEW r \in Run, SelectFolder(r)
  PROVE  /\ \A q \in Run \ {r} : sync'[q] = sync[q]
         /\ Selects(sync[r], sync'[r])
<1> DEFINE last == IF sync[r].row.validity \notin {0, folder.epoch}
                   THEN 0 ELSE sync[r].row.seen
           s == Assign(sync[r], [sync[r].row EXCEPT !.seen = last,
                                                    !.validity = folder.epoch])
           new == {u \in SearchFrom(last + 1) : u > last}
<1>1. PICK uids \in {Newest(folder.uids), Oldest(new), {}} :
        Continue(r, [s EXCEPT !.pc = "scan", !.todo = uids,
                              !.last = last, !.high = last])
  BY DEF SelectFolder
<1>2. folder.uids \in SUBSET Nat /\ IsFiniteSet(folder.uids)
  BY DEF TInv, SyncTypes
<1>3. new \in SUBSET Nat /\ IsFiniteSet(new)
  <2>1. new \in SUBSET folder.uids
    BY DEF SearchFrom
  <2> HIDE DEF new
  <2> QED
    BY <1>2, <2>1, FS_Subset
<1> HIDE DEF new
<1>4. uids \subseteq Nat /\ IsFiniteSet(uids) /\ Cardinality(uids) \in 0 .. BatchSize
  <2>1. CASE uids = {}
    BY <2>1, FS_EmptySet, SyncConstants
  <2> QED
    BY <1>1, <1>2, <1>3, <2>1, BatchBound
<1> DEFINE t == [s EXCEPT !.pc = "scan", !.todo = uids, !.last = last, !.high = last]
<1>5. sync'[r] = t /\ \A q \in Run \ {r} : sync'[q] = sync[q]
  BY <1>1, ContinueFacts
<1> HIDE DEF last
<1>6. /\ t.pc = "scan" /\ t.added = sync[r].added /\ t.locks = sync[r].locks
      /\ t.todo = uids
  BY SessionFacts DEF Assign, Session
<1> HIDE DEF t
<1> QED
  BY <1>4, <1>5, <1>6 DEF SelectFolder, Selects

LEMMA MessageAdvances ==
  ASSUME TInv, NEW r \in Run,
         \/ MessageFails(r) \/ Ingest(r) \/ AnalysisFails(r)
         \/ (\E v \in AnalysisVerdict : Analyse(r, v))
         \/ Quarantine(r) \/ AllocateUid(r)
  PROVE  /\ \A q \in Run \ {r} : sync'[q] = sync[q]
         /\ CarriesOn(sync[r], sync'[r])
<1> DEFINE s == sync[r]
<1>1. s \in Session /\ s.item \in Item
  BY SessionFacts DEF Session
<1>2. ASSUME NEW pc, NEW new, Stage(pc) < Stage(s.pc), AtMessage(s),
             pc \in {"analyse", "quarantine", "allocate", "store"}, new.uid = s.item.uid,
             Continue(r, [s EXCEPT !.pc = pc, !.item = new])
      PROVE  /\ \A q \in Run \ {r} : sync'[q] = sync[q]
             /\ CarriesOn(s, sync'[r])
  <2> DEFINE t == [s EXCEPT !.pc = pc, !.item = new]
  <2>1. sync'[r] = t /\ \A q \in Run \ {r} : sync'[q] = sync[q]
    BY <1>2, ContinueFacts
  <2>2. /\ t.pc = pc /\ t.item = new /\ t.added = s.added /\ t.locks = s.locks
        /\ t.todo = s.todo
    BY <1>1 DEF Session
  <2> HIDE DEF t
  <2> QED
    BY <1>2, <2>1, <2>2 DEF CarriesOn, AtMessage
<1>3. CASE MessageFails(r) \/ Quarantine(r)
  <2>1. [s EXCEPT !.pc = "allocate"] = [s EXCEPT !.pc = "allocate", !.item = s.item]
    BY <1>1 DEF Session
  <2>2. Continue(r, [s EXCEPT !.pc = "allocate"]) /\ s.pc \in {"fetch", "quarantine"}
    BY <1>3 DEF MessageFails, Quarantine
  <2> QED
    <3>1. Stage("allocate") < Stage(s.pc) /\ AtMessage(s)
      BY <2>1, <2>2, Stages DEF AtMessage
    <3> QED
      BY <1>2, <2>1, <2>2, <3>1
<1>4. CASE Ingest(r)
  <2> DEFINE new == [s.item EXCEPT !.msg = Len(messages) + 1]
             t == [Committed(s) EXCEPT !.pc = "analyse", !.item = new]
  <2>1. sync'[r] = t /\ (\A q \in Run \ {r} : sync'[q] = sync[q]) /\ s.pc = "fetch"
    <3>1. Continue(r, t) /\ s.pc = "fetch"
      BY <1>4 DEF Ingest, Committed
    <3> QED
      BY <3>1, ContinueFacts
  <2>2. new.uid = s.item.uid
    BY <1>1 DEF Item
  <2> HIDE DEF new
  <2>3. t.pc = "analyse" /\ t.added = {} /\ ~t.locks /\ t.todo = s.todo /\ t.item = new
    BY <1>1 DEF Committed, Session
  <2> HIDE DEF t
  <2> QED
    BY <2>1, <2>2, <2>3, Stages DEF CarriesOn, AtMessage
<1>5. CASE AnalysisFails(r)
  <2> DEFINE new == [s.item EXCEPT !.vis = VerdictToVisibility("allow", SoftHold)]
  <2>1. Continue(r, [s EXCEPT !.pc = "allocate", !.item = new]) /\ s.pc = "analyse"
    BY <1>5 DEF AnalysisFails
  <2>2. new.uid = s.item.uid
    BY <1>1 DEF Item
  <2> HIDE DEF new
  <2> QED
    <3>1. Stage("allocate") < Stage(s.pc) /\ AtMessage(s)
      BY <2>1, <2>2, Stages DEF AtMessage
    <3> QED
      BY <1>2, <2>1, <2>2, <3>1
<1>6. ASSUME NEW v \in AnalysisVerdict, Analyse(r, v)
      PROVE  /\ \A q \in Run \ {r} : sync'[q] = sync[q]
             /\ CarriesOn(s, sync'[r])
  <2> DEFINE new == [s.item EXCEPT !.vis = VerdictToVisibility(v, SoftHold)]
             pc == IF ShouldQuarantine(v, SoftHold) THEN "quarantine" ELSE "allocate"
  <2>1. Continue(r, [s EXCEPT !.pc = pc, !.item = new]) /\ s.pc = "analyse"
    BY <1>6 DEF Analyse
  <2>2. new.uid = s.item.uid /\ pc \in {"quarantine", "allocate"}
    BY <1>1 DEF Item
  <2> HIDE DEF new, pc
  <2> QED
    <3>1. Stage(pc) < Stage(s.pc) /\ AtMessage(s)
      BY <2>1, <2>2, Stages DEF AtMessage
    <3> QED
      BY <1>2, <2>1, <2>2, <3>1
<1>7. CASE AllocateUid(r)
  <2> DEFINE next == Max({0} \cup {i.mwuid : i \in Sees(r)}) + 1
             new == [s.item EXCEPT !.mwuid = next]
  <2>1. Continue(r, [s EXCEPT !.pc = "store", !.item = new]) /\ s.pc = "allocate"
    BY <1>7 DEF AllocateUid
  <2> HIDE DEF next
  <2>2. new.uid = s.item.uid
    BY <1>1 DEF Item
  <2> HIDE DEF new
  <2> QED
    <3>1. Stage("store") < Stage(s.pc) /\ AtMessage(s)
      BY <2>1, <2>2, Stages DEF AtMessage
    <3> QED
      BY <1>2, <2>1, <2>2, <3>1
<1> QED
  BY <1>3, <1>4, <1>5, <1>6, <1>7

LEMMA StepAdvances ==
  ASSUME TInv, NEW r \in Run, Step(r) \/ Crash(r)
  PROVE  /\ \A q \in Run \ {r} : sync'[q] = sync[q]
         /\ Advances(sync[r], sync'[r])
         /\ Stores(sync[r], sync'[r]) => ~Contended(r, sync[r].item.uid)
         /\ Marks(sync[r], sync'[r]) => LockFree(r)
<1> DEFINE s == sync[r]
<1>1. s \in Session
  BY SessionFacts
<1>2. CASE MarkSyncing(r)
  BY <1>2, MarkSyncingAdvances DEF MarkSyncing, Advances, Marks, Stores
<1>3. CASE SelectFolder(r)
  BY <1>3, SelectFolderAdvances DEF Advances, Selects, Stores, Marks
<1>4. CASE SkipMapped(r)
  <2> DEFINE uid == Min(s.todo)
             high == Max({s.high, uid})
             t == [s EXCEPT !.todo = s.todo \ {uid}, !.high = high]
  <2>1. sync'[r] = t /\ \A q \in Run \ {r} : sync'[q] = sync[q]
    BY <1>4, ContinueFacts DEF SkipMapped
  <2>2. s.pc = "scan" /\ s.todo # {}
    BY <1>4 DEF SkipMapped
  <2>3. t.pc = s.pc /\ t.added = s.added /\ t.locks = s.locks /\ t.todo = s.todo \ {uid}
    BY <1>1 DEF Session
  <2> HIDE DEF t
  <2> QED
    BY <2>1, <2>2, <2>3 DEF Advances, Skips, Stores, Marks
<1>5. CASE StartMessage(r)
  <2> DEFINE uid == Min(s.todo)
             new == [NoItem EXCEPT !.uid = uid, !.epoch = s.row.validity]
             t == [s EXCEPT !.pc = "fetch", !.item = new]
  <2>1. sync'[r] = t /\ \A q \in Run \ {r} : sync'[q] = sync[q]
    BY <1>5, ContinueFacts DEF StartMessage
  <2>2. s.pc = "scan" /\ s.todo # {} /\ new.uid = uid
    BY <1>5 DEF StartMessage, NoItem
  <2> HIDE DEF new
  <2>3. /\ t.pc = "fetch" /\ t.added = s.added /\ t.locks = s.locks /\ t.todo = s.todo
        /\ t.item = new
    BY <1>1 DEF Session
  <2> HIDE DEF t
  <2> QED
    BY <2>1, <2>2, <2>3 DEF Advances, TakesUp, Stores, Marks
<1>6. CASE \/ MessageFails(r) \/ Ingest(r) \/ AnalysisFails(r)
           \/ (\E v \in AnalysisVerdict : Analyse(r, v))
           \/ Quarantine(r) \/ AllocateUid(r)
  <2>1. CarriesOn(s, sync'[r]) /\ \A q \in Run \ {r} : sync'[q] = sync[q]
    BY <1>6, MessageAdvances
  <2> QED
    BY <2>1 DEF Advances, CarriesOn, AtMessage, Stores, Marks
<1>7. CASE StoreItem(r)
  <2> DEFINE ingested == s.item.msg # 0
             todo == s.todo \ {s.item.uid}
             added == s.added \cup {s.item}
             stored == s.stored \/ ingested
             failed == s.failed \/ ~ingested
             high == IF ingested THEN Max({s.high, s.item.uid}) ELSE s.high
             t == [s EXCEPT !.pc = "scan", !.todo = todo, !.added = added,
                            !.stored = stored, !.failed = failed, !.high = high]
  <2>1. sync'[r] = t /\ \A q \in Run \ {r} : sync'[q] = sync[q]
    <3>1. Continue(r, t)
      BY <1>7 DEF StoreItem
    <3> QED
      BY <3>1, ContinueFacts
  <2>2. s.pc = "store" /\ ~Contended(r, s.item.uid)
    BY <1>7 DEF StoreItem
  <2> HIDE DEF stored, failed, high
  <2>3. t.pc = "scan" /\ t.added = added /\ t.locks = s.locks /\ t.todo = todo
    BY <1>1 DEF Session
  <2> HIDE DEF t
  <2> QED
    BY <2>1, <2>2, <2>3 DEF Advances, Stores, Marks
<1>8. CASE AbortSync(r) \/ Finish(r) \/ DatabaseError(r) \/ Crash(r)
  <2>1. sync'[r] = Idle /\ \A q \in Run \ {r} : sync'[q] = sync[q]
    BY <1>8, ContinueFacts DEF AbortSync, Finish, DatabaseError, Crash, End
  <2>2. s.pc # "idle"
    BY <1>8 DEF AbortSync, Finish, DatabaseError, Crash, Deadlocked, WaitsFor, AwaitsRow,
                AwaitsUid
  <2>3. Idle.pc = "idle"
    BY DEF Idle
  <2> QED
    BY <2>1, <2>2, <2>3 DEF Advances, Stores, Marks
<1> QED
  BY <1>2, <1>3, <1>4, <1>5, <1>6, <1>7, <1>8 DEF Step

LEMMA LoadBegins ==
  ASSUME TInv, NEW r \in Run, LoadState(r)
  PROVE  /\ \A q \in Run \ {r} : sync'[q] = sync[q]
         /\ Begins(sync[r], sync'[r])
<1> DEFINE t == [Idle EXCEPT !.pc = "load", !.row = state]
<1>1. sync'[r] = t /\ \A q \in Run \ {r} : sync'[q] = sync[q]
  BY ContinueFacts DEF LoadState
<1>2. t.pc = "load" /\ ~t.locks /\ t.added = {} /\ t.todo = {}
  BY DEF Idle
<1> HIDE DEF t
<1> QED
  BY <1>1, <1>2 DEF LoadState, Begins

(***************************************************************************)
(* What a session holds: nothing before it has marked the row; a batch at  *)
(* most to do; and UIDs in ascending order, those of the items it added    *)
(* below the one it works on, and that one first of those to do.           *)
(***************************************************************************)
Holds(s) ==
  /\ s.pc \in {"idle", "load", "select"} => s.added = {}
  /\ s.pc \in {"idle", "load"} => ~s.locks
  /\ IsFiniteSet(s.todo) /\ Cardinality(s.todo) \in 0 .. BatchSize
  /\ AtMessage(s) => s.item.uid \in s.todo /\ \A u \in s.todo : s.item.uid <= u
  /\ \A i \in s.added : \A u \in s.todo : i.uid < u

\* The steps a session takes at most until its sync has ended.
StepsLeft(s) ==
  CASE s.pc = "idle"   -> 0
    [] s.pc = "load"   -> 6 * BatchSize + 3
    [] s.pc = "select" -> 6 * BatchSize + 2
    [] s.pc = "scan"   -> 6 * Cardinality(s.todo) + 1
    [] OTHER           -> 6 * Cardinality(s.todo) - 4 + Stage(s.pc)

LEMMA StepsLeftFacts ==
  ASSUME NEW s
  PROVE  /\ s.pc = "idle" => StepsLeft(s) = 0
         /\ s.pc = "load" => StepsLeft(s) = 6 * BatchSize + 3
         /\ s.pc = "select" => StepsLeft(s) = 6 * BatchSize + 2
         /\ s.pc = "scan" => StepsLeft(s) = 6 * Cardinality(s.todo) + 1
         /\ AtMessage(s) => StepsLeft(s) = 6 * Cardinality(s.todo) - 4 + Stage(s.pc)
BY DEF StepsLeft, AtMessage

LEMMA StageBound == ASSUME NEW pc PROVE Stage(pc) \in 0 .. 4
BY DEF Stage

\* A message that is done leaves one less to do.
LEMMA OneLess ==
  ASSUME NEW T, IsFiniteSet(T), NEW x \in T, Cardinality(T) \in 0 .. BatchSize
  PROVE  /\ IsFiniteSet(T \ {x}) /\ Cardinality(T \ {x}) \in 0 .. BatchSize
         /\ Cardinality(T \ {x}) = Cardinality(T) - 1
         /\ Cardinality(T) >= 1
<1>1. IsFiniteSet(T \ {x}) /\ Cardinality(T \ {x}) = Cardinality(T) - 1
  BY FS_RemoveElement
<1>2. Cardinality(T \ {x}) \in Nat /\ Cardinality(T) \in Nat
  BY <1>1, FS_CardinalityType
<1> QED
  BY <1>1, <1>2, SyncConstants

LEMMA IdleHolds == Holds(Idle)
<1>1. Idle.pc = "idle" /\ Idle.added = {} /\ ~Idle.locks /\ Idle.todo = {}
  BY DEF Idle
<1>2. IsFiniteSet({}) /\ Cardinality({}) = 0 /\ BatchSize \in Nat
  BY FS_EmptySet, SyncConstants
<1> QED
  BY <1>1, <1>2 DEF Holds, AtMessage

LEMMA HoldsKept ==
  ASSUME NEW s \in Session, NEW t \in Session, Holds(s), Advances(s, t)
  PROVE  Holds(t) /\ StepsLeft(t) < StepsLeft(s)
<1>1. /\ s.todo \subseteq Nat /\ IsFiniteSet(s.todo) /\ BatchSize \in Nat
      /\ Cardinality(s.todo) \in 0 .. BatchSize
      /\ s.item.uid \in Nat
      /\ s.pc \in {"idle", "load", "select", "scan"} \/ AtMessage(s)
  BY SyncConstants DEF Holds, Session, Item, AtMessage
<1>2. CASE Marks(s, t)
  BY <1>1, <1>2, StepsLeftFacts DEF Marks, Holds, AtMessage
<1>3. CASE Selects(s, t)
  BY <1>1, <1>3, StepsLeftFacts DEF Selects, Holds, AtMessage
<1>4. CASE Skips(s, t)
  <2>1. Min(s.todo) \in s.todo
    BY <1>1, <1>4, MinFacts DEF Skips
  <2>2. /\ IsFiniteSet(t.todo) /\ Cardinality(t.todo) \in 0 .. BatchSize
        /\ Cardinality(t.todo) = Cardinality(s.todo) - 1
    BY <1>1, <1>4, <2>1, OneLess DEF Skips
  <2>3. Holds(t)
    BY <1>4, <2>2 DEF Skips, Holds, AtMessage
  <2>4. /\ StepsLeft(s) = 6 * Cardinality(s.todo) + 1
        /\ StepsLeft(t) = 6 * Cardinality(t.todo) + 1
    BY <1>4, StepsLeftFacts DEF Skips
  <2> QED
    BY <1>1, <2>2, <2>3, <2>4
<1>5. CASE TakesUp(s, t)
  <2>1. Min(s.todo) \in s.todo /\ \A u \in s.todo : Min(s.todo) <= u
    BY <1>1, <1>5, MinFacts DEF TakesUp
  <2>2. Holds(t)
    BY <1>1, <1>5, <2>1 DEF TakesUp, Holds, AtMessage
  <2>3. AtMessage(t) /\ Stage(t.pc) = 4
    BY <1>5, Stages DEF TakesUp, AtMessage
  <2>4. StepsLeft(t) = 6 * Cardinality(s.todo) - 4 + 4
    BY <1>5, <2>3, StepsLeftFacts DEF TakesUp
  <2>5. StepsLeft(s) = 6 * Cardinality(s.todo) + 1
    BY <1>5, StepsLeftFacts DEF TakesUp
  <2> QED
    BY <1>1, <2>2, <2>4, <2>5
<1>6. CASE CarriesOn(s, t)
  <2>1. Holds(t)
    BY <1>1, <1>6 DEF CarriesOn, Holds, AtMessage
  <2>2. /\ StepsLeft(s) = 6 * Cardinality(s.todo) - 4 + Stage(s.pc)
        /\ StepsLeft(t) = 6 * Cardinality(s.todo) - 4 + Stage(t.pc)
    BY <1>6, StepsLeftFacts DEF CarriesOn
  <2>3. Stage(s.pc) \in 0 .. 4 /\ Stage(t.pc) \in 0 .. 4 /\ Stage(t.pc) < Stage(s.pc)
    BY <1>6, StageBound DEF CarriesOn
  <2> QED
    BY <1>1, <2>1, <2>2, <2>3
<1>7. CASE Stores(s, t)
  <2>1. s.item.uid \in s.todo /\ AtMessage(s) /\ \A u \in s.todo : s.item.uid <= u
    BY <1>7 DEF Stores, Holds, AtMessage
  <2>2. /\ IsFiniteSet(t.todo) /\ Cardinality(t.todo) \in 0 .. BatchSize
        /\ Cardinality(t.todo) = Cardinality(s.todo) - 1
    BY <1>1, <1>7, <2>1, OneLess DEF Stores
  <2>3. \A i \in t.added : \A u \in t.todo : i.uid < u
    BY <1>1, <1>7, <2>1 DEF Stores, Holds
  <2>4. Holds(t)
    BY <1>7, <2>2, <2>3 DEF Stores, Holds, AtMessage
  <2>5. StepsLeft(s) = 6 * Cardinality(s.todo) - 4 + 0
    BY <1>7, <2>1, StepsLeftFacts, Stages DEF Stores
  <2>6. StepsLeft(t) = 6 * Cardinality(t.todo) + 1
    BY <1>7, StepsLeftFacts DEF Stores
  <2> QED
    BY <1>1, <2>2, <2>4, <2>5, <2>6
<1>8. CASE s.pc # "idle" /\ t = Idle
  <2>1. StepsLeft(t) = 0
    BY <1>8, StepsLeftFacts DEF Idle
  <2>2. AtMessage(s) => Cardinality(s.todo) >= 1 /\ Stage(s.pc) \in 0 .. 4
    BY <1>1, OneLess, StageBound DEF Holds
  <2>3. StepsLeft(s) > 0
    BY <1>1, <1>8, <2>2, StepsLeftFacts
  <2> QED
    BY <1>8, <2>1, <2>3, IdleHolds
<1> QED
  BY <1>2, <1>3, <1>4, <1>5, <1>6, <1>7, <1>8 DEF Advances

(***************************************************************************)
(* Sessions keep out of each other's way: one holds the row at most, and   *)
(* no two have added an item for the same UID.                             *)
(***************************************************************************)
Apart ==
  \A r, q \in Run : r # q =>
    /\ ~(sync[r].locks /\ sync[q].locks)
    /\ \A i \in sync[r].added, j \in sync[q].added : i.uid # j.uid

ProgressInv == TInv /\ (\A r \in Run : Holds(sync[r])) /\ Apart

LEMMA InitProgress == Init => ProgressInv
<1> SUFFICES ASSUME Init PROVE ProgressInv
  OBVIOUS
<1>1. \A r \in Run : sync[r] = Idle
  BY DEF Init
<1>2. Idle.added = {} /\ ~Idle.locks
  BY DEF Idle
<1> QED
  BY <1>1, <1>2, InitType, IdleHolds DEF ProgressInv, Apart

\* A session that moves takes a lock that is free, or adds a UID nobody has.
LEMMA ApartKept ==
  ASSUME ProgressInv, NEW r \in Run, \A q \in Run \ {r} : sync'[q] = sync[q],
         Advances(sync[r], sync'[r]) \/ Begins(sync[r], sync'[r]),
         Stores(sync[r], sync'[r]) => ~Contended(r, sync[r].item.uid),
         Marks(sync[r], sync'[r]) => LockFree(r)
  PROVE  Apart'
<1> DEFINE s == sync[r]
           t == sync'[r]
<1>1. ASSUME NEW q \in Run \ {r}
      PROVE  /\ ~(t.locks /\ sync'[q].locks)
             /\ \A i \in t.added, j \in sync'[q].added : i.uid # j.uid
  <2>1. sync'[q] = sync[q] /\ (\A i \in s.added, j \in sync[q].added : i.uid # j.uid)
        /\ ~(s.locks /\ sync[q].locks)
    BY DEF ProgressInv, Apart
  <2>2. CASE Stores(s, t)
    BY <2>1, <2>2 DEF Stores, Contended
  <2>3. CASE Marks(s, t)
    BY <2>1, <2>3 DEF Marks, LockFree
  <2>4. (t.added \subseteq s.added /\ (t.locks => s.locks)) \/ Stores(s, t) \/ Marks(s, t)
    BY DEF Advances, Begins, Selects, Skips, TakesUp, CarriesOn, Idle
  <2> QED
    BY <2>1, <2>2, <2>3, <2>4
<1> QED
  BY <1>1 DEF ProgressInv, Apart

(***************************************************************************)
(* A step keeps all this, and brings the session that takes it nearer to   *)
(* its end.                                                                *)
(***************************************************************************)
LEMMA NextProgress ==
  ProgressInv /\ [Next]_vars =>
    /\ ProgressInv'
    /\ \A r \in Run : sync[r].pc # "idle" =>
         sync'[r] = sync[r] \/ StepsLeft(sync'[r]) < StepsLeft(sync[r])
<1> SUFFICES ASSUME ProgressInv, [Next]_vars
             PROVE  /\ ProgressInv'
                    /\ \A r \in Run : sync[r].pc # "idle" =>
                         sync'[r] = sync[r] \/ StepsLeft(sync'[r]) < StepsLeft(sync[r])
  OBVIOUS
<1>1. /\ TInv /\ TInv'
      /\ \A r \in Run : sync[r] \in Session /\ sync'[r] \in Session /\ Holds(sync[r])
  BY NextType DEF ProgressInv, TInv, SyncTypes
<1>2. CASE UNCHANGED vars \/ Upstream \/ Administer
  <2>1. sync' = sync
    BY <1>2 DEF vars, Upstream, Deliver, Expunge, Renumber, Unchanged,
                Administer, Reanalyse, Release, syncVars
  <2> QED
    BY <1>1, <2>1 DEF ProgressInv, Apart
<1>3. ASSUME NEW r \in Run, LoadState(r)
      PROVE  /\ ProgressInv'
             /\ \A q \in Run : sync[q].pc # "idle" => sync'[q] = sync[q]
  <2>1. /\ \A q \in Run \ {r} : sync'[q] = sync[q]
        /\ Begins(sync[r], sync'[r])
    BY <1>1, <1>3, LoadBegins
  <2>2. Apart'
    BY <2>1, ApartKept DEF Begins, Stores, Marks
  <2>3. Holds(sync'[r])
    BY <2>1, FS_EmptySet, SyncConstants DEF Begins, Holds, AtMessage
  <2> QED
    BY <1>1, <2>1, <2>2, <2>3 DEF ProgressInv, Begins
<1>4. ASSUME NEW r \in Run, Step(r) \/ Crash(r)
      PROVE  /\ ProgressInv'
             /\ \A q \in Run \ {r} : sync'[q] = sync[q]
             /\ StepsLeft(sync'[r]) < StepsLeft(sync[r])
  <2>1. /\ \A q \in Run \ {r} : sync'[q] = sync[q]
        /\ Advances(sync[r], sync'[r])
        /\ Stores(sync[r], sync'[r]) => ~Contended(r, sync[r].item.uid)
        /\ Marks(sync[r], sync'[r]) => LockFree(r)
    BY <1>1, <1>4, StepAdvances
  <2>2. Apart'
    BY <2>1, ApartKept
  <2>3. Holds(sync'[r]) /\ StepsLeft(sync'[r]) < StepsLeft(sync[r])
    BY <1>1, <2>1, HoldsKept
  <2> QED
    BY <1>1, <2>1, <2>2, <2>3 DEF ProgressInv
<1> QED
  BY <1>2, <1>3, <1>4, NextCases

LEMMA ProgressHolds == Spec => []ProgressInv
BY InitProgress, NextProgress, PTL DEF Spec

(***************************************************************************)
(* Every sync that was triggered comes to an end: it takes at most six     *)
(* steps for each message of its batch and three more, and nothing another *)
(* sync, the folder or the database does takes it back (the loop of        *)
(* sync_mailbox_folder over new_uids).  Together with SyncsAreNotStuck     *)
(* this is the argument behind RunEnds; what it leaves to TLC is fairness. *)
(***************************************************************************)
THEOREM SyncsEnd ==
  Spec => /\ [](\A r \in Run : StepsLeft(sync[r]) \in 0 .. 6 * BatchSize + 3)
          /\ [][\A r \in Run : sync[r].pc # "idle" =>
                  \/ sync'[r] = sync[r]
                  \/ StepsLeft(sync'[r]) < StepsLeft(sync[r])]_vars
<1> DEFINE Limited == \A r \in Run : StepsLeft(sync[r]) \in 0 .. 6 * BatchSize + 3
           Nearer == \A r \in Run : sync[r].pc # "idle" =>
                       \/ sync'[r] = sync[r]
                       \/ StepsLeft(sync'[r]) < StepsLeft(sync[r])
<1>1. ProgressInv => Limited
  <2> SUFFICES ASSUME ProgressInv, NEW r \in Run
               PROVE  StepsLeft(sync[r]) \in 0 .. 6 * BatchSize + 3
    OBVIOUS
  <2> DEFINE s == sync[r]
  <2>1. Holds(s) /\ s \in Session /\ BatchSize \in Nat
    BY SessionFacts, SyncConstants DEF ProgressInv
  <2>2. /\ s.pc \in {"idle", "load", "select", "scan"} \/ AtMessage(s)
        /\ Cardinality(s.todo) \in 0 .. BatchSize
        /\ AtMessage(s) => Cardinality(s.todo) >= 1
    BY <2>1, OneLess DEF Holds, Session, AtMessage
  <2>3. Stage(s.pc) \in 0 .. 4
    BY StageBound
  <2> HIDE DEF s
  <2>4. CASE AtMessage(s)
    <3>1. StepsLeft(s) = 6 * Cardinality(s.todo) - 4 + Stage(s.pc)
      BY <2>4, StepsLeftFacts
    <3> QED
      BY <2>1, <2>2, <2>3, <2>4, <3>1 DEF s
  <2>5. CASE s.pc \in {"idle", "load", "select", "scan"}
    <3>1. StepsLeft(s) \in {0, 6 * BatchSize + 3, 6 * BatchSize + 2,
                            6 * Cardinality(s.todo) + 1}
      BY <2>5, StepsLeftFacts
    <3> QED
      BY <2>1, <2>2, <3>1 DEF s
  <2> QED
    BY <2>2, <2>4, <2>5
<1>2. ProgressInv /\ [Next]_vars => [Nearer]_vars
  BY NextProgress
<1> HIDE DEF Limited, Nearer
<1>3. Spec => []Limited
  BY <1>1, ProgressHolds, PTL
<1>4. Spec => [][Nearer]_vars
  BY <1>2, ProgressHolds, PTL DEF Spec
<1> QED
  BY <1>3, <1>4 DEF Limited, Nearer

-------------------------------------------------------------------------------
(* Who waits for whom *)

\* Syncs that all wait for one of them: somebody is on a cycle.
WaitForEachOther(S) ==
  S # {} /\ \A p \in S : \E q \in S : WaitsFor(p, q)

LEMMA CycleIsFound ==
  ASSUME IsFiniteSet(Run), NEW S \in SUBSET Run, WaitForEachOther(S)
  PROVE  \E r \in S : Deadlocked(r)
<1> DEFINE Sizes == {Cardinality(T) : T \in {U \in SUBSET S : WaitForEachOther(U)}}
<1>1. \A T \in SUBSET S : IsFiniteSet(T) /\ Cardinality(T) \in Nat
  BY FS_Subset, FS_CardinalityType
<1>2. Sizes \subseteq Nat /\ Sizes # {}
  BY <1>1
<1>3. PICK T \in SUBSET S : /\ WaitForEachOther(T)
                            /\ \A U \in SUBSET S :
                                 WaitForEachOther(U) => Cardinality(T) <= Cardinality(U)
  <2>1. PICK n \in Sizes : \A k \in Sizes : n <= k
    <3> HIDE DEF Sizes
    <3> QED
      BY <1>2, LeastNumber
  <2> QED
    BY <2>1
<1>4. ASSUME NEW p \in T, \A q \in T : ~WaitsFor(q, p)
      PROVE  FALSE
  <2>1. WaitForEachOther(T \ {p})
    BY <1>3, <1>4 DEF WaitForEachOther, WaitsFor
  <2>2. Cardinality(T \ {p}) = Cardinality(T) - 1 /\ Cardinality(T) \in Nat
    BY <1>1, FS_RemoveElement
  <2>3. Cardinality(T) <= Cardinality(T \ {p})
    BY <1>3, <2>1
  <2> QED
    BY <2>2, <2>3
<1>5. PICK r \in T : TRUE
  BY <1>3 DEF WaitForEachOther
<1>6. Deadlocked(r)
  BY <1>3, <1>4 DEF Deadlocked, WaitForEachOther
<1> QED
  BY <1>6

\* r is running, and one of its own steps is not held up: what it needs of
\* the row and of the unique key is free, or it needs neither.
GoesOn(r) ==
  \/ sync[r].pc \in {"select", "fetch", "analyse", "quarantine", "allocate"}
  \/ sync[r].pc = "load" /\ LockFree(r)
  \/ sync[r].pc = "scan" /\ (sync[r].todo # {} \/ LockFree(r))
  \/ sync[r].pc = "store" /\ (\/ Mapped(r, sync[r].item.uid)
                              \/ ~Contended(r, sync[r].item.uid))

(***************************************************************************)
(* Of running syncs that wait for nobody but each other, as a sync does    *)
(* with those it waits for directly or through others, one goes on, or the *)
(* database finds it on a cycle and fails it.                              *)
(***************************************************************************)
SomebodyGoesOn ==
  \A S \in SUBSET Run :
    /\ S # {}
    /\ \A p \in S : sync[p].pc # "idle" /\ \A q \in Run : WaitsFor(p, q) => q \in S
    => \E r \in S : GoesOn(r) \/ Deadlocked(r)

LEMMA OthersAwaited ==
  ASSUME ProgressInv, NEW r \in Run, sync[r].pc # "idle", ~GoesOn(r)
  PROVE  \E q \in Run : sync[q].pc # "idle" /\ WaitsFor(r, q)
<1>1. sync[r] \in Session
  BY SessionFacts DEF ProgressInv
<1>2. \/ sync[r].pc = "load" /\ ~LockFree(r)
      \/ sync[r].pc = "scan" /\ sync[r].todo = {} /\ ~LockFree(r)
      \/ sync[r].pc = "store" /\ Contended(r, sync[r].item.uid)
  BY <1>1 DEF GoesOn, Session
<1>3. PICK q \in Run \ {r} : WaitsFor(r, q)
  BY <1>2 DEF WaitsFor, AwaitsRow, AwaitsUid, LockFree, Contended
<1>4. sync[q].locks \/ sync[q].added # {}
  BY <1>3 DEF WaitsFor, AwaitsUid
<1>5. sync[q].pc # "idle"
  BY <1>4 DEF ProgressInv, Holds
<1> QED
  BY <1>3, <1>5

(***************************************************************************)
(* No sync waits for ever: whatever number of them run, and however they   *)
(* wait for the row of the folder and for each other's items, one of those *)
(* a sync waits for has a step to take, or breaks the cycle.               *)
(***************************************************************************)
THEOREM SyncsAreNotStuck ==
  ASSUME IsFiniteSet(Run)
  PROVE  Spec => []SomebodyGoesOn
<1>1. ProgressInv => SomebodyGoesOn
  <2> SUFFICES ASSUME ProgressInv, NEW S \in SUBSET Run, S # {},
                      \A p \in S : /\ sync[p].pc # "idle"
                                   /\ \A q \in Run : WaitsFor(p, q) => q \in S,
                      ~ \E r \in S : GoesOn(r)
               PROVE  \E r \in S : Deadlocked(r)
    BY DEF SomebodyGoesOn
  <2>1. WaitForEachOther(S)
    BY OthersAwaited DEF WaitForEachOther
  <2> QED
    BY <2>1, CycleIsFound
<1> QED
  BY <1>1, ProgressHolds, PTL

(***************************************************************************)
(* No deadlock without the row of the folder: since a sync takes the UIDs  *)
(* in ascending order, waits for UIDs alone never close a cycle; one of    *)
(* the syncs waits for the row (mailbox_sync_states) and one holds it.     *)
(***************************************************************************)
THEOREM DeadlocksTakeTheRow ==
  ASSUME IsFiniteSet(Run)
  PROVE  Spec => [](\A S \in SUBSET Run : WaitForEachOther(S) =>
                      \E p, q \in S : AwaitsRow(p) /\ sync[q].locks)
<1> DEFINE TakesRow == \A S \in SUBSET Run : WaitForEachOther(S) =>
                         \E p, q \in S : AwaitsRow(p) /\ sync[q].locks
<1>1. ProgressInv => TakesRow
  <2> SUFFICES ASSUME ProgressInv, NEW S \in SUBSET Run, WaitForEachOther(S),
                      ~ \E p, q \in S : AwaitsRow(p) /\ sync[q].locks
               PROVE  FALSE
    OBVIOUS
  <2>1. \A p \in S : \E q \in S : AwaitsUid(p, q)
    BY DEF WaitForEachOther, WaitsFor
  <2> DEFINE f == [p \in S |-> sync[p].item.uid]
  <2>2. f \in [S -> Nat]
    BY SessionFacts DEF ProgressInv, Session, Item
  <2>3. PICK p \in S : \A q \in S : f[q] <= f[p]
    <3> HIDE DEF f
    <3> QED
      BY <2>2, FS_Subset, LargestValue DEF WaitForEachOther
  <2>4. PICK q \in S : \E i \in sync[q].added : i.uid = sync[p].item.uid
    BY <2>1 DEF AwaitsUid
  <2>5. sync[q].pc = "store"
    BY <2>1 DEF AwaitsUid
  <2>6. \A i \in sync[q].added : i.uid < sync[q].item.uid
    BY <2>5 DEF ProgressInv, Holds, AtMessage
  <2>7. sync[p].item.uid < sync[q].item.uid
    BY <2>4, <2>6
  <2>8. sync[q].item.uid <= sync[p].item.uid
    BY <2>3
  <2> QED
    BY <2>2, <2>7, <2>8
<1> HIDE DEF TakesRow
<1>2. Spec => []TakesRow
  BY <1>1, ProgressHolds, PTL
<1> QED
  BY <1>2 DEF TakesRow
================================================================================
