--------------------------- MODULE MailboxUidProofs ---------------------------
(***************************************************************************)
(* Proofs about the numbers MailboxSync keeps.  Whatever syncs interleave  *)
(* and die, the checkpoint never names a UID that has no item and is never *)
(* without a UIDVALIDITY.  The Mindwall UIDs are a key and only grow, the  *)
(* checkpoint goes back with a new UIDVALIDITY only, and it passes over no *)
(* message but those the SEARCH mistakes, however many syncs there are:    *)
(* only those that really ran side by side are exempt, for these read the  *)
(* same tables before either commits.                                      *)
(***************************************************************************)
EXTENDS MailboxSyncProofs

-------------------------------------------------------------------------------
(* What each step does to the numbers of a session *)

\* The fields of a session these proofs are about; Numbers(s) of a session
\* that only changes its other fields stays the same.
Numbers(s) == <<s.row.seen, s.last, s.high, s.item, s.added>>

LEMMA MarkSyncingNumbers ==
  ASSUME TInv, NEW r \in Run, MarkSyncing(r)
  PROVE  /\ \A q \in Run \ {r} : sync'[q] = sync[q]
         /\ sync'[r].pc = "select"
         /\ Numbers(sync[r])' = Numbers(sync[r])
<1> DEFINE row == [sync[r].row EXCEPT !.status = "syncing"]
           s == Assign(sync[r], row)
           t == [s EXCEPT !.pc = "select", !.locks = TRUE]
<1>1. sync'[r] = t /\ \A q \in Run \ {r} : sync'[q] = sync[q]
  <2>1. Continue(r, t)
    BY DEF MarkSyncing
  <2> QED BY <2>1, ContinueFacts
<1>2. row.seen = sync[r].row.seen
  BY SessionFacts DEF Session, StateRow
<1> HIDE DEF row
<1>3. /\ t.pc = "select" /\ t.row = row /\ t.last = sync[r].last
      /\ t.high = sync[r].high /\ t.item = sync[r].item /\ t.added = sync[r].added
  BY SessionFacts DEF Session, Assign
<1> QED BY <1>1, <1>2, <1>3 DEF Numbers

LEMMA SelectFolderNumbers ==
  ASSUME TInv, NEW r \in Run, SelectFolder(r)
  PROVE  /\ \A q \in Run \ {r} : sync'[q] = sync[q]
         /\ sync'[r].pc = "scan"
         /\ sync'[r].item = sync[r].item /\ sync'[r].added = sync[r].added
         /\ \E last \in {0, sync[r].row.seen} :
              /\ sync'[r].last = last /\ sync'[r].high = last
              /\ sync'[r].row.seen = last
<1> DEFINE last == IF sync[r].row.validity \notin {0, folder.epoch}
                   THEN 0 ELSE sync[r].row.seen
           row == [sync[r].row EXCEPT !.seen = last, !.validity = folder.epoch]
           s == Assign(sync[r], row)
<1>1. PICK uids :
        Continue(r, [s EXCEPT !.pc = "scan", !.todo = uids,
                              !.last = last, !.high = last])
  BY DEF SelectFolder
<1> DEFINE t == [s EXCEPT !.pc = "scan", !.todo = uids,
                          !.last = last, !.high = last]
<1>2. sync'[r] = t /\ \A q \in Run \ {r} : sync'[q] = sync[q]
  BY <1>1, ContinueFacts
<1>3. last \in {0, sync[r].row.seen}
  OBVIOUS
<1> HIDE DEF last
<1>4. row.seen = last
  BY SessionFacts DEF Session, StateRow
<1> HIDE DEF row
<1>5. /\ t.pc = "scan" /\ t.row = row /\ t.last = last /\ t.high = last
      /\ t.item = sync[r].item /\ t.added = sync[r].added
  BY SessionFacts DEF Session, Assign
<1> QED BY <1>2, <1>3, <1>4, <1>5

LEMMA SkipMappedNumbers ==
  ASSUME TInv, NEW r \in Run, SkipMapped(r)
  PROVE  /\ \A q \in Run \ {r} : sync'[q] = sync[q]
         /\ sync'[r].pc = "scan"
         /\ sync'[r].row = sync[r].row /\ sync'[r].last = sync[r].last
         /\ sync'[r].item = sync[r].item /\ sync'[r].added = sync[r].added
         /\ \/ sync'[r].high = sync[r].high
            \/ \E i \in Sees(r) : i.uid = sync'[r].high
<1> DEFINE uid == Min(sync[r].todo)
           high == Max({sync[r].high, uid})
           t == [sync[r] EXCEPT !.todo = @ \ {uid}, !.high = high]
<1>1. sync'[r] = t /\ \A q \in Run \ {r} : sync'[q] = sync[q]
  BY ContinueFacts DEF SkipMapped
<1>2. \E i \in Sees(r) : i.uid = uid
  BY DEF SkipMapped, Mapped
<1>3. high = sync[r].high \/ high = uid
  <2>1. sync[r].high \in Nat /\ uid \in Nat
    BY SessionFacts, MinFacts DEF SkipMapped, Session
  <2> HIDE DEF uid
  <2> QED BY <2>1, MaxOfTwo
<1> HIDE DEF uid, high
<1>4. /\ t.pc = sync[r].pc /\ t.row = sync[r].row /\ t.last = sync[r].last
      /\ t.high = high /\ t.item = sync[r].item /\ t.added = sync[r].added
  BY SessionFacts DEF Session
<1> QED BY <1>1, <1>2, <1>3, <1>4 DEF SkipMapped

\* Steps on one message that go on with a new item.
LEMMA ItemNumbers ==
  ASSUME TInv, NEW r \in Run, NEW pc, NEW new,
         Continue(r, [sync[r] EXCEPT !.pc = pc, !.item = new])
  PROVE  /\ \A q \in Run \ {r} : sync'[q] = sync[q]
         /\ sync'[r].pc = pc /\ sync'[r].item = new
         /\ sync'[r].row = sync[r].row /\ sync'[r].last = sync[r].last
         /\ sync'[r].high = sync[r].high /\ sync'[r].added = sync[r].added
<1>1. /\ sync'[r] = [sync[r] EXCEPT !.pc = pc, !.item = new]
      /\ \A q \in Run \ {r} : sync'[q] = sync[q]
  BY ContinueFacts
<1> QED BY <1>1, SessionFacts DEF Session

\* Such steps: the message is fetched, analysed, quarantined and numbered.
LEMMA ItemSteps ==
  ASSUME TInv, NEW r \in Run,
         \/ StartMessage(r) \/ MessageFails(r) \/ AnalysisFails(r)
         \/ (\E v \in AnalysisVerdict : Analyse(r, v))
         \/ Quarantine(r) \/ AllocateUid(r)
  PROVE  \E pc, new : Continue(r, [sync[r] EXCEPT !.pc = pc, !.item = new])
<1>1. CASE StartMessage(r)
  BY <1>1 DEF StartMessage
<1>2. CASE MessageFails(r) \/ Quarantine(r)
  <2>1. Continue(r, [sync[r] EXCEPT !.pc = "allocate"])
    BY <1>2 DEF MessageFails, Quarantine
  <2>2. [sync[r] EXCEPT !.pc = "allocate"] =
          [sync[r] EXCEPT !.pc = "allocate", !.item = sync[r].item]
    BY SessionFacts DEF Session
  <2> QED BY <2>1, <2>2
<1>3. CASE AnalysisFails(r)
  BY <1>3 DEF AnalysisFails
<1>4. CASE \E v \in AnalysisVerdict : Analyse(r, v)
  BY <1>4 DEF Analyse
<1>5. CASE AllocateUid(r)
  BY <1>5 DEF AllocateUid
<1> QED BY <1>1, <1>2, <1>3, <1>4, <1>5

LEMMA ItemStepsNotStore ==
  ASSUME TInv, NEW r \in Run,
         \/ StartMessage(r) \/ MessageFails(r) \/ AnalysisFails(r)
         \/ (\E v \in AnalysisVerdict : Analyse(r, v)) \/ Quarantine(r)
  PROVE  items' = items /\ sync'[r].pc # "store"
<1>1. items' = items
  BY DEF StartMessage, MessageFails, AnalysisFails, Analyse, Quarantine
<1>2. ASSUME NEW pc \in {"fetch", "quarantine", "allocate"}, NEW new,
             Continue(r, [sync[r] EXCEPT !.pc = pc, !.item = new])
      PROVE  sync'[r].pc # "store"
  BY <1>2, ItemNumbers
<1>3. CASE StartMessage(r)
  BY <1>2, <1>3 DEF StartMessage
<1>4. CASE MessageFails(r) \/ Quarantine(r)
  <2>1. sync'[r] = [sync[r] EXCEPT !.pc = "allocate"]
    BY <1>4, ContinueFacts DEF MessageFails, Quarantine
  <2> QED BY <1>1, <2>1, SessionFacts DEF Session
<1>5. CASE AnalysisFails(r)
  BY <1>2, <1>5 DEF AnalysisFails
<1>6. CASE \E v \in AnalysisVerdict : Analyse(r, v)
  BY <1>2, <1>6 DEF Analyse
<1> QED BY <1>1, <1>3, <1>4, <1>5, <1>6

LEMMA StoreItemNumbers ==
  ASSUME TInv, NEW r \in Run, StoreItem(r)
  PROVE  /\ \A q \in Run \ {r} : sync'[q] = sync[q]
         /\ sync'[r].pc = "scan"
         /\ sync'[r].row = sync[r].row /\ sync'[r].last = sync[r].last
         /\ sync'[r].added = sync[r].added \cup {sync[r].item}
         /\ sync'[r].high \in {sync[r].high, sync[r].item.uid}
<1> DEFINE s == sync[r]
           ingested == s.item.msg # 0
           todo == s.todo \ {s.item.uid}
           added == s.added \cup {s.item}
           stored == s.stored \/ ingested
           failed == s.failed \/ ~ingested
           high == IF ingested THEN Max({s.high, s.item.uid}) ELSE s.high
           t == [s EXCEPT !.pc = "scan", !.todo = todo, !.added = added,
                          !.stored = stored, !.failed = failed, !.high = high]
<1>1. sync'[r] = t /\ \A q \in Run \ {r} : sync'[q] = sync[q]
  <2>1. Continue(r, t)
    BY DEF StoreItem
  <2> QED BY <2>1, ContinueFacts
<1>2. high \in {s.high, s.item.uid}
  <2>1. s.high \in Nat /\ s.item.uid \in Nat
    BY SessionFacts DEF Session, Item
  <2>2. \A x, y \in Nat : Max({x, y}) \in {x, y}
    BY MaxOfTwo
  <2> HIDE DEF s, ingested
  <2> QED BY <2>1, <2>2
<1>3. s \in Session
  BY SessionFacts
<1> HIDE DEF todo, stored, failed, high
<1>4. /\ t.pc = "scan" /\ t.row = s.row /\ t.last = s.last
      /\ t.added = added /\ t.high = high
  BY <1>3 DEF Session
<1> QED BY <1>1, <1>2, <1>4

LEMMA IngestNumbers ==
  ASSUME TInv, NEW r \in Run, Ingest(r)
  PROVE  /\ \A q \in Run \ {r} : sync'[q] = sync[q]
         /\ sync'[r].pc = "analyse"
         /\ sync'[r].row = sync[r].row /\ sync'[r].last = sync[r].last
         /\ sync'[r].high = sync[r].high /\ sync'[r].added = {}
         /\ items' = items \cup sync[r].added
         /\ state'.seen \in {state.seen, sync[r].row.seen}
<1> DEFINE new == [sync[r].item EXCEPT !.msg = Len(messages) + 1]
           t == [Committed(sync[r]) EXCEPT !.pc = "analyse", !.item = new]
<1>1. sync'[r] = t /\ \A q \in Run \ {r} : sync'[q] = sync[q]
  <2>1. Continue(r, t)
    BY DEF Ingest, Committed
  <2> QED BY <2>1, ContinueFacts
<1> HIDE DEF new
<1>2. /\ t.pc = "analyse" /\ t.row = sync[r].row /\ t.last = sync[r].last
      /\ t.high = sync[r].high /\ t.added = {}
  BY SessionFacts DEF Committed, Session
<1> QED BY <1>1, <1>2 DEF Ingest, Commit, Written

LEMMA EndNumbers ==
  ASSUME TInv, NEW r \in Run, End(r)
  PROVE  /\ \A q \in Run \ {r} : sync'[q] = sync[q]
         /\ sync'[r].pc = "idle" /\ sync'[r].row.seen = 0 /\ sync'[r].last = 0
         /\ sync'[r].high = 0 /\ sync'[r].added = {}
<1>1. sync'[r] = Idle /\ \A q \in Run \ {r} : sync'[q] = sync[q]
  BY ContinueFacts DEF End
<1> QED BY <1>1 DEF Idle, NoRow

LEMMA LoadStateNumbers ==
  ASSUME TInv, NEW r \in Run, LoadState(r)
  PROVE  /\ \A q \in Run \ {r} : sync'[q] = sync[q]
         /\ sync'[r].pc = "load" /\ sync'[r].row = state /\ sync'[r].last = 0
         /\ sync'[r].high = 0 /\ sync'[r].added = {}
<1>1. /\ sync'[r] = [Idle EXCEPT !.pc = "load", !.row = state]
      /\ \A q \in Run \ {r} : sync'[q] = sync[q]
  BY ContinueFacts DEF LoadState
<1> QED BY <1>1 DEF Idle

\* The checkpoint after a commit of an assigned row.
LEMMA AssignedSeen ==
  ASSUME NEW s \in Session, NEW row \in StateRow, Commit(Assign(s, row))
  PROVE  /\ items' = items \cup s.added
         /\ state'.seen \in {state.seen, row.seen}
BY DEF Commit, Assign, Written, Session

-------------------------------------------------------------------------------
(* The checkpoint *)

BackedBy(S, uid) == uid # 0 => \E i \in S : i.uid = uid

\* The committed checkpoint, the session's copy of it and where it started
\* are backed by committed items; how far it came, by the items it sees.
BackedInv ==
  /\ TInv
  /\ BackedBy(items, state.seen)
  /\ \A r \in Run : /\ BackedBy(items, sync[r].row.seen)
                   /\ BackedBy(items, sync[r].last)
                   /\ BackedBy(Sees(r), sync[r].high)

LEMMA InitBacked == Init => BackedInv
BY InitType DEF Init, BackedInv, BackedBy, NoRow, Idle

\* One session moves; what it saw stays visible to it, or is committed.
LEMMA BackedStep ==
  ASSUME BackedInv, TInv', NEW r \in Run,
         \A q \in Run \ {r} : sync'[q] = sync[q],
         items \subseteq items',
         BackedBy(items, state.seen)',
         BackedBy(items, sync[r].row.seen)',
         BackedBy(items, sync[r].last)',
         BackedBy(Sees(r), sync[r].high)'
  PROVE  BackedInv'
BY DEF BackedInv, BackedBy, Sees

\* Steps that leave the numbers of the session alone and commit nothing.
LEMMA BackedQuiet ==
  ASSUME BackedInv, TInv', NEW r \in Run,
         \A q \in Run \ {r} : sync'[q] = sync[q],
         UNCHANGED <<state, items>>,
         sync'[r].row.seen = sync[r].row.seen, sync'[r].last = sync[r].last,
         sync'[r].high = sync[r].high, sync'[r].added = sync[r].added
  PROVE  BackedInv'
BY BackedStep DEF BackedInv, BackedBy, Sees

LEMMA BackedEnd ==
  ASSUME BackedInv, TInv', NEW r \in Run, End(r), items \subseteq items',
         BackedBy(items, state.seen)'
  PROVE  BackedInv'
<1>1. TInv
  BY DEF BackedInv
<1>2. /\ \A q \in Run \ {r} : sync'[q] = sync[q]
      /\ sync'[r].row.seen = 0 /\ sync'[r].last = 0 /\ sync'[r].high = 0
  BY <1>1, EndNumbers
<1> QED BY <1>2, BackedStep DEF BackedBy

LEMMA NextBacked == BackedInv /\ [Next]_vars => BackedInv'
<1> SUFFICES ASSUME BackedInv, [Next]_vars PROVE BackedInv'
  OBVIOUS
<1>1. TInv /\ TInv'
  BY NextType DEF BackedInv
<1>2. CASE Upstream \/ Administer
  <2>1. UNCHANGED <<state, items, sync>>
    BY <1>2 DEF Upstream, Deliver, Expunge, Renumber, Unchanged,
       Administer, Reanalyse, Release, syncVars
  <2> QED BY <1>1, <2>1 DEF BackedInv, BackedBy, Sees
<1>3. ASSUME NEW r \in Run, LoadState(r) PROVE BackedInv'
  <2>1. UNCHANGED <<state, items>>
    BY <1>3 DEF LoadState
  <2> QED BY <1>1, <1>3, <2>1, LoadStateNumbers, BackedStep DEF BackedInv, BackedBy
<1>4. ASSUME NEW r \in Run, Step(r) PROVE BackedInv'
  <2>1. CASE MarkSyncing(r)
    BY <1>1, <2>1, MarkSyncingNumbers, BackedQuiet DEF MarkSyncing, Numbers
  <2>2. CASE AbortSync(r)
    <3> DEFINE row == [sync[r].row EXCEPT !.status = "error"]
    <3>1. row \in StateRow /\ row.seen = sync[r].row.seen
      BY <1>1, SessionFacts DEF Session, StateRow, SyncStatus
    <3>2. Commit(Assign(sync[r], row)) /\ End(r)
      BY <2>2 DEF AbortSync
    <3> HIDE DEF row
    <3>3. items \subseteq items' /\ state'.seen \in {state.seen, sync[r].row.seen}
      BY <1>1, <3>1, <3>2, SessionFacts, AssignedSeen
    <3>4. BackedBy(items, state.seen)'
      BY <3>3 DEF BackedInv, BackedBy
    <3> QED BY <1>1, <3>2, <3>3, <3>4, BackedEnd
  <2>3. CASE SelectFolder(r)
    <3>1. UNCHANGED <<state, items>>
      BY <2>3 DEF SelectFolder
    <3> QED BY <1>1, <2>3, <3>1, SelectFolderNumbers, BackedStep
            DEF BackedInv, BackedBy, Sees
  <2>4. CASE SkipMapped(r)
    <3>1. UNCHANGED <<state, items>>
      BY <2>4 DEF SkipMapped
    <3> QED BY <1>1, <2>4, <3>1, SkipMappedNumbers, BackedStep
            DEF BackedInv, BackedBy, Sees
  <2>5. CASE \/ StartMessage(r) \/ MessageFails(r) \/ AnalysisFails(r)
             \/ (\E v \in AnalysisVerdict : Analyse(r, v))
             \/ Quarantine(r) \/ AllocateUid(r)
    <3>1. PICK pc, new : Continue(r, [sync[r] EXCEPT !.pc = pc, !.item = new])
      BY <2>5, <1>1, ItemSteps
    <3>2. UNCHANGED <<state, items>>
      BY <2>5 DEF StartMessage, MessageFails, AnalysisFails, Analyse, Quarantine,
                  AllocateUid
    <3> QED BY <1>1, <3>1, <3>2, ItemNumbers, BackedQuiet
  <2>6. CASE Ingest(r)
    <3>1. items \subseteq items' /\ BackedBy(items, state.seen)'
      BY <1>1, <2>6, IngestNumbers DEF BackedInv, BackedBy
    <3> QED BY <1>1, <2>6, <3>1, IngestNumbers, BackedStep
            DEF BackedInv, BackedBy, Sees
  <2>7. CASE StoreItem(r)
    <3>1. UNCHANGED <<state, items>>
      BY <2>7 DEF StoreItem
    <3> QED BY <1>1, <2>7, <3>1, StoreItemNumbers, BackedStep
            DEF BackedInv, BackedBy, Sees
  <2>8. CASE Finish(r)
    <3> DEFINE seen == IF sync[r].high > sync[r].last THEN sync[r].high
                       ELSE sync[r].row.seen
               out == Outcome(sync[r])
               row == [sync[r].row EXCEPT !.seen = seen, !.status = out]
    <3>1. Commit(Assign(sync[r], row)) /\ End(r)
      BY <2>8 DEF Finish
    <3>2. seen \in Nat /\ out \in SyncStatus
          /\ seen \in {sync[r].high, sync[r].row.seen}
      BY <1>1, SessionFacts, OutcomeType DEF Session, StateRow
    <3> HIDE DEF seen, out
    <3>3. row \in StateRow /\ row.seen = seen
      BY <1>1, <3>2, SessionFacts DEF Session, StateRow
    <3> HIDE DEF row
    <3>4. items' = items \cup sync[r].added /\ state'.seen \in {state.seen, seen}
      BY <1>1, <3>1, <3>3, SessionFacts, AssignedSeen
    <3>5. BackedBy(items, state.seen)'
      BY <3>2, <3>4 DEF BackedInv, BackedBy, Sees
    <3> QED BY <1>1, <3>1, <3>4, <3>5, BackedEnd
  <2>9. CASE DatabaseError(r)
    <3>1. UNCHANGED <<state, items>> /\ End(r)
      BY <2>9 DEF DatabaseError
    <3> QED BY <1>1, <3>1, BackedEnd DEF BackedInv, BackedBy
  <2> QED BY <1>4, <2>1, <2>2, <2>3, <2>4, <2>5, <2>6, <2>7, <2>8, <2>9 DEF Step
<1>5. ASSUME NEW r \in Run, Crash(r) PROVE BackedInv'
  <2>1. UNCHANGED <<state, items>> /\ End(r)
    BY <1>5 DEF Crash
  <2> QED BY <1>1, <2>1, BackedEnd DEF BackedInv, BackedBy
<1>6. CASE UNCHANGED vars
  BY <1>1, <1>6 DEF vars, BackedInv, BackedBy, Sees
<1> QED BY <1>2, <1>3, <1>4, <1>5, <1>6, NextCases

(***************************************************************************)
(* The checkpoint names a UID that has an item, whatever syncs of the      *)
(* folder interleave, fail or die (the commits of sync_mailbox_folder).    *)
(***************************************************************************)
THEOREM CheckpointIsBacked == Spec => []CheckpointBacked
<1>1. BackedInv => CheckpointBacked
  BY DEF BackedInv, BackedBy, CheckpointBacked
<1> QED BY <1>1, InitBacked, NextBacked, PTL DEF Spec

-------------------------------------------------------------------------------
(* The history of the syncs *)

\* A sync that runs beside another one is marked, and only running ones are.
RacedInv ==
  /\ ProgressInv
  /\ \A r \in raced : r \in Run /\ sync[r].pc # "idle"
  /\ \A p, q \in Run : p # q /\ sync[p].pc # "idle" /\ sync[q].pc # "idle" => p \in raced

LEMMA InitRaced == Init => RacedInv
BY InitProgress DEF Init, RacedInv, Idle

\* One that does not run has added nothing.
LEMMA RacedFacts ==
  ASSUME RacedInv
  PROVE  /\ TInv
         /\ \A r \in Run : sync[r].added # {} => sync[r].pc # "idle"
BY DEF RacedInv, ProgressInv, Holds

LEMMA RacedFactsNext ==
  ASSUME RacedInv'
  PROVE  /\ TInv'
         /\ \A r \in Run : sync'[r].added # {} => sync'[r].pc # "idle"
BY DEF RacedInv, ProgressInv, Holds

\* A step a sync takes by itself is one of a sync that runs.
LEMMA StepRuns ==
  ASSUME NEW r \in Run, Step(r)
  PROVE  sync[r].pc # "idle"
<1>1. CASE DatabaseError(r)
  BY <1>1 DEF DatabaseError, Deadlocked, WaitsFor, AwaitsUid, AwaitsRow
<1> QED
  BY <1>1 DEF Step, MarkSyncing, AbortSync, SelectFolder, SkipMapped, StartMessage,
     MessageFails, Ingest, AnalysisFails, Analyse, Quarantine, AllocateUid,
     StoreItem, Finish

\* One session moves, and it ran before or runs afterwards.
Moves(r) ==
  /\ \A q \in Run \ {r} : sync'[q] = sync[q]
  /\ sync[r].pc # "idle" \/ sync'[r].pc # "idle"

LEMMA SessionMoves ==
  ASSUME TInv, NEW r \in Run, LoadState(r) \/ Step(r) \/ Crash(r)
  PROVE  Moves(r)
BY LoadStateNumbers, StepAdvances, StepRuns DEF Moves, Crash

LEMMA NextRaced == RacedInv /\ [Next]_vars => RacedInv'
<1> SUFFICES ASSUME RacedInv, [Next]_vars PROVE RacedInv'
  OBVIOUS
<1>1. ProgressInv'
  BY NextProgress DEF RacedInv
<1>2. CASE UNCHANGED vars
  BY <1>1, <1>2 DEF vars, RacedInv
<1>3. CASE Next
  BY <1>1, <1>3 DEF Next, Recall, RacedInv
<1> QED BY <1>2, <1>3

\* The marks only go with the run, and what is shared stays.
LEMMA HistoryStays ==
  ASSUME Recall
  PROVE  /\ \A r \in Run : r \in raced /\ sync'[r].pc # "idle" => r \in raced'
         /\ shared \subseteq shared'
BY DEF Recall

\* Where a session moves, any other one that runs is marked.
LEMMA OthersRaced ==
  ASSUME RacedInv, Recall, NEW r \in Run, Moves(r)
  PROVE  \A q \in Run \ {r} : sync'[q].pc # "idle" => q \in raced'
BY DEF RacedInv, Recall, Moves

\* What a marked session commits is shared.
LEMMA CommitsShared ==
  ASSUME Recall, NEW r \in raced, NEW j \in sync[r].added, j \in items', j \notin items
  PROVE  j \in shared'
BY DEF Recall

-------------------------------------------------------------------------------
(* The virtual UIDs *)

Distinct(S) == \A i, j \in S : i.mwuid = j.mwuid => i = j
AllBelow(S, n) == \A i \in S : i.mwuid < n

\* n is above the committed items, but for those of syncs that overlapped,
\* if r is such a one.
Above(r, n) == \A i \in items : i.mwuid < n \/ (r \in raced /\ i \in shared)

\* What is not committed is numbered above what is, and the next number
\* above both.
UidsOf(r) ==
  /\ Distinct(sync[r].added)
  /\ \A j \in sync[r].added : Above(r, j.mwuid)
  /\ sync[r].pc = "store" => /\ AllBelow(sync[r].added, sync[r].item.mwuid)
                             /\ Above(r, sync[r].item.mwuid)

UidInv ==
  /\ RacedInv
  /\ UniqueMindwallUid
  /\ \A r \in Run : UidsOf(r)

LEMMA InitUids == Init => UidInv
BY InitRaced DEF Init, UidInv, UidsOf, UniqueMindwallUid, Distinct, AllBelow, Idle

LEMMA SeesItems ==
  ASSUME TInv, NEW r \in Run
  PROVE  \A i \in Sees(r) : i.mwuid \in Nat
<1>1. Sees(r) \subseteq Item
  BY SessionFacts DEF Sees, TInv, SyncTypes, Session
<1> QED BY <1>1 DEF Item

\* What was below stays so, if only shared items join those committed.
LEMMA UidsKept ==
  ASSUME UidInv, RacedInv', Recall, NEW r \in Run,
         sync'[r].pc # "idle" => sync'[r] = sync[r],
         \A i \in items' : i \in items \/ (r \in raced /\ i \in shared')
  PROVE  UidsOf(r)'
<1>1. sync'[r].added # {} => sync'[r].pc # "idle"
  BY RacedFactsNext
<1>2. CASE sync'[r].pc = "idle"
  BY <1>1, <1>2 DEF UidsOf, Distinct
<1>3. CASE sync'[r].pc # "idle"
  <2>1. sync'[r] = sync[r] /\ (r \in raced => r \in raced') /\ shared \subseteq shared'
    BY <1>3, HistoryStays
  <2>2. UidsOf(r)
    BY DEF UidInv
  <2> QED BY <2>1, <2>2 DEF UidsOf, Above
<1> QED BY <1>2, <1>3

\* A session goes on with the same items, or drops its own.
LEMMA UidQuiet ==
  ASSUME UidInv, RacedInv', Recall, NEW r \in Run, Moves(r), items' = items,
         sync'[r].added \in {sync[r].added, {}},
         sync'[r].pc # "store"
  PROVE  UidInv'
<1>1. UniqueMindwallUid'
  BY HistoryStays DEF UidInv, UniqueMindwallUid
<1>2. \A q \in Run \ {r} : UidsOf(q)'
  BY UidsKept DEF Moves
<1>3. sync'[r].added # {} => sync'[r].pc # "idle"
  BY RacedFactsNext
<1>4. /\ shared \subseteq shared'
      /\ sync'[r].added # {} => (r \in raced => r \in raced')
  BY <1>3, HistoryStays
<1>5. UidsOf(r)
  BY DEF UidInv
<1>6. UidsOf(r)'
  BY <1>4, <1>5 DEF UidsOf, Above, Distinct
<1> QED BY <1>1, <1>2, <1>6 DEF UidInv

\* A session commits its items.  Another one that runs is marked then, and
\* if this one is marked its items are shared.
LEMMA UidCommit ==
  ASSUME UidInv, RacedInv', Recall, NEW r \in Run, Moves(r), sync[r].pc # "idle",
         items' = items \cup sync[r].added,
         sync'[r].added = {}, sync'[r].pc # "store"
  PROVE  UidInv'
<1>1. ASSUME NEW i \in items, NEW j \in sync[r].added
      PROVE  i.mwuid < j.mwuid \/ (r \in raced /\ i \in shared)
  BY DEF UidInv, UidsOf, Above
<1>2. \A j \in sync[r].added : r \in raced /\ j \notin items => j \in shared'
  BY CommitsShared
<1>3. \A i \in items' : i.mwuid \in Nat
  BY RacedFactsNext DEF TInv, SyncTypes, Item
<1>4. shared \subseteq shared'
  BY HistoryStays
<1>5. UniqueMindwallUid'
  <2> SUFFICES ASSUME NEW i \in items', NEW j \in items', i.mwuid = j.mwuid, i # j
               PROVE  i \in shared' /\ j \in shared'
    BY DEF UniqueMindwallUid
  <2>1. CASE i \in items /\ j \in items
    BY <1>4, <2>1 DEF UidInv, UniqueMindwallUid
  <2>2. CASE i \in items /\ j \in sync[r].added /\ j \notin items
    <3>1. r \in raced /\ i \in shared
      BY <1>1, <1>3, <2>2
    <3> QED BY <1>2, <1>4, <2>2, <3>1
  <2>3. CASE j \in items /\ i \in sync[r].added /\ i \notin items
    <3>1. r \in raced /\ j \in shared
      BY <1>1, <1>3, <2>3
    <3> QED BY <1>2, <1>4, <2>3, <3>1
  <2>4. CASE i \in sync[r].added /\ j \in sync[r].added
    BY <2>4 DEF UidInv, UidsOf, Distinct
  <2> QED BY <2>1, <2>2, <2>3, <2>4
<1>6. ASSUME NEW q \in Run \ {r} PROVE UidsOf(q)'
  <2>1. sync'[q] = sync[q]
    BY DEF Moves
  <2>2. CASE sync[q].pc = "idle"
    <3>1. sync[q].added = {}
      BY <2>2, RacedFacts DEF UidInv
    <3> QED BY <2>1, <2>2, <3>1 DEF UidsOf, Distinct
  <2>3. CASE sync[q].pc # "idle"
    <3>1. q \in raced /\ r \in raced
      BY <2>3 DEF UidInv, RacedInv
    <3>2. \A i \in items' : i \in items \/ (q \in raced /\ i \in shared')
      BY <1>2, <3>1
    <3> QED BY <2>1, <3>2, UidsKept
  <2> QED BY <2>2, <2>3
<1>7. UidsOf(r)'
  BY DEF UidsOf, Distinct
<1> QED BY <1>5, <1>6, <1>7 DEF UidInv

LEMMA UidAllocate ==
  ASSUME UidInv, RacedInv', Recall, NEW r \in Run, Moves(r), AllocateUid(r)
  PROVE  UidInv'
<1> DEFINE highest == Max({0} \cup {i.mwuid : i \in Sees(r)})
           next == highest + 1
           new == [sync[r].item EXCEPT !.mwuid = next]
<1>1. TInv
  BY RacedFacts DEF UidInv
<1>2. Continue(r, [sync[r] EXCEPT !.pc = "store", !.item = new])
  BY DEF AllocateUid
<1>3. AllBelow(Sees(r), next)
  <2>1. highest \in Nat /\ \A i \in Sees(r) : i.mwuid <= highest
    BY <1>1, HighestUid
  <2>2. \A i \in Sees(r) : i.mwuid \in Nat
    BY <1>1, SeesItems
  <2> HIDE DEF highest
  <2> QED BY <2>1, <2>2 DEF AllBelow
<1> HIDE DEF next
<1>4. new.mwuid = next
  BY <1>1, SessionFacts DEF Session, Item
<1> HIDE DEF new
<1>5. /\ sync'[r].item = new /\ sync'[r].added = sync[r].added /\ sync'[r].pc = "store"
  <2>1. sync'[r] = [sync[r] EXCEPT !.pc = "store", !.item = new]
    BY <1>1, <1>2, ContinueFacts
  <2> QED BY <1>1, <2>1, SessionFacts DEF Session
<1>6. items' = items
  BY DEF AllocateUid
<1>7. UniqueMindwallUid'
  BY <1>6, HistoryStays DEF UidInv, UniqueMindwallUid
<1>8. \A q \in Run \ {r} : UidsOf(q)'
  BY <1>6, UidsKept DEF Moves
<1>9. UidsOf(r)'
  <2>1. UidsOf(r) /\ (r \in raced => r \in raced') /\ shared \subseteq shared'
    BY <1>5, HistoryStays DEF UidInv
  <2>2. \A i \in items : i.mwuid < next
    BY <1>3 DEF AllBelow, Sees
  <2>3. AllBelow(sync[r].added, next)
    BY <1>3 DEF AllBelow, Sees
  <2>4. Distinct(sync[r].added) /\ \A j \in sync[r].added : Above(r, j.mwuid)
    BY <2>1 DEF UidsOf
  <2>5. Distinct(sync'[r].added) /\ AllBelow(sync'[r].added, sync'[r].item.mwuid)
    BY <1>4, <1>5, <2>3, <2>4
  <2>6. \A j \in sync'[r].added : \A i \in items' :
          i.mwuid < j.mwuid \/ (r \in raced' /\ i \in shared')
    BY <1>5, <1>6, <2>1, <2>4 DEF Above
  <2>7. \A i \in items' : i.mwuid < sync'[r].item.mwuid
    BY <1>4, <1>5, <1>6, <2>2
  <2> QED BY <2>5, <2>6, <2>7 DEF UidsOf, Above
<1> QED BY <1>7, <1>8, <1>9 DEF UidInv

LEMMA UidStore ==
  ASSUME UidInv, RacedInv', Recall, NEW r \in Run, Moves(r), StoreItem(r)
  PROVE  UidInv'
<1>1. TInv
  BY RacedFacts DEF UidInv
<1>2. /\ sync'[r].added = sync[r].added \cup {sync[r].item}
      /\ sync'[r].pc = "scan" /\ items' = items
  BY <1>1, StoreItemNumbers DEF StoreItem
<1>3. /\ AllBelow(sync[r].added, sync[r].item.mwuid)
      /\ Above(r, sync[r].item.mwuid)
  BY DEF StoreItem, UidInv, UidsOf
<1>4. sync[r].item.mwuid \in Nat /\ \A i \in sync[r].added : i.mwuid \in Nat
  BY <1>1, SessionFacts, SeesItems DEF Session, Item, Sees
<1>5. UniqueMindwallUid'
  BY <1>2, HistoryStays DEF UidInv, UniqueMindwallUid
<1>6. \A q \in Run \ {r} : UidsOf(q)'
  BY <1>2, UidsKept DEF Moves
<1>7. UidsOf(r)'
  <2>1. UidsOf(r) /\ (r \in raced => r \in raced') /\ shared \subseteq shared'
    BY <1>2, HistoryStays DEF UidInv
  <2>2. Distinct(sync[r].added) /\ \A j \in sync[r].added : Above(r, j.mwuid)
    BY <2>1 DEF UidsOf
  <2>3. Distinct(sync'[r].added)
    BY <1>2, <1>3, <1>4, <2>2 DEF Distinct, AllBelow
  <2>4. \A j \in sync'[r].added : \A i \in items' :
          i.mwuid < j.mwuid \/ (r \in raced' /\ i \in shared')
    BY <1>2, <1>3, <2>1, <2>2 DEF Above
  <2> QED BY <1>2, <2>3, <2>4 DEF UidsOf, Above
<1> QED BY <1>5, <1>6, <1>7 DEF UidInv

LEMMA NextUids == UidInv /\ [Next]_vars => UidInv'
<1> SUFFICES ASSUME UidInv, [Next]_vars PROVE UidInv'
  OBVIOUS
<1>1. TInv /\ RacedInv /\ RacedInv'
  BY NextRaced, RacedFacts DEF UidInv
<1>2. CASE UNCHANGED vars
  BY <1>1, <1>2 DEF vars, UidInv, UidsOf, UniqueMindwallUid, Distinct, AllBelow, Above
<1>3. ASSUME Upstream \/ Administer, Recall PROVE UidInv'
  <2>1. UNCHANGED <<items, sync>>
    BY <1>3 DEF Upstream, Deliver, Expunge, Renumber, Unchanged,
       Administer, Reanalyse, Release, syncVars
  <2>2. UniqueMindwallUid'
    BY <1>3, <2>1, HistoryStays DEF UidInv, UniqueMindwallUid
  <2> QED BY <1>1, <1>3, <2>1, <2>2, UidsKept DEF UidInv
<1>4. ASSUME NEW r \in Run, LoadState(r), Recall PROVE UidInv'
  <2>1. items' = items /\ Moves(r)
    BY <1>1, <1>4, SessionMoves DEF LoadState
  <2> QED BY <1>1, <1>4, <2>1, LoadStateNumbers, UidQuiet
<1>5. ASSUME NEW r \in Run, Step(r), Recall PROVE UidInv'
  <2> Moves(r) /\ sync[r].pc # "idle"
    BY <1>1, <1>5, SessionMoves, StepRuns
  <2>1. CASE MarkSyncing(r) \/ SelectFolder(r) \/ SkipMapped(r)
    <3>1. items' = items
      BY <2>1 DEF MarkSyncing, SelectFolder, SkipMapped
    <3>2. sync'[r].added = sync[r].added /\ sync'[r].pc # "store"
      BY <1>1, <2>1, MarkSyncingNumbers, SelectFolderNumbers, SkipMappedNumbers
         DEF Numbers
    <3> QED BY <1>1, <1>5, <3>1, <3>2, UidQuiet
  <2>2. CASE AbortSync(r)
    <3>1. items' = items \cup sync[r].added /\ End(r)
      BY <1>1, <2>2, SessionFacts, CommitAdds DEF AbortSync
    <3> QED BY <1>1, <1>5, <3>1, EndNumbers, UidCommit
  <2>3. CASE \/ StartMessage(r) \/ MessageFails(r) \/ AnalysisFails(r)
             \/ (\E v \in AnalysisVerdict : Analyse(r, v)) \/ Quarantine(r)
    <3>1. PICK pc, new : Continue(r, [sync[r] EXCEPT !.pc = pc, !.item = new])
      BY <2>3, <1>1, ItemSteps
    <3>2. items' = items /\ sync'[r].pc # "store"
      BY <1>1, <2>3, ItemStepsNotStore
    <3> QED BY <1>1, <1>5, <3>1, <3>2, ItemNumbers, UidQuiet
  <2>4. CASE Ingest(r)
    BY <1>1, <1>5, <2>4, IngestNumbers, UidCommit
  <2>5. CASE AllocateUid(r)
    BY <1>1, <1>5, <2>5, UidAllocate
  <2>6. CASE StoreItem(r)
    BY <1>1, <1>5, <2>6, UidStore
  <2>7. CASE Finish(r)
    <3>1. items' = items \cup sync[r].added /\ End(r)
      BY <1>1, <2>7, SessionFacts, CommitAdds DEF Finish
    <3> QED BY <1>1, <1>5, <3>1, EndNumbers, UidCommit
  <2>8. CASE DatabaseError(r)
    <3>1. items' = items /\ End(r)
      BY <2>8 DEF DatabaseError
    <3> QED BY <1>1, <1>5, <3>1, EndNumbers, UidQuiet
  <2> QED BY <1>5, <2>1, <2>2, <2>3, <2>4, <2>5, <2>6, <2>7, <2>8 DEF Step
<1>6. ASSUME NEW r \in Run, Crash(r), Recall PROVE UidInv'
  <2>1. items' = items /\ End(r) /\ Moves(r)
    BY <1>1, <1>6, SessionMoves DEF Crash
  <2> QED BY <1>1, <1>6, <2>1, EndNumbers, UidQuiet
<1> QED BY <1>2, <1>3, <1>4, <1>5, <1>6 DEF Next, Syncing



\* An item that appears was added by the session that commits.
LEMMA NewItemsWereAdded ==
  ASSUME TInv, Next, NEW j \in items' \ items
  PROVE  \E r \in Run : j \in sync[r].added
<1>1. CASE Upstream \/ Administer
  BY <1>1 DEF Upstream, Deliver, Expunge, Renumber, Unchanged,
     Administer, Reanalyse, Release, syncVars
<1>2. ASSUME NEW r \in Run, LoadState(r) \/ Crash(r) \/ DatabaseError(r)
      PROVE  FALSE
  BY <1>2 DEF LoadState, Crash, DatabaseError
<1>3. ASSUME NEW r \in Run, Step(r), ~DatabaseError(r)
      PROVE  j \in sync[r].added
  <2>1. CASE AbortSync(r) \/ Finish(r) \/ Ingest(r)
    <3>1. items' = items \cup sync[r].added
      BY <2>1, SessionFacts, CommitAdds, IngestNumbers DEF AbortSync, Finish
    <3> QED BY <3>1
  <2>2. CASE MarkSyncing(r) \/ SelectFolder(r) \/ SkipMapped(r) \/ StoreItem(r)
    BY <2>2 DEF MarkSyncing, SelectFolder, SkipMapped, StoreItem
  <2>3. CASE \/ StartMessage(r) \/ MessageFails(r) \/ AnalysisFails(r)
             \/ (\E v \in AnalysisVerdict : Analyse(r, v)) \/ Quarantine(r)
    BY <2>3, ItemStepsNotStore
  <2>4. CASE AllocateUid(r)
    BY <2>4 DEF AllocateUid
  <2> QED BY <1>3, <2>1, <2>2, <2>3, <2>4 DEF Step
<1> QED BY <1>1, <1>2, <1>3 DEF Next, Syncing

(***************************************************************************)
(* A Mindwall UID names one item, through crashes, failed messages and     *)
(* changes of UIDVALIDITY: two that share one were both stored by syncs    *)
(* that overlapped (_allocate_mindwall_uid, without a unique key).         *)
(***************************************************************************)
THEOREM UidsAreAKey == Spec => []UniqueMindwallUid
<1>1. UidInv => UniqueMindwallUid
  BY DEF UidInv
<1> QED BY <1>1, InitUids, NextUids, PTL DEF Spec

(***************************************************************************)
(* A commit adds only items above those a client has already seen, as an   *)
(* IMAP client expects of UIDs, but for pairs stored by syncs that         *)
(* overlapped.                                                             *)
(***************************************************************************)
THEOREM UidsAscend == Spec => MindwallUidsAscend
<1>1. UidInv /\ [Next]_vars =>
        [\A i \in items, j \in items' \ items :
           i.mwuid < j.mwuid \/ {i, j} \subseteq shared']_vars
  <2> SUFFICES ASSUME UidInv, Next,
                      NEW i \in items, NEW j \in items' \ items, ~(i.mwuid < j.mwuid)
               PROVE  i \in shared' /\ j \in shared'
    OBVIOUS
  <2>1. PICK r \in Run : j \in sync[r].added
    BY NewItemsWereAdded, RacedFacts DEF UidInv
  <2>2. r \in raced /\ i \in shared
    BY <2>1 DEF UidInv, UidsOf, Above
  <2> QED BY <2>1, <2>2, HistoryStays, CommitsShared DEF Next
<1> QED BY <1>1, InitUids, NextUids, PTL DEF Spec, MindwallUidsAscend

-------------------------------------------------------------------------------
(* The checkpoint does not go back *)

\* A session that is done with the folder and works on its messages.
Working == {"scan", "fetch", "analyse", "quarantine", "allocate", "store"}

\* How the copy a session s has of the row differs from the row itself.
CopyOf(s, row) ==
  /\ "seen" \notin s.dirty => s.row.seen = row.seen
  /\ "validity" \notin s.dirty => s.row.validity = row.validity
  /\ s.row.seen # row.seen => s.row.validity # row.validity
  /\ s.pc \in {"load", "select"} => s.row.seen = row.seen /\ s.row.validity = row.validity
  /\ s.pc \in Working => s.last = s.row.seen

\* The copies of the sessions that run with no other one beside them.
CopyInv ==
  /\ RacedInv
  /\ \A r \in Run \ raced : sync[r].pc # "idle" => CopyOf(sync[r], state)

LEMMA InitCopies == Init => CopyInv
BY InitRaced DEF Init, CopyInv, Idle

\* A session moves; what is needed is its own copy, if it is still alone.
LEMMA CopyStep ==
  ASSUME CopyInv, RacedInv', Recall, NEW r \in Run, Moves(r),
         r \notin raced /\ sync'[r].pc # "idle" => CopyOf(sync[r], state)'
  PROVE  CopyInv'
<1>1. \A q \in Run \ {r} : sync'[q].pc # "idle" => q \in raced'
  BY OthersRaced DEF CopyInv
<1>2. r \in raced /\ sync'[r].pc # "idle" => r \in raced'
  BY HistoryStays
<1> QED BY <1>1, <1>2 DEF CopyInv

\* A session goes on with the same row, which it does not write.
LEMMA CopyKept ==
  ASSUME CopyInv, RacedInv', Recall, NEW r \in Run, Moves(r), state' = state,
         sync[r].pc \in Working, sync'[r].pc \in Working,
         sync'[r].row = sync[r].row, sync'[r].dirty = sync[r].dirty,
         sync'[r].last = sync[r].last
  PROVE  CopyInv'
<1>1. r \notin raced => CopyOf(sync[r], state)
  BY DEF CopyInv, Working
<1>2. r \notin raced => CopyOf(sync[r], state)'
  BY <1>1 DEF CopyOf, Working
<1> QED BY <1>2, CopyStep

\* A session ends.
LEMMA CopyEnd ==
  ASSUME CopyInv, RacedInv', Recall, NEW r \in Run, Moves(r), End(r)
  PROVE  CopyInv'
<1>1. sync'[r].pc = "idle"
  BY EndNumbers, RacedFacts DEF CopyInv
<1> QED BY <1>1, CopyStep

\* A session that replaces its row marks the columns that change.
LEMMA AssignedCopy ==
  ASSUME NEW s \in Session, NEW row \in StateRow
  PROVE  LET t == Assign(s, row)
         IN  /\ t.row = row /\ t.pc = s.pc
             /\ "seen" \in t.dirty <=> ("seen" \in s.dirty \/ row.seen # s.row.seen)
             /\ "validity" \in t.dirty <=>
                  ("validity" \in s.dirty \/ row.validity # s.row.validity)
<1> DEFINE D == s.dirty \cup {c \in Columns : row[c] # s.row[c]}
<1>1. Assign(s, row).row = row /\ Assign(s, row).pc = s.pc /\ Assign(s, row).dirty = D
  BY DEF Assign, Session
<1>2. /\ "seen" \in D <=> ("seen" \in s.dirty \/ row.seen # s.row.seen)
      /\ "validity" \in D <=> ("validity" \in s.dirty \/ row.validity # s.row.validity)
  BY DEF Columns
<1> HIDE DEF D
<1> QED BY <1>1, <1>2

\* What a commit of an assigned row leaves in the table.
LEMMA AssignedWritten ==
  ASSUME NEW s \in Session, NEW row \in StateRow, CopyOf(s, state),
         Commit(Assign(s, row)), row.validity = s.row.validity
  PROVE  /\ state'.validity = s.row.validity
         /\ state'.seen = row.seen \/ (state'.seen = state.seen /\ row.seen = s.row.seen)
<1> DEFINE t == Assign(s, row)
<1>1. /\ t.row = row
      /\ "seen" \in t.dirty <=> ("seen" \in s.dirty \/ row.seen # s.row.seen)
      /\ "validity" \in t.dirty <=> "validity" \in s.dirty
  BY AssignedCopy
<1>2. state' = Written(t)
  BY DEF Commit
<1> HIDE DEF t
<1>3. /\ state'.seen = IF "seen" \in t.dirty THEN row.seen ELSE state.seen
      /\ state'.validity = IF "validity" \in t.dirty THEN row.validity ELSE state.validity
  BY <1>1, <1>2 DEF Written
<1> QED BY <1>1, <1>3 DEF CopyOf

\* The same of a commit of the session as it is.
LEMMA IngestedRow ==
  ASSUME TInv, NEW r \in Run, Ingest(r), CopyOf(sync[r], state)
  PROVE  /\ state'.seen = sync[r].row.seen /\ state'.validity = sync[r].row.validity
         /\ sync'[r].row = sync[r].row /\ sync'[r].last = sync[r].last
<1>1. state' = Written(sync[r])
  BY DEF Ingest, Commit
<1> QED BY <1>1, IngestNumbers DEF Written, CopyOf

\* Steps on one message and the listing keep the session at work.
LEMMA ItemStepsWork ==
  ASSUME TInv, NEW r \in Run,
         \/ StartMessage(r) \/ MessageFails(r) \/ AnalysisFails(r)
         \/ (\E v \in AnalysisVerdict : Analyse(r, v))
         \/ Quarantine(r) \/ AllocateUid(r) \/ SkipMapped(r) \/ StoreItem(r)
  PROVE  /\ state' = state /\ items' = items
         /\ sync[r].pc \in Working /\ sync'[r].pc \in Working
         /\ sync'[r].row = sync[r].row /\ sync'[r].dirty = sync[r].dirty
         /\ sync'[r].last = sync[r].last
<1>1. sync[r] \in Session
  BY SessionFacts
<1>2. ASSUME NEW pc \in Working, NEW new, Continue(r, [sync[r] EXCEPT !.pc = pc, !.item = new])
      PROVE  /\ sync'[r].pc \in Working
             /\ sync'[r].row = sync[r].row /\ sync'[r].dirty = sync[r].dirty
             /\ sync'[r].last = sync[r].last
  <2>1. sync'[r] = [sync[r] EXCEPT !.pc = pc, !.item = new]
    BY <1>2, ContinueFacts
  <2> QED BY <1>1, <2>1 DEF Session
<1>3. CASE StartMessage(r)
  BY <1>2, <1>3 DEF StartMessage, Working
<1>4. CASE MessageFails(r) \/ Quarantine(r)
  <2>1. sync'[r] = [sync[r] EXCEPT !.pc = "allocate"]
    BY <1>4, ContinueFacts DEF MessageFails, Quarantine
  <2>2. /\ sync'[r].pc = "allocate" /\ sync'[r].row = sync[r].row
        /\ sync'[r].dirty = sync[r].dirty /\ sync'[r].last = sync[r].last
    BY <1>1, <2>1 DEF Session
  <2> QED BY <1>4, <2>2 DEF MessageFails, Quarantine, Working
<1>5. CASE AnalysisFails(r)
  BY <1>2, <1>5 DEF AnalysisFails, Working
<1>6. CASE \E v \in AnalysisVerdict : Analyse(r, v)
  BY <1>2, <1>6 DEF Analyse, Working
<1>7. CASE AllocateUid(r)
  BY <1>2, <1>7 DEF AllocateUid, Working
<1>8. CASE SkipMapped(r)
  <2> DEFINE todo == sync[r].todo \ {Min(sync[r].todo)}
             high == Max({sync[r].high, Min(sync[r].todo)})
             t == [sync[r] EXCEPT !.todo = todo, !.high = high]
  <2>1. sync'[r] = t
    <3>1. Continue(r, t)
      BY <1>8 DEF SkipMapped
    <3> QED BY <3>1, ContinueFacts
  <2> HIDE DEF todo, high
  <2>2. /\ t.pc = sync[r].pc /\ t.row = sync[r].row
        /\ t.dirty = sync[r].dirty /\ t.last = sync[r].last
    BY <1>1 DEF Session
  <2> HIDE DEF t
  <2> QED BY <1>8, <2>1, <2>2 DEF SkipMapped, Working
<1>9. CASE StoreItem(r)
  <2> DEFINE s == sync[r]
             ingested == s.item.msg # 0
             todo == s.todo \ {s.item.uid}
             added == s.added \cup {s.item}
             stored == s.stored \/ ingested
             failed == s.failed \/ ~ingested
             high == IF ingested THEN Max({s.high, s.item.uid}) ELSE s.high
             t == [s EXCEPT !.pc = "scan", !.todo = todo, !.added = added,
                            !.stored = stored, !.failed = failed, !.high = high]
  <2>1. sync'[r] = t
    <3>1. Continue(r, t)
      BY <1>9 DEF StoreItem
    <3> QED BY <3>1, ContinueFacts
  <2>2. s \in Session
    BY <1>1
  <2> HIDE DEF todo, added, stored, failed, high
  <2>3. /\ t.pc = "scan" /\ t.row = s.row /\ t.dirty = s.dirty /\ t.last = s.last
    BY <2>2 DEF Session
  <2> HIDE DEF t
  <2> QED BY <1>9, <2>1, <2>3 DEF StoreItem, Working
<1> QED BY <1>3, <1>4, <1>5, <1>6, <1>7, <1>8, <1>9

\* The row the session loads is the committed one.
LEMMA CopyLoad ==
  ASSUME CopyInv, RacedInv', Recall, NEW r \in Run, Moves(r),
         LoadState(r)
  PROVE  CopyInv'
<1>1. TInv
  BY RacedFacts DEF CopyInv
<1>2. sync'[r].row = state /\ sync'[r].pc = "load"
  BY <1>1, LoadStateNumbers
<1>3. state' = state
  BY DEF LoadState
<1>4. state.seen \in Nat
  BY <1>1 DEF TInv, SyncTypes, StateRow
<1>5. CopyOf(sync'[r], state')
  BY <1>2, <1>3, <1>4 DEF CopyOf, Working
<1> QED BY <1>2, <1>3, <1>5, CopyStep

\* Its first flush changes the status only.
LEMMA CopyMark ==
  ASSUME CopyInv, RacedInv', Recall, NEW r \in Run, Moves(r),
         MarkSyncing(r)
  PROVE  CopyInv'
<1>1. TInv
  BY RacedFacts DEF CopyInv
<1> DEFINE row == [sync[r].row EXCEPT !.status = "syncing"]
           s == Assign(sync[r], row)
           t == [s EXCEPT !.pc = "select", !.locks = TRUE]
<1>2. sync'[r] = t /\ state' = state
  <2>1. Continue(r, t)
    BY DEF MarkSyncing
  <2> QED BY <1>1, <2>1, ContinueFacts DEF MarkSyncing
<1>3. TInv /\ sync[r] \in Session
  BY <1>1, SessionFacts
<1>4. row.seen = sync[r].row.seen /\ row.validity = sync[r].row.validity
  BY <1>3 DEF Session, StateRow
<1> HIDE DEF row
<1>5. t.pc = "select" /\ t.row = row
  BY <1>3 DEF Session, Assign
<1>6. r \notin raced =>
        sync[r].row.seen = state.seen /\ sync[r].row.validity = state.validity
  BY DEF MarkSyncing, CopyInv, CopyOf
<1>7. state.seen \in Nat
  BY <1>3 DEF TInv, SyncTypes, StateRow
<1> HIDE DEF t
<1>8. r \notin raced => CopyOf(t, state)
  BY <1>4, <1>5, <1>6, <1>7 DEF CopyOf, Working
<1>9. r \notin raced => CopyOf(sync'[r], state')
  BY <1>2, <1>8
<1> QED BY <1>9, CopyStep

\* SELECT starts again from zero only under a new UIDVALIDITY.
LEMMA CopySelect ==
  ASSUME CopyInv, RacedInv', Recall, NEW r \in Run, Moves(r),
         SelectFolder(r)
  PROVE  CopyInv'
<1>1. TInv
  BY RacedFacts DEF CopyInv
<1> DEFINE reset == sync[r].row.validity \notin {0, folder.epoch}
           last == IF reset THEN 0 ELSE sync[r].row.seen
           row == [sync[r].row EXCEPT !.seen = last, !.validity = folder.epoch]
           s == Assign(sync[r], row)
<1>2. PICK uids :
        Continue(r, [s EXCEPT !.pc = "scan", !.todo = uids,
                              !.last = last, !.high = last])
  BY DEF SelectFolder
<1> DEFINE t == [s EXCEPT !.pc = "scan", !.todo = uids,
                          !.last = last, !.high = last]
<1>3. sync'[r] = t /\ state' = state
  BY <1>1, <1>2, ContinueFacts DEF SelectFolder
<1>4. TInv /\ sync[r] \in Session /\ folder.epoch \in Nat
  BY <1>1, SessionFacts DEF TInv, SyncTypes
<1>5. r \notin raced =>
        sync[r].row.seen = state.seen /\ sync[r].row.validity = state.validity
  BY DEF SelectFolder, CopyInv, CopyOf
<1>6. /\ last \in Nat
      /\ r \notin raced =>
           last = state.seen \/ (last = 0 /\ folder.epoch # state.validity)
  BY <1>4, <1>5 DEF Session, StateRow
<1> HIDE DEF last
<1>7. row \in StateRow /\ row.seen = last /\ row.validity = folder.epoch
  BY <1>4, <1>6 DEF Session, StateRow
<1> HIDE DEF row
<1>8. /\ s.row = row
      /\ "seen" \in s.dirty <=> ("seen" \in sync[r].dirty \/ row.seen # sync[r].row.seen)
      /\ "validity" \in s.dirty <=>
           ("validity" \in sync[r].dirty \/ row.validity # sync[r].row.validity)
  BY <1>4, <1>7, AssignedCopy
<1>9. /\ t.pc = "scan" /\ t.row = s.row /\ t.dirty = s.dirty /\ t.last = last
  BY <1>4 DEF Session, Assign
<1> HIDE DEF s, t
<1>10. state.seen \in Nat
  BY <1>4 DEF TInv, SyncTypes, StateRow
<1>11. r \notin raced => CopyOf(t, state)
  BY <1>5, <1>6, <1>7, <1>8, <1>9, <1>10 DEF CopyOf
<1>12. r \notin raced => CopyOf(sync'[r], state')
  BY <1>3, <1>11
<1> QED BY <1>12, CopyStep

\* After the commit of a message the row is the session's.
LEMMA CopyIngest ==
  ASSUME CopyInv, RacedInv', Recall, NEW r \in Run, Moves(r),
         Ingest(r)
  PROVE  CopyInv'
<1>1. TInv
  BY RacedFacts DEF CopyInv
<1>2. r \notin raced => CopyOf(sync[r], state)
  BY DEF CopyInv, Ingest
<1>3. sync'[r].pc = "analyse" /\ sync[r].row.seen \in Nat /\ sync[r].pc = "fetch"
  BY <1>1, IngestNumbers, SessionFacts DEF Session, StateRow, Ingest
<1>4. ASSUME r \notin raced PROVE CopyOf(sync[r], state)'
  <2>1. /\ state'.seen = sync[r].row.seen /\ state'.validity = sync[r].row.validity
        /\ sync'[r].row = sync[r].row /\ sync'[r].last = sync[r].last
    BY <1>1, <1>2, <1>4, IngestedRow
  <2> QED BY <1>2, <1>3, <1>4, <2>1 DEF CopyOf, Working
<1> QED BY <1>4, CopyStep

LEMMA NextCopies == CopyInv /\ [Next]_vars => CopyInv'
<1> SUFFICES ASSUME CopyInv, [Next]_vars PROVE CopyInv'
  OBVIOUS
<1>1. TInv /\ RacedInv /\ RacedInv'
  BY NextRaced, RacedFacts DEF CopyInv
<1>2. CASE UNCHANGED vars
  BY <1>1, <1>2 DEF vars, CopyInv
<1>3. ASSUME Upstream \/ Administer, Recall PROVE CopyInv'
  <2>1. UNCHANGED <<state, sync>>
    BY <1>3 DEF Upstream, Deliver, Expunge, Renumber, Unchanged,
       Administer, Reanalyse, Release, syncVars
  <2> QED BY <1>1, <1>3, <2>1, HistoryStays DEF CopyInv
<1>4. ASSUME NEW r \in Run, LoadState(r), Recall PROVE CopyInv'
  BY <1>1, <1>4, SessionMoves, CopyLoad
<1>5. ASSUME NEW r \in Run, Step(r), Recall PROVE CopyInv'
  <2>1. Moves(r)
    BY <1>1, <1>5, SessionMoves
  <2>2. CASE AbortSync(r) \/ Finish(r) \/ DatabaseError(r)
    <3>1. End(r)
      BY <2>2 DEF AbortSync, Finish, DatabaseError
    <3> QED BY <1>1, <1>5, <2>1, <3>1, CopyEnd
  <2>3. CASE \/ StartMessage(r) \/ MessageFails(r) \/ AnalysisFails(r)
             \/ (\E v \in AnalysisVerdict : Analyse(r, v))
             \/ Quarantine(r) \/ AllocateUid(r) \/ SkipMapped(r) \/ StoreItem(r)
    BY <1>1, <1>5, <2>1, <2>3, ItemStepsWork, CopyKept
  <2> QED BY <1>1, <1>5, <2>1, <2>2, <2>3, CopyMark, CopySelect, CopyIngest DEF Step
<1>6. ASSUME NEW r \in Run, Crash(r), Recall PROVE CopyInv'
  BY <1>1, <1>6, SessionMoves, CopyEnd DEF Crash
<1> QED BY <1>2, <1>3, <1>4, <1>5, <1>6 DEF Next, Syncing

\* A commit of a row that is not behind the copy goes back only to another
\* UIDVALIDITY.
LEMMA CommitGoesBack ==
  ASSUME TInv, NEW r \in Run, NEW row \in StateRow, CopyOf(sync[r], state),
         Commit(Assign(sync[r], row)),
         row.validity = sync[r].row.validity, sync[r].row.seen <= row.seen,
         state'.seen < state.seen
  PROVE  state'.validity # state.validity
<1>1. sync[r] \in Session
  BY SessionFacts
<1>2. /\ state.seen \in Nat /\ sync[r].row.seen \in Nat /\ row.seen \in Nat
  BY <1>1 DEF TInv, SyncTypes, Session, StateRow
<1>3. /\ state'.validity = sync[r].row.validity
      /\ state'.seen = row.seen \/ state'.seen = state.seen
  BY <1>1, AssignedWritten
<1> QED BY <1>2, <1>3 DEF CopyOf

\* A step that changes the checkpoint is a commit of a sync that runs.
LEMMA CheckpointStep ==
  ASSUME TInv, Next, state' # state
  PROVE  \E r \in Run : /\ AbortSync(r) \/ Ingest(r) \/ Finish(r)
                        /\ r \in raced => OfRacedSync
<1>1. PICK r \in Run : AbortSync(r) \/ Ingest(r) \/ Finish(r)
  BY DEF Next, Syncing, Upstream, Deliver, Expunge, Renumber, Unchanged, LoadState,
     Crash, Step, MarkSyncing, SelectFolder, SkipMapped, StartMessage, MessageFails,
     AnalysisFails, Analyse, Quarantine, AllocateUid, StoreItem, DatabaseError,
     Administer, Reanalyse, Release, syncVars
<1>2. sync'[r] # sync[r]
  <2>1. CASE AbortSync(r) \/ Finish(r)
    BY <2>1, EndNumbers DEF AbortSync, Finish
  <2>2. CASE Ingest(r)
    BY <2>2, IngestNumbers DEF Ingest
  <2> QED BY <1>1, <2>1, <2>2
<1> QED BY <1>1, <1>2 DEF OfRacedSync

LEMMA StepGoesBack ==
  ASSUME CopyInv, Next, state'.seen < state.seen, ~OfRacedSync
  PROVE  state'.validity # state.validity
<1>1. TInv /\ state.seen \in Nat
  BY RacedFacts DEF CopyInv, TInv, SyncTypes, StateRow
<1>2. state' # state
  BY <1>1
<1>3. PICK r \in Run \ raced : AbortSync(r) \/ Ingest(r) \/ Finish(r)
  BY <1>1, <1>2, CheckpointStep
<1>4. CopyOf(sync[r], state)
  BY <1>3 DEF CopyInv, AbortSync, Ingest, Finish
<1>5. sync[r] \in Session /\ sync[r].row.seen \in Nat
  BY <1>1, SessionFacts DEF Session, StateRow
<1>6. CASE AbortSync(r)
  <2> DEFINE row == [sync[r].row EXCEPT !.status = "error"]
  <2>1. /\ row \in StateRow /\ row.seen = sync[r].row.seen
        /\ row.validity = sync[r].row.validity
    BY <1>5 DEF Session, StateRow, SyncStatus
  <2>2. Commit(Assign(sync[r], row))
    BY <1>6 DEF AbortSync
  <2> HIDE DEF row
  <2> QED BY <1>1, <1>4, <1>5, <2>1, <2>2, CommitGoesBack
<1>7. CASE Ingest(r)
  <2>1. state'.seen = sync[r].row.seen /\ state'.validity = sync[r].row.validity
    BY <1>1, <1>4, <1>7, IngestedRow
  <2> QED BY <1>1, <1>4, <1>5, <2>1 DEF CopyOf
<1>8. CASE Finish(r)
  <2> DEFINE seen == IF sync[r].high > sync[r].last THEN sync[r].high
                     ELSE sync[r].row.seen
             out == Outcome(sync[r])
             row == [sync[r].row EXCEPT !.seen = seen, !.status = out]
  <2>1. Commit(Assign(sync[r], row))
    BY <1>8 DEF Finish
  <2>2. sync[r].last = sync[r].row.seen
    BY <1>4, <1>8 DEF Finish, CopyOf, Working
  <2>3. seen \in Nat /\ out \in SyncStatus /\ sync[r].row.seen <= seen
    BY <1>5, <2>2, OutcomeType DEF Session, StateRow
  <2> HIDE DEF seen, out
  <2>4. /\ row \in StateRow /\ row.seen = seen
        /\ row.validity = sync[r].row.validity
    BY <1>5, <2>3 DEF Session, StateRow
  <2> HIDE DEF row
  <2> QED BY <1>1, <1>4, <2>1, <2>3, <2>4, CommitGoesBack
<1> QED BY <1>3, <1>6, <1>7, <1>8

(***************************************************************************)
(* The checkpoint goes back only with a change of UIDVALIDITY, through     *)
(* crashes and failed runs, unless the sync that writes it overlapped with *)
(* another (the commits of sync_mailbox_folder from a copy of the row it   *)
(* never refreshes).                                                       *)
(***************************************************************************)
THEOREM CheckpointIsMonotone == Spec => CheckpointNeverRegresses
<1>1. CopyInv /\ [Next]_vars =>
        [state'.seen < state.seen /\ state'.validity = state.validity => OfRacedSync]_vars
  BY StepGoesBack
<1> QED BY <1>1, InitCopies, NextCopies, PTL DEF Spec, CheckpointNeverRegresses

-------------------------------------------------------------------------------
(***************************************************************************)
(* UIDVALIDITY.  The columns last_seen_uid and uid_validity are written by *)
(* several commits, by any number of syncs, each from its own copy.        *)
(***************************************************************************)

\* A UIDVALIDITY the folder has, or has had.
Known(n) == n \in 1 .. folder.epoch

\* A copy of the row without a UIDVALIDITY has no checkpoint either, and is
\* not going to be written; one with a UIDVALIDITY may only wait to be.
Stamped(s) ==
  /\ s.row.validity = 0 => s.row.seen = 0 /\ "validity" \notin s.dirty
  /\ s.row.validity # 0 =>
       Known(s.row.validity) /\ ("validity" \in s.dirty \/ state.validity # 0)

EpochInv ==
  /\ TInv
  /\ folder.epoch \in 1 .. MaxEpoch
  /\ state.validity # 0 => Known(state.validity)
  /\ state.seen # 0 => state.validity # 0
  /\ \A i \in items : Known(i.epoch)
  /\ \A r \in Run :
       /\ Stamped(sync[r])
       /\ sync[r].pc \in Working => sync[r].row.validity # 0
       /\ AtMessage(sync[r]) => Known(sync[r].item.epoch)
       /\ \A i \in sync[r].added : Known(i.epoch)

LEMMA InitEpoch == SyncConstants /\ Init => EpochInv
<1> SUFFICES ASSUME SyncConstants, Init PROVE EpochInv
  OBVIOUS
<1>1. TInv
  BY InitType
<1>2. /\ folder.epoch \in 1 .. MaxEpoch
      /\ state.validity = 0 /\ state.seen = 0 /\ items = {}
  BY DEF Init, NoRow, SyncConstants
<1>3. ASSUME NEW r \in Run
      PROVE  /\ sync[r].row.validity = 0 /\ sync[r].row.seen = 0
             /\ sync[r].dirty = {} /\ sync[r].added = {} /\ sync[r].pc = "idle"
  BY DEF Init, Idle, NoRow
<1> QED BY <1>1, <1>2, <1>3 DEF EpochInv, Stamped, Working, AtMessage

\* What a commit of a stamped session leaves of the row.
LEMMA CommitStamped ==
  ASSUME EpochInv, NEW s, Stamped(s), Commit(s)
  PROVE  /\ state'.validity # 0 => Known(state'.validity)
         /\ state'.seen # 0 => state'.validity # 0
         /\ state.validity # 0 \/ s.row.validity # 0 => state'.validity # 0
         /\ items' = items \cup s.added
<1>1. /\ state'.validity = IF "validity" \in s.dirty THEN s.row.validity ELSE state.validity
      /\ state'.seen = IF "seen" \in s.dirty THEN s.row.seen ELSE state.seen
      /\ items' = items \cup s.added
  BY DEF Commit, Written
<1> QED BY <1>1 DEF EpochInv, Stamped

\* A session that replaces its row by a stamped one of the same UIDVALIDITY.
LEMMA AssignStamped ==
  ASSUME NEW s \in Session, NEW row \in StateRow, Stamped(s),
         row.validity = s.row.validity, row.validity = 0 => row.seen = 0
  PROVE  Stamped(Assign(s, row))
<1>1. /\ Assign(s, row).row = row
      /\ "validity" \in Assign(s, row).dirty <=> "validity" \in s.dirty
  BY AssignedCopy
<1> QED BY <1>1 DEF Stamped

\* A session moves, and the row keeps a UIDVALIDITY it has.
LEMMA EpochStep ==
  ASSUME EpochInv, TInv', NEW r \in Run, folder' = folder,
         \A q \in Run \ {r} : sync'[q] = sync[q],
         items' \subseteq items \cup sync[r].added,
         state'.validity # 0 => Known(state'.validity),
         state'.seen # 0 => state'.validity # 0,
         state.validity # 0 => state'.validity # 0,
         Stamped(sync[r])',
         sync'[r].pc \in Working => sync'[r].row.validity # 0,
         AtMessage(sync'[r]) => Known(sync'[r].item.epoch),
         \A i \in sync'[r].added : Known(i.epoch)
  PROVE  EpochInv'
<1>1. \A n : Known(n) <=> Known(n)'
  BY DEF Known
<1>2. \A i \in items' : Known(i.epoch)
  BY DEF EpochInv
<1>3. ASSUME NEW q \in Run
      PROVE  /\ Stamped(sync[q])'
             /\ sync'[q].pc \in Working => sync'[q].row.validity # 0
             /\ AtMessage(sync'[q]) => Known(sync'[q].item.epoch)
             /\ \A i \in sync'[q].added : Known(i.epoch)
  <2>1. CASE q = r
    BY <2>1
  <2>2. CASE q # r
    BY <1>1, <2>2 DEF EpochInv, Stamped
  <2> QED BY <2>1, <2>2
<1>4. /\ folder'.epoch \in 1 .. MaxEpoch
      /\ \A i \in items' : Known(i.epoch)'
      /\ state'.validity # 0 => Known(state.validity)'
  BY <1>1, <1>2 DEF EpochInv, Known
<1>5. ASSUME NEW q \in Run
      PROVE  /\ AtMessage(sync'[q]) => Known(sync[q].item.epoch)'
             /\ \A i \in sync'[q].added : Known(i.epoch)'
  BY <1>3 DEF Known
<1> QED BY <1>3, <1>4, <1>5 DEF EpochInv, AtMessage

\* Steps that leave the rows alone, the session's and the committed one.
LEMMA EpochQuiet ==
  ASSUME EpochInv, TInv', NEW r \in Run, UNCHANGED <<folder, state, items>>,
         \A q \in Run \ {r} : sync'[q] = sync[q],
         sync'[r].row = sync[r].row,
         "validity" \in sync'[r].dirty <=> "validity" \in sync[r].dirty,
         sync'[r].pc \in Working => sync[r].pc \in Working,
         AtMessage(sync'[r]) => Known(sync'[r].item.epoch),
         \A i \in sync'[r].added : Known(i.epoch)
  PROVE  EpochInv'
<1>1. Stamped(sync[r])'
  BY DEF EpochInv, Stamped, Known
<1> QED BY <1>1, EpochStep DEF EpochInv

\* The session ends, and the row keeps a UIDVALIDITY it has.
LEMMA EpochEnd ==
  ASSUME EpochInv, TInv', NEW r \in Run, End(r), folder' = folder,
         items' \subseteq items \cup sync[r].added,
         state'.validity # 0 => Known(state'.validity),
         state'.seen # 0 => state'.validity # 0,
         state.validity # 0 => state'.validity # 0
  PROVE  EpochInv'
<1>1. sync'[r] = Idle /\ \A q \in Run \ {r} : sync'[q] = sync[q]
  BY ContinueFacts DEF End, EpochInv
<1>2. /\ Idle.row.validity = 0 /\ Idle.row.seen = 0 /\ Idle.dirty = {}
      /\ Idle.pc = "idle" /\ Idle.added = {}
  BY DEF Idle, NoRow
<1>3. Stamped(sync[r])' /\ sync'[r].pc \notin Working /\ ~AtMessage(sync'[r])
  BY <1>1, <1>2 DEF Stamped, Working, AtMessage
<1> QED BY <1>1, <1>2, <1>3, EpochStep

\* The session commits a row of its own UIDVALIDITY and ends.
LEMMA EpochCommit ==
  ASSUME EpochInv, TInv', NEW r \in Run, End(r), folder' = folder,
         NEW row \in StateRow, Commit(Assign(sync[r], row)),
         row.validity = sync[r].row.validity, row.validity = 0 => row.seen = 0
  PROVE  EpochInv'
<1>1. sync[r] \in Session /\ Stamped(sync[r])
  BY SessionFacts DEF EpochInv
<1>2. Stamped(Assign(sync[r], row))
  BY <1>1, AssignStamped
<1>3. /\ state'.validity # 0 => Known(state'.validity)
      /\ state'.seen # 0 => state'.validity # 0
      /\ state.validity # 0 => state'.validity # 0
  BY <1>2, CommitStamped
<1>4. items' = items \cup sync[r].added
  BY <1>1, CommitAdds
<1> QED BY <1>3, <1>4, EpochEnd

\* Each step but those that touch the row.
LEMMA MessageEpoch ==
  ASSUME EpochInv, TInv', NEW r \in Run,
         \/ MessageFails(r) \/ AnalysisFails(r)
         \/ (\E v \in AnalysisVerdict : Analyse(r, v))
         \/ Quarantine(r) \/ AllocateUid(r)
  PROVE  EpochInv'
<1> DEFINE s == sync[r]
<1>1. s \in Session /\ s.item \in Item /\ TInv
  BY SessionFacts DEF Session, EpochInv
<1>2. /\ folder' = folder /\ state' = state /\ items' = items
      /\ s.pc \in Working /\ sync'[r].row = s.row /\ sync'[r].dirty = s.dirty
  BY <1>1, ItemStepsWork DEF MessageFails, AnalysisFails, Analyse, Quarantine, AllocateUid
<1>3. /\ \A q \in Run \ {r} : sync'[q] = sync[q]
      /\ AtMessage(s) /\ sync'[r].added \subseteq s.added
  BY <1>1, MessageAdvances DEF CarriesOn
<1>4. sync'[r].item.epoch = s.item.epoch
  <2>1. CASE MessageFails(r) \/ Quarantine(r)
    <3>1. sync'[r] = [s EXCEPT !.pc = "allocate"]
      BY <1>1, <2>1, ContinueFacts DEF MessageFails, Quarantine
    <3> QED BY <1>1, <3>1 DEF Session
  <2>2. ASSUME NEW vis, NEW pc,
               Continue(r, [s EXCEPT !.pc = pc, !.item = [s.item EXCEPT !.vis = vis]])
        PROVE  sync'[r].item.epoch = s.item.epoch
    <3> DEFINE new == [s.item EXCEPT !.vis = vis]
    <3>1. new.epoch = s.item.epoch
      BY <1>1 DEF Item
    <3>2. sync'[r] = [s EXCEPT !.pc = pc, !.item = new]
      BY <1>1, <2>2, ContinueFacts
    <3> HIDE DEF new
    <3> QED BY <1>1, <3>1, <3>2 DEF Session
  <2>3. CASE AnalysisFails(r)
    <3> DEFINE vis == VerdictToVisibility("allow", SoftHold)
    <3>1. Continue(r, [s EXCEPT !.pc = "allocate", !.item = [s.item EXCEPT !.vis = vis]])
      BY <2>3 DEF AnalysisFails
    <3> HIDE DEF vis
    <3> QED BY <2>2, <3>1
  <2>4. CASE \E v \in AnalysisVerdict : Analyse(r, v)
    <3>1. PICK v \in AnalysisVerdict : Analyse(r, v)
      BY <2>4
    <3> DEFINE vis == VerdictToVisibility(v, SoftHold)
               pc == IF ShouldQuarantine(v, SoftHold) THEN "quarantine" ELSE "allocate"
    <3>2. Continue(r, [s EXCEPT !.pc = pc, !.item = [s.item EXCEPT !.vis = vis]])
      BY <3>1 DEF Analyse
    <3> HIDE DEF vis, pc
    <3> QED BY <2>2, <3>2
  <2>5. CASE AllocateUid(r)
    <3> DEFINE next == Max({0} \cup {i.mwuid : i \in Sees(r)}) + 1
               new == [s.item EXCEPT !.mwuid = next]
    <3>1. Continue(r, [s EXCEPT !.pc = "store", !.item = new])
      BY <2>5 DEF AllocateUid
    <3> HIDE DEF next
    <3>2. new.epoch = s.item.epoch
      BY <1>1 DEF Item
    <3>3. sync'[r] = [s EXCEPT !.pc = "store", !.item = new]
      BY <1>1, <3>1, ContinueFacts
    <3> HIDE DEF new
    <3> QED BY <1>1, <3>2, <3>3 DEF Session
  <2> QED BY <2>1, <2>3, <2>4, <2>5
<1>5. /\ Known(s.item.epoch) /\ \A i \in s.added : Known(i.epoch)
  BY <1>3 DEF EpochInv
<1> HIDE DEF s
<1> QED BY <1>2, <1>3, <1>4, <1>5, EpochQuiet DEF s

LEMMA TakeUpEpoch ==
  ASSUME EpochInv, TInv', NEW r \in Run,
         SkipMapped(r) \/ StartMessage(r) \/ StoreItem(r)
  PROVE  EpochInv'
<1> DEFINE s == sync[r]
<1>1. s \in Session /\ s.item \in Item /\ TInv
  BY SessionFacts DEF Session, EpochInv
<1>2. /\ folder' = folder /\ state' = state /\ items' = items
      /\ s.pc \in Working /\ sync'[r].row = s.row /\ sync'[r].dirty = s.dirty
  BY <1>1, ItemStepsWork DEF SkipMapped, StartMessage, StoreItem
<1>3. \A i \in s.added : Known(i.epoch)
  BY DEF EpochInv
<1>4. CASE SkipMapped(r)
  <2>1. /\ \A q \in Run \ {r} : sync'[q] = sync[q]
        /\ ~AtMessage(sync'[r]) /\ sync'[r].added = s.added
    BY <1>1, <1>4, SkipMappedNumbers DEF AtMessage
  <2> QED BY <1>2, <1>3, <2>1, EpochQuiet
<1>5. CASE StartMessage(r)
  <2> DEFINE new == [NoItem EXCEPT !.uid = Min(s.todo), !.epoch = s.row.validity]
  <2>1. /\ sync'[r] = [s EXCEPT !.pc = "fetch", !.item = new]
        /\ \A q \in Run \ {r} : sync'[q] = sync[q]
    BY <1>1, <1>5, ContinueFacts DEF StartMessage
  <2>2. new.epoch = s.row.validity /\ Known(s.row.validity)
    BY <1>2 DEF NoItem, EpochInv, Stamped
  <2> HIDE DEF new
  <2>3. sync'[r].item = new /\ sync'[r].added = s.added
    BY <1>1, <2>1 DEF Session
  <2> QED BY <1>2, <1>3, <2>1, <2>2, <2>3, EpochQuiet
<1>6. CASE StoreItem(r)
  <2>1. /\ \A q \in Run \ {r} : sync'[q] = sync[q]
        /\ sync'[r].pc = "scan" /\ sync'[r].added = s.added \cup {s.item}
    BY <1>1, <1>6, StoreItemNumbers
  <2>2. ~AtMessage(sync'[r]) /\ Known(s.item.epoch)
    BY <1>6, <2>1 DEF AtMessage, StoreItem, EpochInv
  <2> QED BY <1>2, <1>3, <2>1, <2>2, EpochQuiet
<1> QED BY <1>4, <1>5, <1>6

LEMMA IngestEpoch ==
  ASSUME EpochInv, TInv', NEW r \in Run, Ingest(r)
  PROVE  EpochInv'
<1> DEFINE s == sync[r]
           new == [s.item EXCEPT !.msg = Len(messages) + 1]
           t == [Committed(s) EXCEPT !.pc = "analyse", !.item = new]
<1>1. s \in Session /\ s.item \in Item /\ TInv
  BY SessionFacts DEF Session, EpochInv
<1>2. sync'[r] = t /\ \A q \in Run \ {r} : sync'[q] = sync[q]
  <2>1. Continue(r, t)
    BY DEF Ingest, Committed
  <2> QED BY <1>1, <2>1, ContinueFacts
<1>3. new.epoch = s.item.epoch
  BY <1>1 DEF Item
<1> HIDE DEF new
<1>4. t.pc = "analyse" /\ t.row = s.row /\ t.dirty = {} /\ t.item = new /\ t.added = {}
  BY <1>1 DEF Committed, Session
<1>5. folder' = folder /\ Commit(s) /\ s.pc = "fetch"
  BY DEF Ingest
<1> HIDE DEF t
<1>6. Stamped(s) /\ s.row.validity # 0 /\ Known(s.item.epoch)
  BY <1>5 DEF EpochInv, Working, AtMessage
<1>7. /\ state'.validity # 0 => Known(state'.validity)
      /\ state'.validity # 0 /\ items' = items \cup s.added
  BY <1>5, <1>6, CommitStamped
<1>8. Stamped(sync[r])'
  BY <1>2, <1>4, <1>5, <1>6, <1>7 DEF Stamped, Known
<1> QED BY <1>2, <1>3, <1>4, <1>5, <1>6, <1>7, <1>8, EpochStep

LEMMA LoadEpoch ==
  ASSUME EpochInv, TInv', NEW r \in Run, LoadState(r)
  PROVE  EpochInv'
<1>1. /\ sync'[r] = [Idle EXCEPT !.pc = "load", !.row = state]
      /\ \A q \in Run \ {r} : sync'[q] = sync[q]
  BY ContinueFacts DEF LoadState, EpochInv
<1>2. /\ sync'[r].pc = "load" /\ sync'[r].row = state /\ sync'[r].added = {}
      /\ sync'[r].dirty = {}
  BY <1>1 DEF Idle
<1>3. folder' = folder /\ state' = state /\ items' = items
  BY DEF LoadState
<1>4. Stamped(sync[r])' /\ sync'[r].pc \notin Working /\ ~AtMessage(sync'[r])
  BY <1>2, <1>3 DEF EpochInv, Stamped, Known, Working, AtMessage
<1> QED BY <1>1, <1>2, <1>3, <1>4, EpochStep DEF EpochInv

LEMMA MarkEpoch ==
  ASSUME EpochInv, TInv', NEW r \in Run, MarkSyncing(r)
  PROVE  EpochInv'
<1> DEFINE row == [sync[r].row EXCEPT !.status = "syncing"]
           s == Assign(sync[r], row)
           t == [s EXCEPT !.pc = "select", !.locks = TRUE]
<1>1. TInv /\ sync[r] \in Session
  BY SessionFacts DEF EpochInv
<1>2. sync'[r] = t /\ \A q \in Run \ {r} : sync'[q] = sync[q]
  <2>1. Continue(r, t)
    BY DEF MarkSyncing
  <2> QED BY <1>1, <2>1, ContinueFacts
<1>3. /\ row \in StateRow /\ row.seen = sync[r].row.seen
      /\ row.validity = sync[r].row.validity
  BY <1>1 DEF Session, StateRow, SyncStatus
<1> HIDE DEF row
<1>4. s.row = row /\ ("validity" \in s.dirty <=> "validity" \in sync[r].dirty)
  BY <1>1, <1>3, AssignedCopy
<1>5. /\ t.pc = "select" /\ t.row = s.row /\ t.dirty = s.dirty
      /\ t.added = sync[r].added
  BY <1>1 DEF Session, Assign
<1> HIDE DEF s, t
<1>6. folder' = folder /\ state' = state /\ items' = items
  BY DEF MarkSyncing
<1>7. Stamped(sync[r])' /\ sync'[r].pc \notin Working /\ ~AtMessage(sync'[r])
  BY <1>2, <1>3, <1>4, <1>5, <1>6 DEF EpochInv, Stamped, Known, Working, AtMessage
<1> QED BY <1>2, <1>5, <1>6, <1>7, EpochStep DEF EpochInv

LEMMA SelectEpoch ==
  ASSUME EpochInv, TInv', NEW r \in Run, SelectFolder(r)
  PROVE  EpochInv'
<1> DEFINE reset == sync[r].row.validity \notin {0, folder.epoch}
           last == IF reset THEN 0 ELSE sync[r].row.seen
           row == [sync[r].row EXCEPT !.seen = last, !.validity = folder.epoch]
           s == Assign(sync[r], row)
<1>1. /\ TInv /\ sync[r] \in Session
      /\ folder.epoch \in Nat \ {0} /\ Known(folder.epoch)
  BY SessionFacts, SyncConstants DEF EpochInv, Known
<1>2. PICK uids :
        Continue(r, [s EXCEPT !.pc = "scan", !.todo = uids,
                              !.last = last, !.high = last])
  BY DEF SelectFolder
<1> DEFINE t == [s EXCEPT !.pc = "scan", !.todo = uids,
                          !.last = last, !.high = last]
<1>3. sync'[r] = t /\ \A q \in Run \ {r} : sync'[q] = sync[q]
  BY <1>1, <1>2, ContinueFacts
<1>4. last \in Nat
  BY <1>1 DEF Session, StateRow
<1> HIDE DEF last
<1>5. row \in StateRow /\ row.validity = folder.epoch
  BY <1>1, <1>4 DEF Session, StateRow
<1> HIDE DEF row
<1>6. /\ s.row = row
      /\ "validity" \in s.dirty <=>
           ("validity" \in sync[r].dirty \/ row.validity # sync[r].row.validity)
  BY <1>1, <1>5, AssignedCopy
<1>7. /\ t.pc = "scan" /\ t.row = s.row /\ t.dirty = s.dirty
      /\ t.added = sync[r].added
  BY <1>1 DEF Session, Assign
<1> HIDE DEF s, t
<1>8. folder' = folder /\ state' = state /\ items' = items
  BY DEF SelectFolder
<1>9. Stamped(sync[r])' /\ sync'[r].row.validity # 0 /\ ~AtMessage(sync'[r])
  BY <1>1, <1>3, <1>5, <1>6, <1>7, <1>8 DEF EpochInv, Stamped, Known, AtMessage
<1> QED BY <1>3, <1>7, <1>8, <1>9, EpochStep DEF EpochInv

LEMMA NextEpoch == EpochInv /\ [Next]_vars => EpochInv'
<1> SUFFICES ASSUME EpochInv, [Next]_vars PROVE EpochInv'
  OBVIOUS
<1>1. TInv /\ TInv'
  BY NextType DEF EpochInv
<1>2. CASE Upstream
  <2>1. UNCHANGED <<state, items, sync>>
    BY <1>2 DEF Upstream, Deliver, Expunge, Renumber, Unchanged
  <2>2. /\ folder'.epoch \in 1 .. MaxEpoch /\ folder.epoch <= folder'.epoch
    <3>1. folder.epoch \in 1 .. MaxEpoch /\ MaxEpoch \in Nat
          /\ folder \in [epoch : Nat, uids : SUBSET Nat, next : Nat]
      BY <1>1, SyncConstants DEF EpochInv, TInv, SyncTypes
    <3>2. CASE Renumber
      BY <3>1, <3>2 DEF Renumber
    <3>3. CASE ~Renumber
      <4>1. folder'.epoch = folder.epoch
        <5>1. CASE Deliver
          BY <3>1, <5>1 DEF Deliver
        <5>2. CASE \E u \in folder.uids : Expunge(u)
          BY <3>1, <5>2 DEF Expunge
        <5> QED BY <1>2, <3>3, <5>1, <5>2 DEF Upstream
      <4> QED BY <3>1, <4>1
    <3> QED BY <3>2, <3>3
  <2>3. \A n : n \in 1 .. folder.epoch => n \in 1 .. folder'.epoch
    BY <2>2, SyncConstants DEF EpochInv
  <2> QED BY <1>1, <2>1, <2>2, <2>3 DEF EpochInv, Stamped, Known
<1>3. ASSUME NEW r \in Run, LoadState(r) PROVE EpochInv'
  BY <1>1, <1>3, LoadEpoch
<1>4. ASSUME NEW r \in Run, Step(r) PROVE EpochInv'
  <2>1. sync[r] \in Session /\ sync[r].row \in StateRow /\ Stamped(sync[r])
    BY <1>1, SessionFacts DEF Session, EpochInv
  <2>2. CASE AbortSync(r)
    <3> DEFINE row == [sync[r].row EXCEPT !.status = "error"]
    <3>1. /\ row \in StateRow /\ row.validity = sync[r].row.validity
          /\ row.validity = 0 => row.seen = 0
      BY <2>1 DEF StateRow, SyncStatus, Stamped
    <3>2. Commit(Assign(sync[r], row)) /\ End(r) /\ folder' = folder
      BY <2>2 DEF AbortSync
    <3> HIDE DEF row
    <3> QED BY <1>1, <3>1, <3>2, EpochCommit
  <2>3. CASE Finish(r)
    <3> DEFINE seen == IF sync[r].high > sync[r].last THEN sync[r].high
                       ELSE sync[r].row.seen
               out == Outcome(sync[r])
               row == [sync[r].row EXCEPT !.seen = seen, !.status = out]
    <3>1. Commit(Assign(sync[r], row)) /\ End(r) /\ folder' = folder
      BY <2>3 DEF Finish
    <3>2. seen \in Nat /\ out \in SyncStatus /\ sync[r].row.validity # 0
      BY <1>1, <2>1, <2>3, OutcomeType DEF Session, StateRow, Finish, EpochInv, Working
    <3> HIDE DEF seen, out
    <3>3. row \in StateRow /\ row.validity = sync[r].row.validity
      BY <2>1, <3>2 DEF StateRow
    <3> HIDE DEF row
    <3> QED BY <1>1, <3>1, <3>2, <3>3, EpochCommit
  <2>4. CASE DatabaseError(r)
    <3>1. UNCHANGED <<folder, state, items>> /\ End(r)
      BY <2>4 DEF DatabaseError
    <3> QED BY <1>1, <3>1, EpochEnd DEF EpochInv
  <2> QED BY <1>1, <1>4, <2>2, <2>3, <2>4, MarkEpoch, SelectEpoch, IngestEpoch,
             MessageEpoch, TakeUpEpoch DEF Step
<1>5. ASSUME NEW r \in Run, Crash(r) PROVE EpochInv'
  <2>1. UNCHANGED <<folder, state, items>> /\ End(r)
    BY <1>5 DEF Crash
  <2> QED BY <1>1, <2>1, EpochEnd DEF EpochInv
<1>6. CASE UNCHANGED vars
  BY <1>1, <1>6 DEF vars, EpochInv, Stamped, Known, AtMessage
<1>7. CASE Administer
  <2>1. UNCHANGED <<folder, state, items, sync>>
    BY <1>7 DEF Administer, Reanalyse, Release, syncVars
  <2> QED BY <1>1, <2>1 DEF EpochInv, Stamped, Known, AtMessage
<1> QED BY <1>2, <1>3, <1>4, <1>5, <1>6, <1>7, NextCases

(***************************************************************************)
(* A checkpoint is stored with a UIDVALIDITY the folder has had, whatever  *)
(* syncs write the two columns from their own copies: the comparison at    *)
(* the start of the next sync is never skipped for want of a UIDVALIDITY   *)
(* (sync_state.uid_validity is not None).                                  *)
(***************************************************************************)
CheckpointIsStamped == state.seen # 0 => Known(state.validity)

THEOREM CheckpointHasValidity == Spec => []CheckpointIsStamped
<1>1. EpochInv => CheckpointIsStamped
  BY DEF EpochInv, CheckpointIsStamped
<1> QED BY <1>1, SyncConstants, InitEpoch, NextEpoch, PTL DEF Spec

-------------------------------------------------------------------------------
(* What the checkpoint passes over *)

\* Where a session s reads above a checkpoint, each UID of the folder up to
\* those it lists and up to how far it came is listed, has an item in S, or
\* stands among as many first ones of the folder as the checkpoint says.
Listed(s, S) ==
  /\ s.pc \in Working /\ s.last # 0 =>
       \A h \in s.todo \cup {s.high} : s.last < h =>
         /\ h < folder.next
         /\ \A u \in folder.uids :
              s.last < u /\ u <= h =>
                u \in s.todo \/ (\E i \in S : i.uid = u) \/ SequenceNumber(u) <= s.last
  /\ s.pc \in Working \ {"scan"} => s.item.uid \in s.todo

\* New messages come above the others, and a session that runs alone under
\* the UIDVALIDITY the folder has lists them without a gap.
PassInv ==
  /\ CopyInv /\ EpochInv
  /\ \A u \in folder.uids : u < folder.next
  /\ \A r \in Run \ raced :
       sync[r].pc # "idle" /\ sync[r].row.validity = folder.epoch =>
         Listed(sync[r], Sees(r))

LEMMA InitPasses == SyncConstants /\ Init => PassInv
<1> SUFFICES ASSUME SyncConstants, Init PROVE PassInv
  OBVIOUS
<1>1. CopyInv /\ EpochInv
  BY InitCopies, InitEpoch
<1> QED BY <1>1 DEF Init, PassInv, Idle

\* The batch a session takes is a prefix of the UIDs it may take.
LEMMA OldestIsPrefix ==
  ASSUME SyncConstants, NEW S \in SUBSET Nat, IsFiniteSet(S),
         NEW v \in Oldest(S), NEW u \in S, u < v
  PROVE  u \in Oldest(S)
<1> DEFINE below(w) == {x \in S : x < w}
<1>1. v \in S /\ Cardinality(below(v)) < BatchSize
  BY DEF Oldest
<1>2. below(u) \subseteq below(v) /\ below(v) \subseteq S
  <2>1. \A x \in S : x < u => x < v
    <3>1. u \in Nat /\ v \in Nat /\ \A x \in S : x \in Nat
      BY <1>1
    <3> QED BY <3>1
  <2> QED BY <2>1
<1>3. IsFiniteSet(below(v))
  BY <1>2, FS_Subset
<1>4. /\ Cardinality(below(u)) <= Cardinality(below(v))
      /\ Cardinality(below(u)) \in Nat /\ Cardinality(below(v)) \in Nat
  BY <1>2, <1>3, FS_Subset, FS_CardinalityType
<1>5. Cardinality(below(u)) < BatchSize
  BY <1>1, <1>4 DEF SyncConstants
<1> QED BY <1>5 DEF Oldest

LEMMA SequenceNumbers ==
  ASSUME IsFiniteSet(folder.uids), NEW u
  PROVE  SequenceNumber(u) \in Nat
<1>1. IsFiniteSet({v \in folder.uids : v <= u})
  BY FS_Subset
<1> QED BY <1>1, FS_CardinalityType DEF SequenceNumber

\* The search misses only what stands among the first n of the folder.
LEMMA SearchMisses ==
  ASSUME TInv, NEW n \in Nat, NEW u \in folder.uids, u \notin SearchFrom(n + 1)
  PROVE  SequenceNumber(u) <= n
<1>1. IsFiniteSet(folder.uids)
  BY DEF TInv
<1>2. SequenceNumber(u) \in Nat /\ Cardinality(folder.uids) \in Nat
  BY <1>1, SequenceNumbers, FS_CardinalityType
<1>3. ~(SequenceNumber(u) >= Min({n + 1, Cardinality(folder.uids)}))
  BY DEF SearchFrom
<1>4. /\ Min({n + 1, Cardinality(folder.uids)}) <= n + 1
      /\ Min({n + 1, Cardinality(folder.uids)}) \in Int
  BY <1>2, MinOfTwo
<1> QED BY <1>2, <1>3, <1>4

\* A message that arrives has no smaller one behind it, and one that is
\* deleted only makes the sequence numbers smaller.
LEMMA SequenceNumbersFall ==
  ASSUME TInv, TInv', \A x \in folder.uids : x < folder.next,
         Deliver \/ \E x \in folder.uids : Expunge(x),
         NEW u \in folder.uids
  PROVE  SequenceNumber(u)' <= SequenceNumber(u)
<1>1. folder \in [epoch : Nat, uids : SUBSET Nat, next : Nat]
  BY DEF TInv, SyncTypes
<1> DEFINE below == {v \in folder.uids : v <= u}
           after == {v \in folder'.uids : v <= u}
<1>2. after \subseteq below
  <2>1. CASE Deliver
    <3>1. folder'.uids = folder.uids \cup {folder.next}
      BY <1>1, <2>1 DEF Deliver
    <3>2. u \in Nat /\ folder.next \in Nat /\ u < folder.next
      BY <1>1
    <3> QED BY <3>1, <3>2
  <2>2. CASE \E x \in folder.uids : Expunge(x)
    <3>1. folder'.uids \subseteq folder.uids
      BY <1>1, <2>2 DEF Expunge
    <3> QED BY <3>1
  <2> QED BY <2>1, <2>2
<1>3. IsFiniteSet(below)
  <2>1. IsFiniteSet(folder.uids) /\ below \subseteq folder.uids
    BY DEF TInv
  <2> QED BY <2>1, FS_Subset
<1>4. Cardinality(after) <= Cardinality(below)
  <2> HIDE DEF below, after
  <2> QED BY <1>2, <1>3, FS_Subset
<1> QED BY <1>4 DEF SequenceNumber

LEMMA PassUpstream ==
  ASSUME PassInv, CopyInv', EpochInv', Recall, Upstream
  PROVE  PassInv'
<1>1. UNCHANGED <<state, items, sync>>
  BY DEF Upstream, Deliver, Expunge, Renumber, Unchanged
<1>2. TInv /\ TInv' /\ folder \in [epoch : Nat, uids : SUBSET Nat, next : Nat]
  BY DEF PassInv, EpochInv, TInv, SyncTypes
<1>3. \A r \in Run : sync'[r].pc # "idle" /\ r \in raced => r \in raced'
  BY HistoryStays
<1>4. CASE Deliver \/ \E x \in folder.uids : Expunge(x)
  <2>1. /\ folder'.epoch = folder.epoch
        /\ \/ folder'.uids = folder.uids \cup {folder.next} /\ folder'.next = folder.next + 1
           \/ folder'.uids \subseteq folder.uids /\ folder'.next = folder.next
    BY <1>2, <1>4 DEF Deliver, Expunge
  <2>2. \A u \in folder'.uids : u < folder'.next
    BY <1>2, <2>1 DEF PassInv
  <2>3. \A u \in folder.uids : /\ SequenceNumber(u)' <= SequenceNumber(u)
                               /\ SequenceNumber(u)' \in Nat /\ SequenceNumber(u) \in Nat
    <3>1. \A u \in folder.uids : SequenceNumber(u)' <= SequenceNumber(u)
      BY <1>2, <1>4, SequenceNumbersFall DEF PassInv
    <3>2. \A u \in folder.uids : SequenceNumber(u) \in Nat
      BY <1>2, SequenceNumbers DEF TInv
    <3>3. \A u \in folder.uids : SequenceNumber(u)' \in Nat
      <4> TAKE u \in folder.uids
      <4>1. IsFiniteSet(folder'.uids)
        BY <1>2 DEF TInv
      <4>2. IsFiniteSet({v \in folder'.uids : v <= u})
        BY <4>1, FS_Subset
      <4> QED BY <4>2, FS_CardinalityType DEF SequenceNumber
    <3> QED BY <3>1, <3>2, <3>3
  <2>4. ASSUME NEW r \in Run, Listed(sync[r], Sees(r))
        PROVE  Listed(sync[r], Sees(r))'
    <3> DEFINE s == sync[r]
    <3>1. s \in Session /\ sync'[r] = s /\ Sees(r)' = Sees(r)
      BY <1>1, <1>2, SessionFacts DEF Sees
    <3>2. ASSUME s.pc \in Working, s.last # 0, NEW h \in s.todo \cup {s.high}, s.last < h
          PROVE  /\ h < folder'.next
                 /\ \A u \in folder'.uids :
                      s.last < u /\ u <= h =>
                        u \in s.todo \/ (\E i \in Sees(r) : i.uid = u)
                        \/ SequenceNumber(u)' <= s.last
      <4>1. /\ h < folder.next
            /\ \A u \in folder.uids :
                 s.last < u /\ u <= h =>
                   u \in s.todo \/ (\E i \in Sees(r) : i.uid = u)
                   \/ SequenceNumber(u) <= s.last
        BY <2>4, <3>2 DEF Listed
      <4>2. h \in Nat /\ s.last \in Nat /\ folder.next \in Nat
        BY <1>2, <3>1 DEF Session
      <4>3. h < folder'.next
        BY <2>1, <4>1, <4>2
      <4>4. \A u \in folder'.uids : u <= h => u \in folder.uids
        BY <2>1, <4>1, <4>2
      <4> HIDE DEF s
      <4> QED BY <2>3, <4>1, <4>2, <4>3, <4>4
    <3>3. s.pc \in Working \ {"scan"} => s.item.uid \in s.todo
      BY <2>4 DEF Listed
    <3> QED BY <3>1, <3>2, <3>3 DEF Listed
  <2> QED BY <1>1, <1>3, <2>1, <2>2, <2>4 DEF PassInv
<1>5. CASE Renumber
  <2>1. Cardinality(folder.uids) \in Nat
    BY <1>2, FS_CardinalityType DEF TInv
  <2>2. /\ folder'.epoch = folder.epoch + 1
        /\ folder'.uids = 1 .. Cardinality(folder.uids)
        /\ folder'.next = Cardinality(folder.uids) + 1
    BY <1>5 DEF Renumber
  <2>3. \A u \in folder'.uids : u < folder'.next
    BY <2>1, <2>2
  <2>4. \A r \in Run : sync[r].row.validity # folder'.epoch
    <3>1. \A r \in Run : sync[r].row.validity # 0 => sync[r].row.validity \in 1 .. folder.epoch
      BY DEF PassInv, EpochInv, Stamped, Known
    <3> QED BY <1>2, <2>2, <3>1
  <2> QED BY <1>1, <2>3, <2>4 DEF PassInv
<1> QED BY <1>4, <1>5 DEF Upstream

\* A session moves; what is needed is its own list, if it is still alone.
LEMMA PassStep ==
  ASSUME PassInv, CopyInv', EpochInv', Recall, NEW r \in Run, Moves(r),
         folder' = folder,
         r \notin raced /\ sync'[r].pc # "idle"
           /\ sync'[r].row.validity = folder.epoch => Listed(sync[r], Sees(r))'
  PROVE  PassInv'
<1>1. \A q \in Run \ {r} : sync'[q].pc # "idle" => q \in raced'
  BY OthersRaced DEF PassInv, CopyInv
<1>2. r \in raced /\ sync'[r].pc # "idle" => r \in raced'
  BY HistoryStays
<1> QED BY <1>1, <1>2 DEF PassInv

\* A session that goes on under its UIDVALIDITY.
LEMMA PassOn ==
  ASSUME PassInv, CopyInv', EpochInv', Recall, NEW r \in Run, Moves(r),
         folder' = folder, sync[r].pc # "idle",
         sync'[r].row.validity = sync[r].row.validity,
         Listed(sync[r], Sees(r)) => Listed(sync[r], Sees(r))'
  PROVE  PassInv'
BY PassStep DEF PassInv

\* A session that has not listed anything, or has ended.
LEMMA PassFree ==
  ASSUME PassInv, CopyInv', EpochInv', Recall, NEW r \in Run, Moves(r),
         folder' = folder, sync'[r].pc \in {"idle", "load", "select"}
  PROVE  PassInv'
<1>1. Listed(sync[r], Sees(r))'
  BY DEF Listed, Working
<1> QED BY <1>1, PassStep

\* The list of a folder that is read from a checkpoint has only the gaps
\* the search leaves.
LEMMA PassSelect ==
  ASSUME SyncConstants, PassInv, CopyInv', EpochInv', Recall, NEW r \in Run, Moves(r),
         SelectFolder(r)
  PROVE  PassInv'
<1> DEFINE reset == sync[r].row.validity \notin {0, folder.epoch}
           last == IF reset THEN 0 ELSE sync[r].row.seen
           row == [sync[r].row EXCEPT !.seen = last, !.validity = folder.epoch]
           s == Assign(sync[r], row)
           above == {u \in SearchFrom(last + 1) : u > last}
           listed == IF last = 0 THEN Newest(folder.uids) ELSE Oldest(above)
<1>1. TInv /\ sync[r] \in Session /\ folder.epoch \in Nat /\ folder.next \in Nat
  BY SessionFacts DEF PassInv, EpochInv, TInv, SyncTypes
<1>2. PICK uids \in {listed, {}} :
        Continue(r, [s EXCEPT !.pc = "scan", !.todo = uids,
                              !.last = last, !.high = last])
  BY DEF SelectFolder
<1> DEFINE t == [s EXCEPT !.pc = "scan", !.todo = uids,
                          !.last = last, !.high = last]
<1>3. sync'[r] = t /\ UNCHANGED <<state, folder>>
  BY <1>1, <1>2, ContinueFacts DEF SelectFolder
<1>5. last \in Nat
  BY <1>1 DEF Session, StateRow
<1>6. uids = {} \/ (last # 0 => uids = Oldest(above))
  BY <1>2
<1> HIDE DEF last, listed
<1> HIDE DEF row
<1>8. /\ t.pc = "scan" /\ t.row = row /\ t.todo = uids
      /\ t.last = last /\ t.high = last
  BY <1>1 DEF Session, Assign
<1> HIDE DEF s, t
<1>9. /\ above \subseteq folder.uids /\ \A u \in above : u > last
      /\ \A u \in folder.uids : u > last => u \in above \/ SequenceNumber(u) <= last
  BY <1>1, <1>5, SearchMisses DEF SearchFrom
<1> HIDE DEF above
<1>10. above \in SUBSET Nat /\ IsFiniteSet(above) /\ folder.uids \subseteq Nat
  BY <1>1, <1>9, FS_Subset DEF TInv, SyncTypes
<1>11. ASSUME last # 0, NEW h \in uids \cup {last}, last < h
       PROVE  /\ h < folder.next
              /\ \A u \in folder.uids :
                   last < u /\ u <= h => u \in uids \/ SequenceNumber(u) <= last
  <2>1. h \in uids /\ uids = Oldest(above)
    BY <1>5, <1>6, <1>11
  <2>2. h \in above
    BY <2>1 DEF Oldest
  <2>3. ASSUME NEW u \in above, last < u, u <= h PROVE u \in uids
    <3>1. u \in Nat /\ h \in Nat
      BY <1>10, <2>2
    <3>2. CASE u = h
      BY <2>1, <3>2
    <3>3. CASE u < h
      BY <1>10, <2>1, <3>1, <3>3, OldestIsPrefix
    <3> QED BY <2>3, <3>1, <3>2, <3>3
  <2>4. h < folder.next
    BY <1>9, <2>2 DEF PassInv
  <2>5. \A u \in folder.uids : last < u => u > last
    BY <1>5, <1>10
  <2> QED BY <1>9, <2>3, <2>4, <2>5
<1>12. Listed(sync[r], Sees(r))'
  <2>1. \A u : SequenceNumber(u)' = SequenceNumber(u)
    BY <1>3 DEF SequenceNumber
  <2> QED BY <1>3, <1>8, <1>11, <2>1 DEF Listed
<1> QED BY <1>3, <1>12, PassStep

\* A UID leaves the list with an item.
LEMMA ListedShrinks ==
  ASSUME NEW r \in Run, folder' = folder,
         Listed(sync[r], Sees(r)), sync[r].pc \in Working, sync'[r].pc = "scan",
         NEW uid \in sync[r].todo, sync'[r].todo = sync[r].todo \ {uid},
         sync'[r].high \in {sync[r].high, uid}, sync'[r].last = sync[r].last,
         Sees(r) \subseteq Sees(r)', \E i \in Sees(r)' : i.uid = uid
  PROVE  Listed(sync[r], Sees(r))'
<1>1. \A u : SequenceNumber(u)' = SequenceNumber(u)
  BY DEF SequenceNumber
<1> QED BY <1>1 DEF Listed

\* What the steps on one message leave alone.
LEMMA MessageStepsTodo ==
  ASSUME TInv, NEW r \in Run,
         \/ StartMessage(r) \/ MessageFails(r) \/ AnalysisFails(r)
         \/ (\E v \in AnalysisVerdict : Analyse(r, v))
         \/ Quarantine(r) \/ AllocateUid(r)
  PROVE  /\ sync'[r].todo = sync[r].todo /\ sync'[r].high = sync[r].high
         /\ sync'[r].added = sync[r].added
         /\ sync'[r].item.uid \in {sync[r].item.uid, Min(sync[r].todo)}
         /\ sync'[r].item.uid # sync[r].item.uid => sync[r].pc = "scan"
         /\ sync[r].pc = "scan" => sync'[r].item.uid \in sync[r].todo
<1>1. sync[r] \in Session /\ sync[r].item \in Item
  BY SessionFacts DEF Session
<1>2. CASE StartMessage(r)
  <2> DEFINE uid == Min(sync[r].todo)
             new == [NoItem EXCEPT !.uid = uid, !.epoch = sync[r].row.validity]
  <2>1. sync'[r].item = new /\ sync'[r].todo = sync[r].todo
        /\ sync'[r].high = sync[r].high /\ sync'[r].added = sync[r].added
    <3>1. Continue(r, [sync[r] EXCEPT !.pc = "fetch", !.item = new])
      BY <1>2 DEF StartMessage
    <3> HIDE DEF new
    <3>2. sync'[r] = [sync[r] EXCEPT !.pc = "fetch", !.item = new]
      BY <3>1, ContinueFacts
    <3> QED BY <1>1, <3>2 DEF Session
  <2>2. new.uid = uid
    BY DEF NoItem
  <2>3. uid \in sync[r].todo
    BY <1>1, <1>2, MinFacts DEF StartMessage, Session
  <2> QED BY <1>2, <2>1, <2>2, <2>3 DEF StartMessage
<1>3. CASE MessageFails(r) \/ Quarantine(r)
  <2>1. sync'[r] = [sync[r] EXCEPT !.pc = "allocate"]
    BY <1>3, ContinueFacts DEF MessageFails, Quarantine
  <2>2. /\ sync'[r].item = sync[r].item /\ sync'[r].todo = sync[r].todo
        /\ sync'[r].high = sync[r].high /\ sync'[r].added = sync[r].added
    BY <1>1, <2>1 DEF Session
  <2> QED BY <1>3, <2>2 DEF MessageFails, Quarantine
<1>4. ASSUME NEW vis, NEW pc, sync[r].pc = "analyse",
             Continue(r, [sync[r] EXCEPT !.pc = pc, !.item.vis = vis])
      PROVE  /\ sync'[r].todo = sync[r].todo /\ sync'[r].high = sync[r].high
             /\ sync'[r].added = sync[r].added
             /\ sync'[r].item.uid = sync[r].item.uid
  <2> DEFINE new == [sync[r].item EXCEPT !.vis = vis]
  <2>1. sync'[r].item = new /\ sync'[r].todo = sync[r].todo
        /\ sync'[r].high = sync[r].high /\ sync'[r].added = sync[r].added
    <3>1. Continue(r, [sync[r] EXCEPT !.pc = pc, !.item = new])
      BY <1>4
    <3> HIDE DEF new
    <3>2. sync'[r] = [sync[r] EXCEPT !.pc = pc, !.item = new]
      BY <3>1, ContinueFacts
    <3> QED BY <1>1, <3>2 DEF Session
  <2>2. new.uid = sync[r].item.uid
    BY <1>1 DEF Item
  <2> QED BY <2>1, <2>2
<1>5. CASE AnalysisFails(r)
  BY <1>4, <1>5 DEF AnalysisFails
<1>6. CASE \E v \in AnalysisVerdict : Analyse(r, v)
  BY <1>4, <1>6 DEF Analyse
<1>7. CASE AllocateUid(r)
  <2> DEFINE highest == Max({0} \cup {i.mwuid : i \in Sees(r)})
             new == [sync[r].item EXCEPT !.mwuid = highest + 1]
  <2>1. sync'[r].item = new /\ sync'[r].todo = sync[r].todo
        /\ sync'[r].high = sync[r].high /\ sync'[r].added = sync[r].added
    <3>1. Continue(r, [sync[r] EXCEPT !.pc = "store", !.item = new])
      BY <1>7 DEF AllocateUid
    <3> HIDE DEF new
    <3>2. sync'[r] = [sync[r] EXCEPT !.pc = "store", !.item = new]
      BY <3>1, ContinueFacts
    <3> QED BY <1>1, <3>2 DEF Session
  <2> HIDE DEF highest
  <2>2. new.uid = sync[r].item.uid
    BY <1>1 DEF Item
  <2> QED BY <1>7, <2>1, <2>2 DEF AllocateUid
<1> QED BY <1>2, <1>3, <1>5, <1>6, <1>7 DEF AnalysisFails, Analyse

LEMMA PassMessage ==
  ASSUME PassInv, CopyInv', EpochInv', Recall, NEW r \in Run, Moves(r),
         \/ StartMessage(r) \/ MessageFails(r) \/ AnalysisFails(r)
         \/ (\E v \in AnalysisVerdict : Analyse(r, v))
         \/ Quarantine(r) \/ AllocateUid(r)
  PROVE  PassInv'
<1>1. TInv
  BY DEF PassInv, EpochInv
<1>2. /\ UNCHANGED <<state, items>>
      /\ sync[r].pc \in Working /\ sync'[r].pc \in Working
      /\ sync'[r].row = sync[r].row /\ sync'[r].last = sync[r].last
  BY <1>1, ItemStepsWork
<1>3. folder' = folder /\ sync[r].pc # "idle"
  BY DEF StartMessage, MessageFails, AnalysisFails, Analyse, Quarantine, AllocateUid
<1>4. /\ sync'[r].todo = sync[r].todo /\ sync'[r].high = sync[r].high
      /\ sync'[r].added = sync[r].added
      /\ sync'[r].item.uid # sync[r].item.uid => sync[r].pc = "scan"
      /\ sync[r].pc = "scan" => sync'[r].item.uid \in sync[r].todo
  BY <1>1, MessageStepsTodo
<1>5. Listed(sync[r], Sees(r)) => Listed(sync[r], Sees(r))'
  <2>1. \A u : SequenceNumber(u)' = SequenceNumber(u)
    BY <1>3 DEF SequenceNumber
  <2> QED BY <1>2, <1>3, <1>4, <2>1 DEF Listed, Sees
<1> QED BY <1>2, <1>3, <1>5, PassOn

LEMMA PassSkip ==
  ASSUME PassInv, CopyInv', EpochInv', Recall, NEW r \in Run, Moves(r), SkipMapped(r)
  PROVE  PassInv'
<1>1. TInv
  BY DEF PassInv, EpochInv
<1>2. /\ UNCHANGED <<state, items, folder>>
      /\ sync[r].pc = "scan" /\ sync'[r].pc = "scan"
      /\ sync'[r].row = sync[r].row /\ sync'[r].last = sync[r].last
      /\ sync'[r].added = sync[r].added
  BY <1>1, SkipMappedNumbers DEF SkipMapped
<1> DEFINE uid == Min(sync[r].todo)
           todo == sync[r].todo \ {uid}
           high == Max({sync[r].high, uid})
           t == [sync[r] EXCEPT !.todo = todo, !.high = high]
<1>3. sync[r] \in Session /\ uid \in sync[r].todo /\ uid \in Nat
  BY <1>1, SessionFacts, MinFacts DEF SkipMapped, Session
<1>4. \E i \in Sees(r) : i.uid = uid
  BY DEF SkipMapped, Mapped
<1>5. sync'[r] = t
  <2>1. Continue(r, t)
    BY DEF SkipMapped
  <2> QED BY <1>1, <2>1, ContinueFacts
<1> HIDE DEF uid
<1>6. high \in {sync[r].high, uid}
  BY <1>3, MaxOfTwo DEF Session
<1> HIDE DEF todo, high
<1>7. t.todo = todo /\ t.high = high
  BY <1>3 DEF Session
<1> HIDE DEF t
<1>8. Sees(r)' = Sees(r)
  BY <1>2 DEF Sees
<1>9. Listed(sync[r], Sees(r)) => Listed(sync[r], Sees(r))'
  <2>1. sync'[r].todo = sync[r].todo \ {uid} /\ sync'[r].high \in {sync[r].high, uid}
    BY <1>5, <1>6, <1>7 DEF todo
  <2> QED BY <1>2, <1>3, <1>4, <1>8, <2>1, ListedShrinks DEF Working
<1> QED BY <1>2, <1>9, PassOn

LEMMA PassStore ==
  ASSUME PassInv, CopyInv', EpochInv', Recall, NEW r \in Run, Moves(r), StoreItem(r)
  PROVE  PassInv'
<1>1. TInv
  BY DEF PassInv, EpochInv
<1> DEFINE s == sync[r]
           uid == s.item.uid
           ingested == s.item.msg # 0
           todo == s.todo \ {uid}
           added == s.added \cup {s.item}
           stored == s.stored \/ ingested
           failed == s.failed \/ ~ingested
           high == IF ingested THEN Max({s.high, uid}) ELSE s.high
           t == [s EXCEPT !.pc = "scan", !.todo = todo, !.added = added,
                          !.stored = stored, !.failed = failed, !.high = high]
<1>2. /\ UNCHANGED <<state, items, folder>>
      /\ s.pc = "store" /\ sync'[r].pc = "scan"
      /\ sync'[r].row = s.row /\ sync'[r].last = s.last
      /\ sync'[r].added = s.added \cup {s.item}
      /\ sync'[r].high \in {s.high, s.item.uid}
  BY <1>1, StoreItemNumbers DEF StoreItem
<1>3. sync'[r] = t
  <2>1. Continue(r, t)
    BY DEF StoreItem
  <2> QED BY <1>1, <2>1, ContinueFacts
<1>4. s \in Session
  BY <1>1, SessionFacts
<1> HIDE DEF todo, added, stored, failed, high
<1>5. t.todo = todo
  BY <1>4 DEF Session
<1> HIDE DEF t
<1>6. sync'[r].todo = s.todo \ {uid}
  BY <1>3, <1>5 DEF todo
<1>7. Sees(r)' = Sees(r) \cup {s.item}
  BY <1>2 DEF Sees
<1>8. Listed(sync[r], Sees(r)) => Listed(sync[r], Sees(r))'
  <2> SUFFICES ASSUME Listed(sync[r], Sees(r)) PROVE Listed(sync[r], Sees(r))'
    OBVIOUS
  <2>1. uid \in s.todo
    BY <1>2 DEF Listed, Working
  <2> QED BY <1>2, <1>6, <1>7, <2>1, ListedShrinks DEF Working
<1> QED BY <1>2, <1>8, PassOn

\* The commit of a message leaves the session what it sees.
LEMMA PassIngest ==
  ASSUME PassInv, CopyInv', EpochInv', Recall, NEW r \in Run, Moves(r), Ingest(r)
  PROVE  PassInv'
<1>1. TInv /\ sync[r].pc = "fetch" /\ folder' = folder
  BY DEF PassInv, EpochInv, Ingest
<1>2. sync'[r].row = sync[r].row /\ sync'[r].last = sync[r].last
  BY <1>1, IngestNumbers
<1>3. /\ sync'[r].pc = "analyse" /\ sync'[r].high = sync[r].high
      /\ sync'[r].added = {} /\ items' = items \cup sync[r].added
  BY <1>1, IngestNumbers
<1> DEFINE new == [sync[r].item EXCEPT !.msg = Len(messages) + 1]
           t == [Committed(sync[r]) EXCEPT !.pc = "analyse", !.item = new]
<1>4. sync'[r] = t
  <2>1. Continue(r, t)
    BY DEF Ingest, Committed
  <2> QED BY <1>1, <2>1, ContinueFacts
<1>5. new.uid = sync[r].item.uid
  BY <1>1, SessionFacts DEF Session, Item
<1> HIDE DEF new
<1>6. t.todo = sync[r].todo /\ t.item = new
  BY <1>1, SessionFacts DEF Session, Committed
<1> HIDE DEF t
<1>7. Sees(r)' = Sees(r)
  BY <1>3 DEF Sees
<1>8. Listed(sync[r], Sees(r)) => Listed(sync[r], Sees(r))'
  <2>1. \A u : SequenceNumber(u)' = SequenceNumber(u)
    BY <1>1 DEF SequenceNumber
  <2> QED BY <1>1, <1>2, <1>3, <1>4, <1>5, <1>6, <1>7, <2>1 DEF Listed, Working
<1> QED BY <1>1, <1>2, <1>8, PassOn

\* The last commit of a session that runs alone says where the checkpoint
\* gets to.
LEMMA PassFinish ==
  ASSUME PassInv, NEW r \in Run \ raced, Finish(r)
  PROVE  /\ state'.validity = sync[r].row.validity
         /\ \/ state'.seen = state.seen
            \/ state'.seen = sync[r].row.seen
            \/ sync[r].last < sync[r].high /\ state'.seen = sync[r].high
         /\ items' = items \cup sync[r].added
<1>1. TInv /\ sync[r] \in Session /\ CopyOf(sync[r], state)
  BY SessionFacts DEF PassInv, CopyInv, EpochInv, Finish
<1> DEFINE seen == IF sync[r].high > sync[r].last THEN sync[r].high
                   ELSE sync[r].row.seen
           out == Outcome(sync[r])
           row == [sync[r].row EXCEPT !.seen = seen, !.status = out]
<1>2. Commit(Assign(sync[r], row))
  BY DEF Finish
<1>3. seen \in Nat /\ out \in SyncStatus
  BY <1>1, OutcomeType DEF Session, StateRow
<1>4. \/ seen = sync[r].row.seen
      \/ sync[r].last < sync[r].high /\ seen = sync[r].high
  BY <1>1 DEF Session
<1> HIDE DEF seen, out
<1>5. /\ row \in StateRow /\ row.seen = seen
      /\ row.validity = sync[r].row.validity
  BY <1>1, <1>3 DEF Session, StateRow
<1> HIDE DEF row
<1>6. items' = items \cup sync[r].added
  BY <1>1, <1>2, <1>5, AssignedSeen
<1> QED BY <1>1, <1>2, <1>4, <1>5, <1>6, AssignedWritten

LEMMA PassAbort ==
  ASSUME PassInv, NEW r \in Run \ raced, AbortSync(r)
  PROVE  state'.validity = state.validity /\ state'.seen = state.seen
<1>1. TInv /\ sync[r] \in Session /\ CopyOf(sync[r], state)
  BY SessionFacts DEF PassInv, CopyInv, EpochInv, AbortSync
<1>2. sync[r].row.seen = state.seen /\ sync[r].row.validity = state.validity
  BY <1>1 DEF AbortSync, CopyOf
<1> DEFINE row == [sync[r].row EXCEPT !.status = "error"]
<1>3. /\ row \in StateRow /\ row.seen = sync[r].row.seen
      /\ row.validity = sync[r].row.validity
  BY <1>1 DEF Session, StateRow, SyncStatus
<1>4. Commit(Assign(sync[r], row))
  BY DEF AbortSync
<1> HIDE DEF row
<1> QED BY <1>1, <1>2, <1>3, <1>4, AssignedWritten

LEMMA NextPasses ==
  ASSUME SyncConstants, PassInv, [Next]_vars
  PROVE  PassInv'
<1>1. TInv /\ CopyInv' /\ EpochInv'
  BY NextCopies, NextEpoch DEF PassInv, EpochInv
<1>2. ASSUME Upstream, Recall PROVE PassInv'
  BY <1>1, <1>2, PassUpstream
<1>3. ASSUME NEW r \in Run, LoadState(r) \/ Step(r) \/ Crash(r), Recall PROVE PassInv'
  <2> Moves(r)
    BY <1>1, <1>3, SessionMoves
  <2>1. CASE \/ LoadState(r) \/ MarkSyncing(r) \/ AbortSync(r) \/ Finish(r)
             \/ DatabaseError(r) \/ Crash(r)
    <3>1. folder' = folder
      BY <2>1 DEF LoadState, MarkSyncing, AbortSync, Finish, DatabaseError, Crash
    <3>2. sync'[r].pc \in {"idle", "load", "select"}
      BY <1>1, <2>1, LoadStateNumbers, MarkSyncingNumbers, EndNumbers
         DEF AbortSync, Finish, DatabaseError, Crash
    <3> QED BY <1>1, <1>3, <3>1, <3>2, PassFree
  <2> QED BY <1>1, <1>3, <2>1, PassSelect, PassSkip, PassMessage, PassStore,
             PassIngest DEF Step
<1>4. ASSUME UNCHANGED <<folder, state, items, sync>>, raced \subseteq raced' PROVE PassInv'
  <2>1. ASSUME NEW r \in Run, Listed(sync[r], Sees(r))
        PROVE  Listed(sync[r], Sees(r))'
    <3>1. \A u : SequenceNumber(u)' = SequenceNumber(u)
      BY <1>4 DEF SequenceNumber
    <3> QED BY <1>4, <2>1, <3>1 DEF Listed, Sees
  <2> QED BY <1>1, <1>4, <2>1 DEF PassInv
<1>5. CASE UNCHANGED vars
  BY <1>4, <1>5 DEF vars
<1>6. ASSUME Administer, Recall PROVE PassInv'
  <2>1. UNCHANGED <<folder, state, items, sync>>
    BY <1>6 DEF Administer, Reanalyse, Release, syncVars
  <2>2. raced \subseteq raced'
    BY <1>6, <2>1, HistoryStays DEF PassInv, CopyInv, RacedInv
  <2> QED BY <1>4, <2>1, <2>2
<1> QED BY <1>2, <1>3, <1>5, <1>6 DEF Next, Syncing

\* Where a session that runs alone moves the checkpoint it has items for
\* what is in between and the search does not take for the first ones.
LEMMA StepPasses ==
  ASSUME PassInv, Next, ~OfRacedSync,
         0 < state.seen, state.validity = folder.epoch,
         state'.validity = state.validity,
         NEW u \in folder.uids, state.seen < u, u <= state'.seen
  PROVE  SequenceNumber(u) <= state.seen \/ \E i \in items' : i.uid = u
<1>1. TInv /\ state.seen \in Nat /\ u \in Nat /\ state'.seen \in Nat
  <2>1. TInv /\ TInv'
    BY NextType DEF PassInv, EpochInv
  <2> QED BY <2>1 DEF TInv, SyncTypes, StateRow
<1>2. state'.seen # state.seen
  BY <1>1
<1>3. PICK r \in Run \ raced : AbortSync(r) \/ Ingest(r) \/ Finish(r)
  BY <1>1, <1>2, CheckpointStep
<1>4. CopyOf(sync[r], state)
  BY <1>3 DEF PassInv, CopyInv, AbortSync, Ingest, Finish
<1>5. ~AbortSync(r)
  BY <1>2, PassAbort
<1>6. ~Ingest(r)
  <2> SUFFICES ASSUME Ingest(r) PROVE FALSE
    OBVIOUS
  <2>1. state'.seen = sync[r].row.seen /\ state'.validity = sync[r].row.validity
    BY <1>1, <1>4, IngestedRow
  <2> QED BY <1>2, <1>4, <2>1 DEF CopyOf
<1>7. Finish(r)
  BY <1>3, <1>5, <1>6
<1>8. sync[r].row.validity = folder.epoch /\ sync[r].row.seen = state.seen
  BY <1>4, <1>7, PassFinish DEF CopyOf
<1>9. sync[r].pc = "scan" /\ sync[r].todo = {}
  BY <1>7 DEF Finish
<1>10. sync[r].last = state.seen /\ sync[r].last # 0
  BY <1>1, <1>4, <1>8, <1>9 DEF CopyOf, Working
<1>11. /\ state'.seen = sync[r].high /\ sync[r].last < sync[r].high
       /\ items' = Sees(r)
  BY <1>2, <1>7, <1>8, PassFinish DEF Sees
<1>12. Listed(sync[r], Sees(r))
  BY <1>8, <1>9 DEF PassInv
<1> QED BY <1>9, <1>10, <1>11, <1>12 DEF Listed, Working

(***************************************************************************)
(* The checkpoint passes over a message only where the SEARCH takes its    *)
(* UID for a sequence number, or where syncs overlapped: the batch is a    *)
(* prefix of what the search finds above the checkpoint, and what leaves   *)
(* it has an item, through crashes, failed messages, deletions upstream    *)
(* and changes of UIDVALIDITY (sync_mailbox_folder, fetch_uids_in_range).  *)
(***************************************************************************)
THEOREM OnlyPositionPassesOver == Spec => PassedOverByPosition
<1>1. PassInv /\ [Next]_vars => PassInv'
  BY NextPasses, SyncConstants
<1>2. Init => PassInv
  BY InitPasses, SyncConstants
<1>3. PassInv /\ [Next]_vars =>
        [0 < state.seen /\ state.validity = folder.epoch
           /\ state'.validity = state.validity /\ ~OfRacedSync =>
           \A u \in folder.uids :
             state.seen < u /\ u <= state'.seen =>
               SequenceNumber(u) <= state.seen \/ \E i \in items' : i.uid = u]_vars
  BY StepPasses
<1> QED BY <1>1, <1>2, <1>3, PTL DEF Spec, PassedOverByPosition
================================================================================
