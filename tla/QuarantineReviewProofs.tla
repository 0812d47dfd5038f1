------------------------ MODULE QuarantineReviewProofs ------------------------
(***************************************************************************)
(* Proofs about QuarantineReview, for any set of messages, analysts and    *)
(* workers and any bound: whatever handlers interleave and wherever they   *)
(* die, an item is created once, points to a run that condemned its        *)
(* message, and carries the status of its last recorded decision, and a    *)
(* message that was condemned has its item or is on its way to it.  When   *)
(* the reviews of items do not overlap, the trail is moreover a path, its  *)
(* last decision is the reviewer's, and the quarantine implements          *)
(* ReviewLifecycle; when the analyses of a message do not overlap, an item *)
(* has the verdict of the run it points to.                                *)
(***************************************************************************)
EXTENDS QuarantineReview, SequenceTheorems, TLAPS

\* The inductive invariant.
IInv ==
  /\ TypeOK
  /\ SessionInv
  /\ ItemRunCondemned
  /\ StatusIsLastDecision
  /\ CreatedOnce

\* Appending to a sequence adds one last element and keeps the others.
LEMMA AppendFacts ==
  ASSUME NEW S, NEW q \in Seq(S), NEW e \in S
  PROVE  /\ Append(q, e) \in Seq(S)
         /\ Len(Append(q, e)) = Len(q) + 1
         /\ DOMAIN q = 1 .. Len(q)
         /\ DOMAIN Append(q, e) = 1 .. Len(q) + 1
         /\ \A i \in 1 .. Len(q) : Append(q, e)[i] = q[i]
         /\ Append(q, e)[Len(q) + 1] = e
         /\ Len(q) \in Nat
BY AppendProperties, LenProperties

\* Every action of the table leads to a status, from statuses.
LEMMA TransitionFacts ==
  ASSUME NEW action \in Action
  PROVE  Target(action) \in Status /\ ValidFrom(action) \subseteq Status
BY DEF Target, ValidFrom, Action, Status, Undecided

LEMMA StatusNotNone == "none" \notin Status
BY DEF Status, Undecided

LEMMA IdleJob == Idle \in Job
BY DEF Idle, Job, NoItem, ItemRow

-------------------------------------------------------------------------------
(* Types *)

LEMMA InitInv == Init => IInv
<1> SUFFICES ASSUME Init PROVE IInv
  OBVIOUS
<1>1. TypeOK
  BY IdleJob DEF Init, TypeOK, ItemRow, NoItem
<1>2. SessionInv
  BY DEF Init, SessionInv, Idle
<1>3. ItemRunCondemned /\ StatusIsLastDecision /\ CreatedOnce
  BY DEF Init, ItemRunCondemned, StatusIsLastDecision, CreatedOnce, NoItem
<1> QED BY <1>1, <1>2, <1>3 DEF IInv

\* A session that is dropped, or has returned, keeps the types of the others.
LEMMA DoneType ==
  ASSUME TypeOK, NEW s \in Session, Done(s)
  PROVE  /\ job' \in [Session -> Job]
         /\ job'[s] = Idle
         /\ \A t \in Session \ {s} : job'[t] = job[t]
BY IdleJob DEF TypeOK, Done

LEMMA RecordType ==
  ASSUME TypeOK, NEW m \in Message, NEW e \in Event, Record(m, e)
  PROVE  /\ audit' \in [Message -> Seq(Event)]
         /\ audit'[m] = Append(audit[m], e)
         /\ \A n \in Message \ {m} : audit'[n] = audit[n]
<1>1. Append(audit[m], e) \in Seq(Event)
  BY AppendFacts DEF TypeOK
<1> QED BY <1>1 DEF TypeOK, Record

-------------------------------------------------------------------------------
(* Analysis handlers *)

LEMMA AnalyseInv ==
  ASSUME IInv, NEW w \in Worker, NEW m \in Message, NEW verdict \in Verdict,
         Analyse(w, m, verdict)
  PROVE  IInv'
<1> DEFINE r == [msg |-> m, verdict |-> verdict]
<1>1. /\ runs' \in Seq([msg : Message, verdict : Verdict])
      /\ DOMAIN runs \subseteq DOMAIN runs'
      /\ \A i \in DOMAIN runs : runs'[i] = runs[i]
      /\ Len(runs) + 1 \in DOMAIN runs' /\ runs'[Len(runs) + 1] = r
      /\ Len(runs) \in Nat
  <2>1. r \in [msg : Message, verdict : Verdict]
        /\ runs \in Seq([msg : Message, verdict : Verdict])
    BY DEF IInv, TypeOK
  <2> QED BY <2>1, AppendFacts DEF Analyse
<1>2. /\ w \in Session /\ job[w].pc = "idle"
      /\ job' \in [Session -> Job]
      /\ \A s \in Session \ {w} : job'[s] = job[s]
      /\ \/ job'[w] = job[w]
         \/ /\ ShouldQuarantine(verdict, SoftHold)
            /\ job'[w] = Condemning(m, Len(runs) + 1)
  <2>1. Condemning(m, Len(runs) + 1) \in Job
    BY <1>1 DEF Job, Condemning, NoItem, ItemRow
  <2> QED BY <2>1 DEF Analyse, IInv, TypeOK, Session
<1>3. TypeOK'
  BY <1>1, <1>2 DEF IInv, TypeOK, Analyse
<1>4. SessionInv'
  <2> SUFFICES ASSUME NEW s \in Session, job'[s].pc # "idle"
               PROVE  /\ job'[s].msg \in Message
                      /\ job'[s].pc \in {"select", "upsert"} =>
                           /\ job'[s].run \in DOMAIN runs'
                           /\ runs'[job'[s].run].msg = job'[s].msg
                           /\ ShouldQuarantine(runs'[job'[s].run].verdict, SoftHold)
                      /\ job'[s].pc = "act" =>
                           job'[s].action \in Action /\ job'[s].seen.status # "none"
                      /\ job'[s].seen.status # "none" =>
                           item'[job'[s].msg].status # "none"
    BY DEF SessionInv
  <2>1. CASE job'[s] = job[s]
    BY <2>1, <1>1 DEF IInv, SessionInv, Analyse
  <2>2. CASE s = w /\ ShouldQuarantine(verdict, SoftHold)
             /\ job'[w] = Condemning(m, Len(runs) + 1)
    BY <2>2, <1>1 DEF Condemning, NoItem
  <2> QED BY <1>2, <2>1, <2>2
<1>5. ItemRunCondemned' /\ StatusIsLastDecision' /\ CreatedOnce'
  BY <1>1 DEF Analyse, IInv, ItemRunCondemned, StatusIsLastDecision, CreatedOnce,
              IsLastDecision, DecisionIndex
<1> QED BY <1>3, <1>4, <1>5 DEF IInv

LEMMA SelectItemInv ==
  ASSUME IInv, NEW w \in Worker, SelectItem(w)
  PROVE  IInv'
<1>1. w \in Session /\ job[w].msg \in Message /\ item[job[w].msg] \in ItemRow
  BY DEF IInv, TypeOK, SessionInv, SelectItem, Session
<1>2. /\ job' \in [Session -> Job]
      /\ job'[w] = [job[w] EXCEPT !.pc = "upsert", !.seen = item[job[w].msg]]
      /\ \A s \in Session \ {w} : job'[s] = job[s]
  <2>1. job \in [Session -> Job] /\ job' = [job EXCEPT ![w] =
          [job[w] EXCEPT !.pc = "upsert", !.seen = item[job[w].msg]]]
    BY DEF SelectItem, IInv, TypeOK
  <2>2. [job[w] EXCEPT !.pc = "upsert", !.seen = item[job[w].msg]] \in Job
    BY <1>1, <2>1 DEF Job
  <2> QED BY <1>1, <2>1, <2>2
<1>3. TypeOK'
  BY <1>2 DEF IInv, TypeOK, SelectItem
<1>4. SessionInv'
  BY <1>1, <1>2 DEF IInv, SessionInv, SelectItem, TypeOK, Job
<1>5. ItemRunCondemned' /\ StatusIsLastDecision' /\ CreatedOnce'
  BY DEF SelectItem, IInv, ItemRunCondemned, StatusIsLastDecision, CreatedOnce,
         IsLastDecision, DecisionIndex
<1> QED BY <1>3, <1>4, <1>5 DEF IInv

(***************************************************************************)
(* A handler that only ends, changing no row, preserves the invariant.     *)
(***************************************************************************)
LEMMA EndInv ==
  ASSUME IInv, NEW s \in Session, Done(s), UNCHANGED <<item, runs, audit>>,
         requests' \in Nat, crashes' \in Nat
  PROVE  IInv'
<1>1. /\ job' \in [Session -> Job] /\ job'[s] = Idle
      /\ \A t \in Session \ {s} : job'[t] = job[t]
  BY DoneType DEF IInv
<1>2. TypeOK'
  BY <1>1 DEF IInv, TypeOK
<1>3. SessionInv'
  BY <1>1 DEF IInv, SessionInv, Idle
<1>4. ItemRunCondemned' /\ StatusIsLastDecision' /\ CreatedOnce'
  BY DEF IInv, ItemRunCondemned, StatusIsLastDecision, CreatedOnce,
         IsLastDecision, DecisionIndex
<1> QED BY <1>2, <1>3, <1>4 DEF IInv

(***************************************************************************)
(* A write: the row of m gets the new value row, event e is recorded and   *)
(* the handler ends.  The invariant is kept when the row points to a run   *)
(* that condemned m, the event is a decision to the row's status or leaves *)
(* the status alone, and only the first event is a creation.               *)
(***************************************************************************)
LEMMA WriteInv ==
  ASSUME IInv, NEW s \in Session, NEW m \in Message,
         NEW row \in ItemRow, NEW e \in Event,
         item' = [item EXCEPT ![m] = row], Record(m, e), Done(s),
         UNCHANGED <<runs, requests, crashes>>,
         row.status # "none",
         row.run \in DOMAIN runs, runs[row.run].msg = m,
         ShouldQuarantine(runs[row.run].verdict, SoftHold),
         e.action = "created" <=> item[m].status = "none",
         IF IsDecision(e) THEN row.status = e.to ELSE row.status = item[m].status
  PROVE  IInv'
<1>1. /\ job' \in [Session -> Job] /\ job'[s] = Idle
      /\ \A t \in Session \ {s} : job'[t] = job[t]
  BY DoneType DEF IInv
<1>2. /\ audit' \in [Message -> Seq(Event)]
      /\ audit'[m] = Append(audit[m], e)
      /\ \A n \in Message \ {m} : audit'[n] = audit[n]
  BY RecordType DEF IInv
<1>3. /\ item' \in [Message -> ItemRow] /\ item'[m] = row
      /\ \A n \in Message \ {m} : item'[n] = item[n]
  BY DEF IInv, TypeOK
<1> DEFINE k == Len(audit[m])
<1>4. /\ k \in Nat
      /\ DOMAIN audit[m] = 1 .. k /\ DOMAIN audit'[m] = 1 .. k + 1
      /\ \A i \in 1 .. k : audit'[m][i] = audit[m][i]
      /\ audit'[m][k + 1] = e
  BY <1>2, AppendFacts DEF IInv, TypeOK
<1> HIDE DEF k
<1>5. TypeOK'
  BY <1>1, <1>2, <1>3 DEF IInv, TypeOK
<1>6. SessionInv'
  BY <1>1, <1>3 DEF IInv, SessionInv, Idle
<1>7. ItemRunCondemned'
  BY <1>3 DEF IInv, ItemRunCondemned
<1>8. item[m].status = "none" <=> k = 0
  <2>1. item[m].status = "none" => k = 0
    BY DEF IInv, StatusIsLastDecision, k
  <2>2. item[m].status # "none" => \E i \in DOMAIN audit[m] : TRUE
    BY DEF IInv, StatusIsLastDecision
  <2> QED BY <2>1, <2>2, <1>4
<1>9. CreatedOnce'
  <2> SUFFICES ASSUME NEW n \in Message, NEW i \in DOMAIN audit'[n]
               PROVE  audit'[n][i].action = "created" <=> i = 1
    BY DEF CreatedOnce
  <2>1. CASE n # m
    BY <2>1, <1>2 DEF IInv, CreatedOnce
  <2>2. CASE n = m /\ i \in 1 .. k
    BY <2>2, <1>4 DEF IInv, CreatedOnce
  <2>3. CASE n = m /\ i = k + 1
    BY <2>3, <1>4, <1>8
  <2> QED BY <2>1, <2>2, <2>3, <1>4
<1>10. StatusIsLastDecision'
  <2> SUFFICES ASSUME NEW n \in Message
               PROVE  IF item'[n].status = "none" THEN audit'[n] = <<>>
                      ELSE \E i \in DOMAIN audit'[n] :
                             /\ IsDecision(audit'[n][i])
                             /\ \A j \in DOMAIN audit'[n] :
                                  IsDecision(audit'[n][j]) => j <= i
                             /\ audit'[n][i].to = item'[n].status
    BY DEF StatusIsLastDecision, IsLastDecision, DecisionIndex
  <2>1. CASE n # m
    <3>1. audit'[n] = audit[n] /\ item'[n] = item[n]
      BY <2>1, <1>2, <1>3
    <3>2. IF item[n].status = "none" THEN audit[n] = <<>>
          ELSE \E i \in DOMAIN audit[n] :
                 /\ IsDecision(audit[n][i])
                 /\ \A j \in DOMAIN audit[n] : IsDecision(audit[n][j]) => j <= i
                 /\ audit[n][i].to = item[n].status
      BY DEF IInv, StatusIsLastDecision, IsLastDecision, DecisionIndex
    <3> QED BY <3>1, <3>2
  <2>2. CASE n = m /\ IsDecision(e)
    <3>1. /\ k + 1 \in DOMAIN audit'[m]
          /\ IsDecision(audit'[m][k + 1])
          /\ \A j \in DOMAIN audit'[m] : j <= k + 1
          /\ audit'[m][k + 1].to = item'[m].status
      BY <2>2, <1>3, <1>4
    <3> QED BY <3>1, <2>2, <1>3
  <2>3. CASE n = m /\ ~IsDecision(e)
    <3>1. item[m].status # "none"
      BY <2>3 DEF IsDecision
    <3>2. PICK i \in DOMAIN audit[m] :
            /\ IsDecision(audit[m][i])
            /\ \A j \in DOMAIN audit[m] : IsDecision(audit[m][j]) => j <= i
            /\ audit[m][i].to = item[m].status
      BY <3>1 DEF IInv, StatusIsLastDecision, IsLastDecision, DecisionIndex
    <3>3. /\ i \in DOMAIN audit'[m]
          /\ IsDecision(audit'[m][i])
          /\ \A j \in DOMAIN audit'[m] : IsDecision(audit'[m][j]) => j <= i
          /\ audit'[m][i].to = item'[m].status
      BY <3>2, <2>3, <1>3, <1>4
    <3> QED BY <3>3, <2>3, <1>3
  <2> QED BY <2>1, <2>2, <2>3
<1> QED BY <1>5, <1>6, <1>7, <1>9, <1>10 DEF IInv

LEMMA UpdateItemInv ==
  ASSUME IInv, NEW w \in Worker, UpdateItem(w)
  PROVE  IInv'
<1> DEFINE m == job[w].msg
           seen == job[w].seen
           verdict == runs[job[w].run].verdict
           row == [item[m] EXCEPT
                     !.run = job[w].run,
                     !.trigger = IF seen.trigger # verdict THEN verdict
                                 ELSE item[m].trigger]
           e == [action |-> "updated", actor |-> w,
                 from |-> seen.status, to |-> seen.status]
<1>1. /\ w \in Session /\ m \in Message /\ item[m] \in ItemRow
      /\ job[w] \in Job /\ seen.status \in Status
      /\ job[w].run \in DOMAIN runs /\ runs[job[w].run].msg = m
      /\ ShouldQuarantine(verdict, SoftHold)
      /\ item[m].status # "none"
  BY DEF IInv, TypeOK, SessionInv, UpdateItem, Session, Job, ItemRow
<1>2. verdict \in Verdict
  <2>1. runs[job[w].run] \in [msg : Message, verdict : Verdict]
    BY <1>1, ElementOfSeq, LenProperties DEF IInv, TypeOK
  <2> QED BY <2>1
<1>3. row \in ItemRow /\ row.status = item[m].status /\ row.run = job[w].run
  BY <1>1, <1>2 DEF ItemRow, Job
<1>4. e \in Event /\ e.action # "created" /\ ~IsDecision(e)
  BY <1>1 DEF Event, IsDecision
<1>5. item' = [item EXCEPT ![m] = row]
  BY <1>1 DEF UpdateItem, IInv, TypeOK, ItemRow
<1>6. Record(m, e) /\ Done(w) /\ UNCHANGED <<runs, requests, crashes>>
  BY DEF UpdateItem
<1> HIDE DEF m, seen, verdict, row, e
<1> QED BY <1>1, <1>3, <1>4, <1>5, <1>6, WriteInv DEF verdict

LEMMA InsertItemInv ==
  ASSUME IInv, NEW w \in Worker, InsertItem(w)
  PROVE  IInv'
<1> DEFINE m == job[w].msg
           verdict == runs[job[w].run].verdict
           row == [status |-> "pending_review", run |-> job[w].run,
                   trigger |-> verdict, reviewer |-> NoOne]
           e == [action |-> "created", actor |-> w,
                 from |-> "none", to |-> "pending_review"]
<1>1. /\ w \in Session /\ m \in Message
      /\ job[w] \in Job /\ item[m].status = "none"
      /\ job[w].run \in DOMAIN runs /\ runs[job[w].run].msg = m
      /\ ShouldQuarantine(verdict, SoftHold)
  BY DEF IInv, TypeOK, SessionInv, InsertItem, Session
<1>2. verdict \in Verdict
  <2>1. runs[job[w].run] \in [msg : Message, verdict : Verdict]
    BY <1>1, ElementOfSeq, LenProperties DEF IInv, TypeOK
  <2> QED BY <2>1
<1>3. row \in ItemRow
  BY <1>1, <1>2 DEF ItemRow, Job, Status, Undecided
<1>4. e \in Event /\ IsDecision(e)
  BY <1>1 DEF Event, IsDecision, Status, Undecided
<1>5. /\ item' = [item EXCEPT ![m] = row]
      /\ Record(m, e) /\ Done(w) /\ UNCHANGED <<runs, requests, crashes>>
  BY DEF InsertItem
<1>6. /\ row.status = "pending_review" /\ row.run = job[w].run
      /\ e.action = "created" /\ e.to = "pending_review"
  OBVIOUS
<1> HIDE DEF m, row, e
<1> QED BY <1>1, <1>3, <1>4, <1>5, <1>6, WriteInv

-------------------------------------------------------------------------------
(* Review handlers *)

\* A review handler starts by reading an existing item.
LEMMA ReadInv ==
  ASSUME IInv, NEW a \in Analyst, NEW m \in Message,
         NEW action \in Action,
         item[m].status # "none",
         job' = [job EXCEPT ![a] = Reviewing(m, action)],
         UNCHANGED <<item, runs, audit>>,
         requests' \in Nat, crashes' \in Nat
  PROVE  IInv'
<1> DEFINE j == Reviewing(m, action)
<1>1. /\ j \in Job /\ j.pc = "act" /\ j.msg = m /\ j.seen = item[m]
      /\ j.action = action
  BY DEF Reviewing, Job, IInv, TypeOK
<1> HIDE DEF j
<1>2. /\ job' \in [Session -> Job] /\ job'[a] = j
      /\ \A s \in Session \ {a} : job'[s] = job[s]
  BY <1>1 DEF j, IInv, TypeOK, Session
<1>3. TypeOK'
  BY <1>2 DEF IInv, TypeOK
<1>4. SessionInv'
  BY <1>1, <1>2 DEF IInv, SessionInv
<1>5. ItemRunCondemned' /\ StatusIsLastDecision' /\ CreatedOnce'
  BY DEF IInv, ItemRunCondemned, StatusIsLastDecision, CreatedOnce,
         IsLastDecision, DecisionIndex
<1> QED BY <1>3, <1>4, <1>5 DEF IInv

LEMMA ApplyActionInv ==
  ASSUME IInv, NEW a \in Analyst, ApplyAction(a)
  PROVE  IInv'
<1> DEFINE m == job[a].msg
           seen == job[a].seen
           action == job[a].action
           signs == action # "mark_in_review" \/ seen.reviewer = NoOne
           row == [item[m] EXCEPT
                     !.status = Target(action),
                     !.reviewer = IF signs /\ seen.reviewer # a THEN a
                                  ELSE item[m].reviewer]
           e == [action |-> action, actor |-> a,
                 from |-> seen.status, to |-> Target(action)]
<1>1. /\ a \in Session /\ m \in Message /\ item[m] \in ItemRow
      /\ job[a] \in Job /\ action \in Action
      /\ seen.status \in Status /\ item[m].status # "none"
  BY DEF IInv, TypeOK, SessionInv, ApplyAction, Session, Job, ItemRow
<1>2. Target(action) \in Status
  BY <1>1, TransitionFacts
<1>3. /\ row \in ItemRow /\ row.status = Target(action)
      /\ row.run = item[m].run
  BY <1>1, <1>2 DEF ItemRow
<1>4. e \in Event /\ e.action = action /\ e.to = Target(action)
  BY <1>1, <1>2 DEF Event
<1>5. e.action # "created" /\ IsDecision(e)
  BY <1>1, <1>4 DEF IsDecision, Action
<1>6. item' = [item EXCEPT ![m] = row]
  BY <1>1 DEF ApplyAction, IInv, TypeOK, ItemRow
<1>7. Record(m, e) /\ Done(a) /\ UNCHANGED <<runs, requests, crashes>>
  BY DEF ApplyAction
<1>8. /\ item[m].run \in DOMAIN runs /\ runs[item[m].run].msg = m
      /\ ShouldQuarantine(runs[item[m].run].verdict, SoftHold)
  BY <1>1 DEF IInv, ItemRunCondemned
<1> HIDE DEF m, seen, action, row, e
<1> QED BY <1>1, <1>2, <1>3, <1>4, <1>5, <1>6, <1>7, <1>8, WriteInv,
           StatusNotNone

-------------------------------------------------------------------------------
(* The specification *)

LEMMA NextInv == IInv /\ [Next]_vars => IInv'
<1> SUFFICES ASSUME IInv, [Next]_vars PROVE IInv'
  OBVIOUS
<1> USE DEF Session
<1>1. ASSUME NEW w \in Worker, NEW m \in Message, NEW verdict \in Verdict,
             Analyse(w, m, verdict)
      PROVE  IInv'
  BY <1>1, AnalyseInv
<1>2. ASSUME NEW w \in Worker, WorkerStep(w) PROVE IInv'
  <2>1. CASE SelectItem(w)
    BY <2>1, SelectItemInv
  <2>2. CASE UpdateItem(w)
    BY <2>2, UpdateItemInv
  <2>3. CASE InsertItem(w)
    BY <2>3, InsertItemInv
  <2>4. CASE InsertConflict(w)
    BY <2>4, EndInv DEF InsertConflict, IInv, TypeOK
  <2> QED BY <1>2, <2>1, <2>2, <2>3, <2>4 DEF WorkerStep
<1>3. ASSUME NEW a \in Analyst, NEW m \in Message, NEW action \in Action,
             LoadForAction(a, m, action)
      PROVE  IInv'
  <2>1. requests' \in Nat /\ crashes' \in Nat
    BY <1>3 DEF LoadForAction, IInv, TypeOK
  <2> QED BY <1>3, <2>1, ReadInv DEF LoadForAction
<1>4. ASSUME NEW a \in Analyst, AnalystStep(a) PROVE IInv'
  <2>1. CASE RejectAction(a)
    BY <2>1, EndInv DEF RejectAction, IInv, TypeOK
  <2>2. CASE ApplyAction(a)
    BY <2>2, ApplyActionInv
  <2> QED BY <1>4, <2>1, <2>2 DEF AnalystStep
<1>5. ASSUME NEW s \in Session, Crash(s) PROVE IInv'
  <2>1. requests' \in Nat /\ crashes' \in Nat
    BY <1>5 DEF Crash, IInv, TypeOK
  <2> QED BY <1>5, <2>1, EndInv DEF Crash
<1>6. CASE UNCHANGED vars
  BY <1>6 DEF vars, IInv, TypeOK, SessionInv, ItemRunCondemned,
              StatusIsLastDecision, CreatedOnce, IsLastDecision, DecisionIndex
<1> QED BY <1>1, <1>2, <1>3, <1>4, <1>5, <1>6 DEF Next

\* Every behaviour keeps the inductive invariant.
THEOREM InvariantHolds == Spec => []IInv
BY InitInv, NextInv, PTL DEF Spec

(***************************************************************************)
(* Every row, event and session keeps its type (the models of              *)
(* app/quarantine/models.py).                                              *)
(***************************************************************************)
THEOREM TypeCorrect == Spec => []TypeOK
BY InvariantHolds, PTL DEF IInv

(***************************************************************************)
(* An item points to a committed run that condemned its own message, under *)
(* every interleaving of analyses, reviews and crashes                     *)
(* (get_or_create_quarantine_item).                                        *)
(***************************************************************************)
THEOREM ItemsAreCondemned == Spec => []ItemRunCondemned
BY InvariantHolds, PTL DEF IInv

(***************************************************************************)
(* The status of an item and its audit trail never disagree, even when     *)
(* two analysts decide from stale readings (apply_action, record_event).   *)
(***************************************************************************)
THEOREM StatusMatchesAudit == Spec => []StatusIsLastDecision
BY InvariantHolds, PTL DEF IInv

(***************************************************************************)
(* What a handler read and decided before its write is still backed by the *)
(* rows when it comes to write, whatever others committed meanwhile.       *)
(***************************************************************************)
THEOREM HandlersAreBacked == Spec => []SessionInv
BY InvariantHolds, PTL DEF IInv

\* The audit trail of a message has one creation, its first event.
THEOREM CreationIsUnique == Spec => []CreatedOnce
BY InvariantHolds, PTL DEF IInv

-------------------------------------------------------------------------------
(***************************************************************************)
(* One review at a time.  What an analyst read of an item, its status and  *)
(* its reviewer, is then still true when the action is applied: analyses   *)
(* touch neither of an item that exists.  So the trail is a path, the      *)
(* reviewer is the one who decided, and the quarantine is the strict state *)
(* machine of ReviewLifecycle.                                             *)
(***************************************************************************)

OneReview ==
  \A a, b \in Analyst : job[a].pc = "act" /\ job[b].pc = "act" => a = b

FreshReading ==
  \A a \in Analyst : job[a].pc = "act" =>
    /\ item[job[a].msg].status = job[a].seen.status
    /\ item[job[a].msg].reviewer = job[a].seen.reviewer

\* An event that is a decision leads where its action does.
LeadsToTarget(e) ==
  IsDecision(e) => e.to = IF e.action = "created" THEN "pending_review" ELSE Target(e.action)

EventsLead == \A m \in Message : \A i \in DOMAIN audit[m] : LeadsToTarget(audit[m][i])

\* The inductive invariant of the regime.
SerialInv ==
  /\ IInv
  /\ OneReview
  /\ FreshReading
  /\ EventsLead
  /\ AuditChainUnbroken
  /\ ReviewerMadeLastDecision

\* The decisions of a trail, and what makes it a path.
Decisions(q) == {i \in DOMAIN q : IsDecision(q[i])}

LastOf(q, i) == i \in Decisions(q) /\ \A j \in Decisions(q) : j <= i

Chain(q) ==
  \A i, j \in Decisions(q) :
    i < j /\ (\A k \in Decisions(q) : ~(i < k /\ k < j)) => q[j].from = q[i].to

LEMMA DecisionsGrow ==
  ASSUME NEW q \in Seq(Event), NEW e \in Event
  PROVE  /\ Decisions(q) \subseteq 1 .. Len(q) /\ Len(q) \in Nat
         /\ \A i \in Decisions(q) : Append(q, e)[i] = q[i]
         /\ Append(q, e)[Len(q) + 1] = e
         /\ Decisions(Append(q, e))
              = Decisions(q) \cup (IF IsDecision(e) THEN {Len(q) + 1} ELSE {})
<1>1. /\ Len(q) \in Nat /\ DOMAIN q = 1 .. Len(q)
      /\ DOMAIN Append(q, e) = 1 .. Len(q) + 1
      /\ \A i \in 1 .. Len(q) : Append(q, e)[i] = q[i]
      /\ Append(q, e)[Len(q) + 1] = e
  BY AppendFacts
<1> QED
  BY <1>1 DEF Decisions

\* A decision that starts where the last one ended continues the path.
LEMMA ChainGrows ==
  ASSUME NEW q \in Seq(Event), NEW e \in Event, Chain(q),
         IsDecision(e) => \A i : LastOf(q, i) => q[i].to = e.from
  PROVE  Chain(Append(q, e))
<1> DEFINE p == Append(q, e)
           n == Len(q) + 1
<1>1. /\ Decisions(q) \subseteq 1 .. Len(q) /\ Len(q) \in Nat
      /\ \A i \in Decisions(q) : p[i] = q[i]
      /\ p[n] = e
      /\ Decisions(p) = Decisions(q) \cup (IF IsDecision(e) THEN {n} ELSE {})
  BY DecisionsGrow
<1> HIDE DEF p
<1>2. SUFFICES ASSUME NEW i \in Decisions(p), NEW j \in Decisions(p), i < j,
                      \A k \in Decisions(p) : ~(i < k /\ k < j)
               PROVE  p[j].from = p[i].to
  BY DEF Chain, p
<1>3. i \in Decisions(q)
  BY <1>1, <1>2
<1>4. CASE j \in Decisions(q)
  BY <1>1, <1>2, <1>3, <1>4 DEF Chain
<1>5. CASE j = n /\ IsDecision(e)
  <2>1. LastOf(q, i)
    BY <1>1, <1>2, <1>3, <1>5 DEF LastOf
  <2> QED
    BY <1>1, <1>3, <1>5, <2>1
<1> QED
  BY <1>1, <1>4, <1>5

\* The last decision is where the item is; there is one when it exists.
LEMMA LastIsStatus ==
  ASSUME IInv, NEW m \in Message
  PROVE  /\ \A i : LastOf(audit[m], i) =>
                     item[m].status # "none" /\ audit[m][i].to = item[m].status
         /\ item[m].status # "none" => \E i : LastOf(audit[m], i)
<1>1. CASE item[m].status = "none"
  <2>1. audit[m] = << >>
    BY <1>1 DEF IInv, StatusIsLastDecision
  <2> QED
    BY <1>1, <2>1 DEF LastOf, Decisions
<1>2. CASE item[m].status # "none"
  <2>1. PICK i \in DOMAIN audit[m] : IsLastDecision(m, i) /\ audit[m][i].to = item[m].status
    BY <1>2 DEF IInv, StatusIsLastDecision
  <2>2. LastOf(audit[m], i)
    BY <2>1 DEF IsLastDecision, DecisionIndex, LastOf, Decisions
  <2>3. ASSUME NEW k, LastOf(audit[m], k) PROVE k = i
    <3>1. audit[m] \in Seq(Event)
      BY DEF IInv, TypeOK
    <3>2. i \in Nat /\ k \in Nat /\ i <= k /\ k <= i
      BY <2>2, <2>3, <3>1, LenProperties DEF LastOf, Decisions
    <3> QED
      BY <3>2
  <2> QED
    BY <1>2, <2>1, <2>2, <2>3
<1> QED
  BY <1>1, <1>2

\* The two properties, trail by trail.
LEMMA TrailForms ==
  /\ AuditChainUnbroken <=> \A m \in Message : Chain(audit[m])
  /\ ReviewerMadeLastDecision <=>
       \A m \in Message : \A i : LastOf(audit[m], i) =>
         item[m].reviewer = IF audit[m][i].action = "created"
                            THEN NoOne ELSE audit[m][i].actor
<1>1. AuditChainUnbroken <=> \A m \in Message : Chain(audit[m])
  BY DEF AuditChainUnbroken, Chain, DecisionIndex, Decisions
<1>2. \A m \in Message : \A i : LastOf(audit[m], i) <=>
                                  i \in DOMAIN audit[m] /\ IsLastDecision(m, i)
  BY DEF LastOf, IsLastDecision, DecisionIndex, Decisions
<1> QED
  BY <1>1, <1>2 DEF ReviewerMadeLastDecision

\* An item that waits for review was only created: nobody reviewed it.
LEMMA PendingIsUnreviewed ==
  ASSUME SerialInv, NEW m \in Message, item[m].status = "pending_review"
  PROVE  item[m].reviewer = NoOne
<1>1. PICK i : LastOf(audit[m], i) /\ audit[m][i].to = "pending_review"
  BY LastIsStatus DEF SerialInv
<1>2. LeadsToTarget(audit[m][i]) /\ IsDecision(audit[m][i])
  BY <1>1 DEF SerialInv, EventsLead, LastOf, Decisions
<1>3. audit[m][i] \in Event
  <2>1. audit[m] \in Seq(Event) /\ i \in DOMAIN audit[m]
    BY <1>1 DEF SerialInv, IInv, TypeOK, LastOf, Decisions
  <2> QED
    BY <2>1, ElementOfSeq, LenProperties
<1>4. audit[m][i].action = "created"
  <2>1. audit[m][i].action \in Action \cup {"created"}
    BY <1>2, <1>3 DEF IsDecision, Event
  <2>2. \A action \in Action : Target(action) # "pending_review"
    BY DEF Action, Target
  <2> QED
    BY <1>1, <1>2, <2>1, <2>2 DEF LeadsToTarget
<1> QED
  BY <1>1, <1>4, TrailForms DEF SerialInv

(***************************************************************************)
(* A write: event e is recorded and the row of m becomes row.  Either it   *)
(* is no decision and touches neither status nor reviewer, or it is one    *)
(* that starts from the status of the item and is signed.                  *)
(***************************************************************************)
Noted(m, row, e) ==
  /\ ~IsDecision(e)
  /\ row.status = item[m].status /\ row.reviewer = item[m].reviewer

Decided(m, row, e) ==
  /\ IsDecision(e) /\ LeadsToTarget(e)
  /\ e.from = item[m].status
  /\ row.reviewer = IF e.action = "created" THEN NoOne ELSE e.actor

LEMMA WriteSerial ==
  ASSUME SerialInv, IInv', OneReview', NEW s \in Session, NEW m \in Message,
         NEW row \in ItemRow, NEW e \in Event,
         item' = [item EXCEPT ![m] = row], Record(m, e), Done(s),
         \/ Noted(m, row, e)
         \/ /\ Decided(m, row, e)
            /\ \A a \in Analyst \ {s} : job[a].pc = "act" => job[a].msg # m
  PROVE  SerialInv'
<1>1. /\ job'[s] = Idle /\ \A t \in Session \ {s} : job'[t] = job[t]
  BY DoneType DEF SerialInv, IInv
<1>2. /\ audit[m] \in Seq(Event)
      /\ audit'[m] = Append(audit[m], e)
      /\ \A n \in Message \ {m} : audit'[n] = audit[n]
  BY RecordType DEF SerialInv, IInv, TypeOK
<1>3. /\ item'[m] = row /\ \A n \in Message \ {m} : item'[n] = item[n]
  BY DEF SerialInv, IInv, TypeOK
<1>4. FreshReading'
  <2> SUFFICES ASSUME NEW a \in Analyst, job'[a].pc = "act"
               PROVE  /\ item'[job'[a].msg].status = job'[a].seen.status
                      /\ item'[job'[a].msg].reviewer = job'[a].seen.reviewer
    BY DEF FreshReading
  <2>1. a \in Session /\ a # s /\ job'[a] = job[a]
    BY <1>1 DEF Session, Idle
  <2>2. /\ job[a].msg \in Message
        /\ item[job[a].msg].status = job[a].seen.status
        /\ item[job[a].msg].reviewer = job[a].seen.reviewer
    BY <2>1 DEF SerialInv, FreshReading, IInv, SessionInv
  <2> QED
    BY <1>3, <2>1, <2>2 DEF Noted
<1> DEFINE k == Len(audit[m])
<1>5. /\ k \in Nat /\ DOMAIN audit[m] = 1 .. k /\ DOMAIN audit'[m] = 1 .. k + 1
      /\ \A i \in 1 .. k : audit'[m][i] = audit[m][i]
      /\ audit'[m][k + 1] = e
  BY <1>2, AppendFacts
<1>6. /\ Decisions(audit[m]) \subseteq 1 .. k
      /\ Decisions(audit'[m]) = Decisions(audit[m]) \cup (IF IsDecision(e) THEN {k + 1} ELSE {})
  BY <1>2, DecisionsGrow
<1> HIDE DEF k
<1>7. EventsLead'
  <2>1. LeadsToTarget(e)
    BY DEF Noted, Decided, LeadsToTarget
  <2> SUFFICES ASSUME NEW n \in Message, NEW i \in DOMAIN audit'[n]
               PROVE  LeadsToTarget(audit'[n][i])
    BY DEF EventsLead
  <2>2. CASE n # m
    BY <1>2, <2>2 DEF SerialInv, EventsLead
  <2>3. CASE n = m
    BY <1>5, <2>1, <2>3 DEF SerialInv, EventsLead
  <2> QED
    BY <2>2, <2>3
<1>8. AuditChainUnbroken'
  <2>1. \A n \in Message : Chain(audit[n])
    BY TrailForms DEF SerialInv
  <2>2. Chain(audit'[m])
    <3>1. IsDecision(e) => \A i : LastOf(audit[m], i) => audit[m][i].to = e.from
      BY LastIsStatus DEF SerialInv, Noted, Decided
    <3> QED
      BY <1>2, <2>1, <3>1, ChainGrows
  <2>3. \A n \in Message : Chain(audit'[n])
    BY <1>2, <2>1, <2>2
  <2> QED
    BY <2>3 DEF AuditChainUnbroken, Chain, DecisionIndex, Decisions
<1>9. ReviewerMadeLastDecision'
  <2> SUFFICES ASSUME NEW n \in Message, NEW i, LastOf(audit'[n], i)
               PROVE  item'[n].reviewer = IF audit'[n][i].action = "created"
                                          THEN NoOne ELSE audit'[n][i].actor
    BY DEF ReviewerMadeLastDecision, LastOf, IsLastDecision, DecisionIndex, Decisions
  <2>1. \A j : LastOf(audit[n], j) =>
          item[n].reviewer = IF audit[n][j].action = "created"
                             THEN NoOne ELSE audit[n][j].actor
    BY TrailForms DEF SerialInv
  <2>2. CASE n # m
    BY <1>2, <1>3, <2>1, <2>2
  <2>3. CASE n = m /\ IsDecision(e)
    <3>1. i = k + 1
      <4>1. LastOf(audit'[m], i) /\ k + 1 \in Decisions(audit'[m])
        BY <1>6, <2>3
      <4>2. i \in 1 .. k + 1 /\ k + 1 <= i
        BY <1>5, <1>6, <4>1 DEF LastOf
      <4> QED
        BY <1>5, <4>2
    <3> QED
      BY <1>3, <1>5, <2>3, <3>1 DEF Noted, Decided
  <2>4. CASE n = m /\ ~IsDecision(e)
    <3>1. LastOf(audit[m], i) /\ audit'[m][i] = audit[m][i]
      BY <1>5, <1>6, <2>4 DEF LastOf
    <3> QED
      BY <1>3, <2>1, <2>4, <3>1 DEF Noted, Decided
  <2> QED
    BY <2>2, <2>3, <2>4
<1> QED
  BY <1>4, <1>7, <1>8, <1>9 DEF SerialInv

\* A step that changes neither items nor trails.
LEMMA QuietSerial ==
  ASSUME SerialInv, IInv', OneReview', UNCHANGED <<item, audit>>,
         \A a \in Analyst : \/ job'[a] = job[a] \/ job'[a] = Idle
                            \/ \E m \in Message, action \in Action :
                                 job'[a] = Reviewing(m, action)
  PROVE  SerialInv'
<1>1. FreshReading'
  <2> SUFFICES ASSUME NEW a \in Analyst, job'[a].pc = "act"
               PROVE  /\ item'[job'[a].msg].status = job'[a].seen.status
                      /\ item'[job'[a].msg].reviewer = job'[a].seen.reviewer
    BY DEF FreshReading
  <2>1. CASE job'[a] = job[a]
    BY <2>1 DEF SerialInv, FreshReading
  <2>2. CASE job'[a] = Idle
    BY <2>2 DEF Idle
  <2>3. CASE \E m \in Message, action \in Action : job'[a] = Reviewing(m, action)
    BY <2>3 DEF Reviewing
  <2> QED
    BY <2>1, <2>2, <2>3
<1>2. EventsLead' /\ AuditChainUnbroken' /\ ReviewerMadeLastDecision'
  BY DEF SerialInv, EventsLead, AuditChainUnbroken, ReviewerMadeLastDecision,
         DecisionIndex, IsLastDecision
<1> QED
  BY <1>1, <1>2 DEF SerialInv

\* What the writes of the three kinds do.
LEMMA UpdateItemWrites ==
  ASSUME SerialInv, NEW w \in Worker, UpdateItem(w)
  PROVE  \E row \in ItemRow, e \in Event :
           /\ item' = [item EXCEPT ![job[w].msg] = row]
           /\ Record(job[w].msg, e) /\ Noted(job[w].msg, row, e)
<1> DEFINE m == job[w].msg
           seen == job[w].seen
           verdict == runs[job[w].run].verdict
           trigger == IF seen.trigger # verdict THEN verdict ELSE item[m].trigger
           row == [item[m] EXCEPT !.run = job[w].run, !.trigger = trigger]
           e == [action |-> "updated", actor |-> w,
                 from |-> seen.status, to |-> seen.status]
<1>1. /\ w \in Session /\ m \in Message /\ item[m] \in ItemRow
      /\ job[w] \in Job /\ seen.status \in Status /\ job[w].run \in DOMAIN runs
  BY DEF SerialInv, IInv, TypeOK, SessionInv, UpdateItem, Session, Job, ItemRow
<1>2. verdict \in Verdict
  <2>1. runs[job[w].run] \in [msg : Message, verdict : Verdict]
    <3>1. runs \in Seq([msg : Message, verdict : Verdict])
      BY DEF SerialInv, IInv, TypeOK
    <3> QED BY <1>1, <3>1, ElementOfSeq, LenProperties
  <2> QED BY <2>1
<1>3. trigger \in Verdict \cup {"none"} /\ job[w].run \in Nat
  BY <1>1, <1>2 DEF ItemRow, Job
<1>4. item' = [item EXCEPT ![m] = row]
  BY <1>1 DEF UpdateItem, SerialInv, IInv, TypeOK, ItemRow
<1> HIDE DEF trigger
<1>5. row \in ItemRow /\ row.status = item[m].status /\ row.reviewer = item[m].reviewer
  BY <1>1, <1>3 DEF ItemRow
<1>6. e \in Event /\ ~IsDecision(e)
  BY <1>1 DEF Event, IsDecision
<1>7. Record(m, e)
  BY DEF UpdateItem
<1>8. Noted(m, row, e)
  BY <1>5, <1>6 DEF Noted
<1> HIDE DEF m, row, e
<1>9. item' = [item EXCEPT ![m] = row] /\ Record(m, e) /\ Noted(m, row, e)
  BY <1>4, <1>7, <1>8
<1> QED
  BY <1>5, <1>6, <1>9 DEF m

LEMMA InsertItemWrites ==
  ASSUME SerialInv, NEW w \in Worker, InsertItem(w)
  PROVE  \E row \in ItemRow, e \in Event :
           /\ item' = [item EXCEPT ![job[w].msg] = row]
           /\ Record(job[w].msg, e) /\ Decided(job[w].msg, row, e)
           /\ item[job[w].msg].status = "none" /\ row.status = "pending_review"
<1> DEFINE m == job[w].msg
           verdict == runs[job[w].run].verdict
           row == [status |-> "pending_review", run |-> job[w].run,
                   trigger |-> verdict, reviewer |-> NoOne]
           e == [action |-> "created", actor |-> w,
                 from |-> "none", to |-> "pending_review"]
<1>1. /\ w \in Session /\ m \in Message
      /\ job[w] \in Job /\ item[m].status = "none" /\ job[w].run \in DOMAIN runs
  BY DEF SerialInv, IInv, TypeOK, SessionInv, InsertItem, Session
<1>2. verdict \in Verdict
  <2>1. runs[job[w].run] \in [msg : Message, verdict : Verdict]
    BY <1>1, ElementOfSeq, LenProperties DEF SerialInv, IInv, TypeOK
  <2> QED BY <2>1
<1>3. row \in ItemRow
  BY <1>1, <1>2 DEF ItemRow, Job, Status, Undecided
<1>4. e \in Event /\ IsDecision(e) /\ LeadsToTarget(e)
  BY <1>1 DEF Event, IsDecision, LeadsToTarget, Status, Undecided
<1>5. item' = [item EXCEPT ![m] = row] /\ Record(m, e)
  BY DEF InsertItem
<1>6. Decided(m, row, e) /\ row.status = "pending_review"
  BY <1>1, <1>4 DEF Decided
<1> HIDE DEF m, row, e
<1>7. /\ item' = [item EXCEPT ![m] = row] /\ Record(m, e) /\ Decided(m, row, e)
      /\ item[m].status = "none" /\ row.status = "pending_review"
  BY <1>1, <1>5, <1>6
<1> QED
  BY <1>3, <1>4, <1>7 DEF m

LEMMA ApplyActionWrites ==
  ASSUME SerialInv, NEW a \in Analyst, ApplyAction(a)
  PROVE  \E row \in ItemRow, e \in Event :
           /\ item' = [item EXCEPT ![job[a].msg] = row]
           /\ Record(job[a].msg, e) /\ Decided(job[a].msg, row, e)
           /\ item[job[a].msg].status \in ValidFrom(job[a].action)
           /\ row.status = Target(job[a].action)
<1> DEFINE m == job[a].msg
           seen == job[a].seen
           action == job[a].action
           signs == action # "mark_in_review" \/ seen.reviewer = NoOne
           reviewer == IF signs /\ seen.reviewer # a THEN a ELSE item[m].reviewer
           row == [item[m] EXCEPT !.status = Target(action), !.reviewer = reviewer]
           e == [action |-> action, actor |-> a,
                 from |-> seen.status, to |-> Target(action)]
<1>1. /\ a \in Session /\ m \in Message /\ item[m] \in ItemRow
      /\ job[a] \in Job /\ action \in Action
      /\ seen.status \in Status /\ seen.status \in ValidFrom(action)
  BY DEF SerialInv, IInv, TypeOK, SessionInv, ApplyAction, Session, Job, ItemRow
<1>2. item[m].status = seen.status /\ item[m].reviewer = seen.reviewer
  BY DEF SerialInv, FreshReading, ApplyAction
<1>3. Target(action) \in Status
  BY <1>1, TransitionFacts
<1>4. signs
  <2>1. CASE action = "mark_in_review"
    <3>1. item[m].status = "pending_review"
      BY <1>1, <1>2, <2>1 DEF ValidFrom
    <3> QED
      BY <1>1, <1>2, <3>1, PendingIsUnreviewed
  <2> QED
    BY <2>1
<1>5. reviewer = a
  BY <1>2, <1>4
<1>6. item' = [item EXCEPT ![m] = row]
  BY <1>1 DEF ApplyAction, SerialInv, IInv, TypeOK, ItemRow
<1>7. Record(m, e)
  BY DEF ApplyAction
<1> HIDE DEF signs, reviewer
<1>8. row \in ItemRow /\ row.status = Target(action) /\ row.reviewer = a
  BY <1>1, <1>3, <1>5 DEF ItemRow
<1>9. /\ e \in Event /\ e.action = action /\ e.to = Target(action)
      /\ e.from = seen.status /\ e.actor = a
  BY <1>1, <1>3 DEF Event
<1>10. e.action # "created" /\ IsDecision(e)
  BY <1>1, <1>9 DEF IsDecision, Action
<1> HIDE DEF row, e
<1>11. Decided(m, row, e)
  BY <1>2, <1>8, <1>9, <1>10 DEF Decided, LeadsToTarget
<1> HIDE DEF m, action
<1>12. /\ item' = [item EXCEPT ![m] = row] /\ Record(m, e) /\ Decided(m, row, e)
       /\ item[m].status \in ValidFrom(action) /\ row.status = Target(action)
  BY <1>1, <1>2, <1>6, <1>7, <1>8, <1>11
<1> QED
  BY <1>8, <1>9, <1>12 DEF m, action

LEMMA SerialInit == Init => SerialInv
<1> SUFFICES ASSUME Init PROVE SerialInv
  OBVIOUS
<1>1. IInv
  BY InitInv
<1>2. OneReview /\ FreshReading
  BY DEF Init, OneReview, FreshReading, Idle, Session
<1>3. EventsLead /\ AuditChainUnbroken /\ ReviewerMadeLastDecision
  BY DEF Init, EventsLead, AuditChainUnbroken, ReviewerMadeLastDecision, DecisionIndex
<1> QED
  BY <1>1, <1>2, <1>3 DEF SerialInv

LEMMA SerialStep == SerialInv /\ [Next /\ OneReviewAtATime]_vars => SerialInv'
<1> SUFFICES ASSUME SerialInv, [Next /\ OneReviewAtATime]_vars PROVE SerialInv'
  OBVIOUS
<1>1. IInv'
  BY NextInv DEF SerialInv
<1>2. OneReview'
  <2>1. CASE UNCHANGED vars
    BY <2>1 DEF vars, SerialInv, OneReview
  <2>2. CASE OneReviewAtATime
    BY <2>2 DEF OneReviewAtATime, OneReview
  <2> QED
    BY <2>1, <2>2
<1>3. \A s \in Session : job[s].pc # "idle" => job[s].msg \in Message
  BY DEF SerialInv, IInv, SessionInv
<1>4. job \in [Session -> Job]
  BY DEF SerialInv, IInv, TypeOK
<1>5. CASE UNCHANGED vars
  BY <1>1, <1>2, <1>5, QuietSerial DEF vars
<1>6. ASSUME NEW w \in Worker, NEW m \in Message, NEW verdict \in Verdict,
             Analyse(w, m, verdict)
      PROVE  SerialInv'
  <2>1. UNCHANGED <<item, audit>> /\ \A a \in Analyst : job'[a] = job[a]
    BY <1>4, <1>6, QRConstants DEF Analyse, Session
  <2> QED
    BY <1>1, <1>2, <2>1, QuietSerial
<1>7. ASSUME NEW s \in Session, Done(s), UNCHANGED <<item, audit>>
      PROVE  SerialInv'
  <2>1. \A a \in Analyst : job'[a] = job[a] \/ job'[a] = Idle
    BY <1>4, <1>7 DEF Done, Session
  <2> QED
    BY <1>1, <1>2, <1>7, <2>1, QuietSerial
<1>8. ASSUME NEW w \in Worker, WorkerStep(w) PROVE SerialInv'
  <2>1. CASE SelectItem(w)
    <3>1. UNCHANGED <<item, audit>> /\ \A a \in Analyst : job'[a] = job[a]
      BY <1>4, <2>1, QRConstants DEF SelectItem, Session
    <3> QED
      BY <1>1, <1>2, <3>1, QuietSerial
  <2>2. CASE UpdateItem(w)
    <3>1. PICK row \in ItemRow, e \in Event :
            /\ item' = [item EXCEPT ![job[w].msg] = row]
            /\ Record(job[w].msg, e) /\ Noted(job[w].msg, row, e)
      BY <2>2, UpdateItemWrites
    <3>2. Done(w) /\ w \in Session /\ job[w].msg \in Message
      BY <1>3, <2>2 DEF UpdateItem, Session
    <3> QED
      BY <1>1, <1>2, <3>1, <3>2, WriteSerial
  <2>3. CASE InsertItem(w)
    <3>1. PICK row \in ItemRow, e \in Event :
            /\ item' = [item EXCEPT ![job[w].msg] = row]
            /\ Record(job[w].msg, e) /\ Decided(job[w].msg, row, e)
            /\ item[job[w].msg].status = "none"
      BY <2>3, InsertItemWrites
    <3>2. Done(w) /\ w \in Session /\ job[w].msg \in Message
      BY <1>3, <2>3 DEF InsertItem, Session
    <3>3. \A a \in Analyst : job[a].pc = "act" => job[a].msg # job[w].msg
      <4>1. \A a \in Analyst : job[a].pc = "act" => item[job[a].msg].status # "none"
        BY DEF SerialInv, IInv, SessionInv, Session
      <4> QED
        BY <3>1, <4>1
    <3> QED
      BY <1>1, <1>2, <3>1, <3>2, <3>3, WriteSerial
  <2>4. CASE InsertConflict(w)
    BY <1>7, <2>4 DEF InsertConflict, Session
  <2> QED
    BY <1>8, <2>1, <2>2, <2>3, <2>4 DEF WorkerStep
<1>9. ASSUME NEW a \in Analyst, NEW m \in Message, NEW action \in Action,
             LoadForAction(a, m, action)
      PROVE  SerialInv'
  <2>1. /\ UNCHANGED <<item, audit>>
        /\ \A b \in Analyst : job'[b] = job[b] \/ job'[b] = Reviewing(m, action)
    BY <1>4, <1>9 DEF LoadForAction, Session
  <2> QED
    BY <1>1, <1>2, <2>1, QuietSerial
<1>10. ASSUME NEW a \in Analyst, AnalystStep(a) PROVE SerialInv'
  <2>1. CASE RejectAction(a)
    BY <1>7, <2>1 DEF RejectAction, Session
  <2>2. CASE ApplyAction(a)
    <3>1. PICK row \in ItemRow, e \in Event :
            /\ item' = [item EXCEPT ![job[a].msg] = row]
            /\ Record(job[a].msg, e) /\ Decided(job[a].msg, row, e)
      BY <2>2, ApplyActionWrites
    <3>2. Done(a) /\ a \in Session /\ job[a].msg \in Message /\ job[a].pc = "act"
      BY <1>3, <2>2 DEF ApplyAction, Session
    <3>3. \A b \in Analyst \ {a} : job[b].pc # "act"
      BY <3>2 DEF SerialInv, OneReview
    <3> QED
      BY <1>1, <1>2, <3>1, <3>2, <3>3, WriteSerial
  <2> QED
    BY <1>10, <2>1, <2>2 DEF AnalystStep
<1>11. ASSUME NEW s \in Session, Crash(s) PROVE SerialInv'
  BY <1>7, <1>11 DEF Crash
<1> QED
  BY <1>5, <1>6, <1>8, <1>9, <1>10, <1>11 DEF Next

\* With one review at a time the invariant of the regime holds.
THEOREM SerialInvariant == SerialSpec => []SerialInv
BY SerialInit, SerialStep, PTL DEF SerialSpec

(***************************************************************************)
(* With one review at a time the audit trail of an item is a path of the   *)
(* state machine, whatever analyses run beside the reviews and wherever    *)
(* handlers die.                                                           *)
(***************************************************************************)
THEOREM TrailIsPath == SerialSpec => []AuditChainUnbroken
BY SerialInvariant, PTL DEF SerialInv

(***************************************************************************)
(* With one review at a time the reviewer of an item is the analyst who    *)
(* took its last decision.                                                 *)
(***************************************************************************)
THEOREM ReviewerDecided == SerialSpec => []ReviewerMadeLastDecision
BY SerialInvariant, PTL DEF SerialInv

-------------------------------------------------------------------------------
(* The refinement *)

statuses == [m \in Message |-> item[m].status]

\* A write of a row changes the status of its message only.
LEMMA StatusOfWrite ==
  ASSUME IInv, NEW m \in Message, NEW row, item' = [item EXCEPT ![m] = row]
  PROVE  statuses' = [statuses EXCEPT ![m] = row.status]
BY DEF IInv, TypeOK, statuses

\* The creation of an item is the first move of the lifecycle,
LEMMA CreationMoves ==
  ASSUME NEW m \in Message, statuses[m] = "none",
         statuses' = [statuses EXCEPT ![m] = "pending_review"]
  PROVE  Lifecycle!Next
<1>1. Lifecycle!Quarantine(m)
  BY DEF statuses, Lifecycle!Quarantine, Lifecycle!Moves
<1> QED
  BY <1>1 DEF Lifecycle!Next

\* and each action of the table is a move of it.
LEMMA ActionMoves ==
  ASSUME NEW m \in Message, NEW action \in Action, statuses[m] \in ValidFrom(action),
         statuses' = [statuses EXCEPT ![m] = Target(action)]
  PROVE  Lifecycle!Next
<1>1. CASE action = "mark_in_review"
  <2>1. Lifecycle!TakeInReview(m)
    BY <1>1 DEF ValidFrom, Target, statuses, Lifecycle!TakeInReview, Lifecycle!Moves
  <2> QED
    BY <2>1 DEF Lifecycle!Next
<1>2. CASE action = "delete"
  <2>1. Lifecycle!Delete(m)
    BY <1>2 DEF ValidFrom, Target, statuses, Status, Undecided, Lifecycle!Delete,
                Lifecycle!Moves, Lifecycle!Undecided, Lifecycle!Decided
  <2> QED
    BY <2>1 DEF Lifecycle!Next
<1>3. CASE action \in {"release", "mark_false_positive", "confirm_malicious"}
  <2>1. Target(action) \in Lifecycle!Decided /\ ValidFrom(action) = Undecided
    BY <1>3 DEF Target, ValidFrom, Lifecycle!Decided
  <2>2. Lifecycle!Decide(m)
    BY <2>1 DEF statuses, Undecided, Lifecycle!Decide, Lifecycle!Moves, Lifecycle!Undecided
  <2> QED
    BY <2>2 DEF Lifecycle!Next
<1> QED
  BY <1>1, <1>2, <1>3 DEF Action

LEMMA StepRefines ==
  SerialInv /\ [Next /\ OneReviewAtATime]_vars => [Lifecycle!Next]_statuses
<1> SUFFICES ASSUME SerialInv, [Next /\ OneReviewAtATime]_vars
             PROVE  Lifecycle!Next \/ statuses' = statuses
  BY DEF statuses
<1>1. ASSUME item' = item PROVE statuses' = statuses
  BY <1>1 DEF statuses
<1>2. IInv /\ \A s \in Session : job[s].pc # "idle" => job[s].msg \in Message
  BY DEF SerialInv, IInv, SessionInv
<1>3. ASSUME NEW w \in Worker, UpdateItem(w) PROVE statuses' = statuses
  <2>1. PICK row \in ItemRow :
          /\ item' = [item EXCEPT ![job[w].msg] = row]
          /\ row.status = item[job[w].msg].status
    BY <1>3, UpdateItemWrites DEF Noted
  <2>2. job[w].msg \in Message
    BY <1>2, <1>3 DEF UpdateItem, Session
  <2> QED
    BY <1>2, <2>1, <2>2, StatusOfWrite DEF statuses
<1>4. ASSUME NEW w \in Worker, InsertItem(w) PROVE Lifecycle!Next
  <2>1. PICK row \in ItemRow :
          /\ item' = [item EXCEPT ![job[w].msg] = row]
          /\ item[job[w].msg].status = "none" /\ row.status = "pending_review"
    BY <1>4, InsertItemWrites
  <2>2. job[w].msg \in Message
    BY <1>2, <1>4 DEF InsertItem, Session
  <2>3. statuses' = [statuses EXCEPT ![job[w].msg] = "pending_review"]
    BY <1>2, <2>1, <2>2, StatusOfWrite
  <2>4. statuses[job[w].msg] = "none"
    BY <2>1, <2>2 DEF statuses
  <2> QED
    BY <2>2, <2>3, <2>4, CreationMoves
<1>5. ASSUME NEW a \in Analyst, ApplyAction(a) PROVE Lifecycle!Next
  <2>1. PICK row \in ItemRow :
          /\ item' = [item EXCEPT ![job[a].msg] = row]
          /\ item[job[a].msg].status \in ValidFrom(job[a].action)
          /\ row.status = Target(job[a].action)
    BY <1>5, ApplyActionWrites
  <2>2. job[a].msg \in Message /\ job[a].action \in Action
    BY <1>5 DEF ApplyAction, Session, SerialInv, IInv, SessionInv
  <2>3. statuses' = [statuses EXCEPT ![job[a].msg] = Target(job[a].action)]
    BY <1>2, <2>1, <2>2, StatusOfWrite
  <2>4. statuses[job[a].msg] \in ValidFrom(job[a].action)
    BY <2>1, <2>2 DEF statuses
  <2> QED
    BY <2>2, <2>3, <2>4, ActionMoves
<1>6. CASE UNCHANGED vars
  BY <1>1, <1>6 DEF vars
<1>7. CASE Next
  BY <1>1, <1>3, <1>4, <1>5, <1>7 DEF Next, Analyse, WorkerStep, SelectItem, InsertConflict,
       LoadForAction, AnalystStep, RejectAction, Crash
<1> QED
  BY <1>6, <1>7

(***************************************************************************)
(* With one review at a time the quarantine implements the strict state    *)
(* machine of ReviewLifecycle: one decision for an item at most, and       *)
(* deletion is final.                                                      *)
(***************************************************************************)
THEOREM LifecycleImplemented == SerialSpec => ImplementsLifecycle
<1>1. Init => Lifecycle!Init
  BY DEF Init, NoItem, Lifecycle!Init
<1> QED
  BY <1>1, SerialInvariant, StepRefines, PTL
  DEF SerialSpec, ImplementsLifecycle, Lifecycle!Spec, statuses

-------------------------------------------------------------------------------
(***************************************************************************)
(* Analyses apart.  Where no two analyses of one message overlap, what an  *)
(* analysis read of the item is still true when it writes, and the two     *)
(* columns it writes belong together.  (Nothing in the code keeps them     *)
(* apart: the run review_stale_trigger shows what overlapping ones do.)    *)
(***************************************************************************)
AnalysesApart ==
  \A v, w \in Worker :
    job[v].pc # "idle" /\ job[w].pc # "idle" /\ job[v].msg = job[w].msg => v = w

FreshTrigger ==
  \A w \in Worker :
    job[w].pc = "upsert" /\ job[w].seen.status # "none" =>
      job[w].seen.trigger = item[job[w].msg].trigger

MatchInv == IInv /\ ItemMatchesRun /\ FreshTrigger

LEMMA InitMatch == Init => MatchInv
<1> SUFFICES ASSUME Init PROVE MatchInv
  OBVIOUS
<1>1. IInv
  BY InitInv
<1>2. ItemMatchesRun /\ FreshTrigger
  BY DEF Init, ItemMatchesRun, FreshTrigger, NoItem, Idle, Session
<1> QED BY <1>1, <1>2 DEF MatchInv

\* A step of handler s that writes no row.
LEMMA QuietMatch ==
  ASSUME MatchInv, IInv', NEW s \in Session, item' = item, runs' = runs,
         \A t \in Session \ {s} : job'[t] = job[t],
         \/ job'[s].pc # "upsert"
         \/ job'[s].seen = item[job'[s].msg]
  PROVE  MatchInv'
<1>1. ItemMatchesRun'
  BY DEF MatchInv, ItemMatchesRun
<1>2. FreshTrigger'
  BY DEF MatchInv, FreshTrigger, Session
<1> QED BY <1>1, <1>2 DEF MatchInv

LEMMA AnalyseMatch ==
  ASSUME MatchInv, IInv', NEW w \in Worker, NEW m \in Message,
         NEW verdict \in Verdict, Analyse(w, m, verdict)
  PROVE  MatchInv'
<1>1. \A i \in DOMAIN runs : runs'[i] = runs[i]
  <2>1. [msg |-> m, verdict |-> verdict] \in [msg : Message, verdict : Verdict]
        /\ runs \in Seq([msg : Message, verdict : Verdict])
    BY DEF MatchInv, IInv, TypeOK
  <2> QED BY <2>1, AppendFacts DEF Analyse
<1>2. ItemMatchesRun'
  BY <1>1 DEF Analyse, MatchInv, IInv, ItemRunCondemned, ItemMatchesRun
<1>3. \A v \in Worker : job'[v] = job[v] \/ job'[v].pc = "select"
  BY DEF Analyse, Condemning, MatchInv, IInv, TypeOK, Session
<1>4. FreshTrigger'
  BY <1>3 DEF Analyse, MatchInv, FreshTrigger
<1> QED BY <1>2, <1>4 DEF MatchInv

\* A handler writes a row whose trigger is the verdict of its run, and no
\* other analysis has read the row that this changes.
LEMMA WriteMatch ==
  ASSUME MatchInv, IInv', NEW s \in Session, NEW m \in Message, NEW row,
         item' = [item EXCEPT ![m] = row], Done(s), runs' = runs,
         row.trigger = runs[row.run].verdict,
         \/ row.trigger = item[m].trigger
         \/ \A v \in Worker \ {s} : job[v].pc = "upsert" => job[v].msg # m
  PROVE  MatchInv'
<1>1. /\ job'[s] = Idle /\ \A t \in Session \ {s} : job'[t] = job[t]
  BY DoneType DEF MatchInv, IInv
<1>2. /\ item'[m] = row /\ \A n \in Message \ {m} : item'[n] = item[n]
  BY DEF MatchInv, IInv, TypeOK
<1>3. ItemMatchesRun'
  BY <1>2 DEF MatchInv, ItemMatchesRun
<1>4. FreshTrigger'
  <2> SUFFICES ASSUME NEW v \in Worker,
                      job'[v].pc = "upsert", job'[v].seen.status # "none"
               PROVE  job'[v].seen.trigger = item'[job'[v].msg].trigger
    BY DEF FreshTrigger
  <2>1. v # s /\ job'[v] = job[v]
    BY <1>1 DEF Idle, Session
  <2>2. job[v].msg \in Message /\ job[v].seen.trigger = item[job[v].msg].trigger
    BY <2>1 DEF MatchInv, IInv, SessionInv, FreshTrigger, Session
  <2> QED BY <1>2, <2>1, <2>2
<1> QED BY <1>3, <1>4 DEF MatchInv

LEMMA UpdateItemMatch ==
  ASSUME MatchInv, AnalysesApart, IInv', NEW w \in Worker, UpdateItem(w)
  PROVE  MatchInv'
<1> DEFINE m == job[w].msg
           verdict == runs[job[w].run].verdict
           row == [item[m] EXCEPT
                     !.run = job[w].run,
                     !.trigger = IF job[w].seen.trigger # verdict THEN verdict
                                 ELSE item[m].trigger]
<1>1. /\ w \in Session /\ m \in Message /\ item[m] \in ItemRow
      /\ job[w].seen.trigger = item[m].trigger
  BY DEF MatchInv, IInv, TypeOK, SessionInv, FreshTrigger, UpdateItem, Session
<1>2. row.run = job[w].run /\ row.trigger = verdict
  BY <1>1 DEF ItemRow
<1>3. item' = [item EXCEPT ![m] = row]
  BY <1>1 DEF UpdateItem, MatchInv, IInv, TypeOK, ItemRow
<1>4. \A v \in Worker \ {w} : job[v].pc = "upsert" => job[v].msg # m
  BY DEF AnalysesApart, UpdateItem
<1>5. Done(w) /\ runs' = runs
  BY DEF UpdateItem
<1> HIDE DEF m, row
<1> QED BY <1>1, <1>2, <1>3, <1>4, <1>5, WriteMatch

LEMMA InsertItemMatch ==
  ASSUME MatchInv, AnalysesApart, IInv', NEW w \in Worker, InsertItem(w)
  PROVE  MatchInv'
<1> DEFINE m == job[w].msg
           row == [status |-> "pending_review", run |-> job[w].run,
                   trigger |-> runs[job[w].run].verdict, reviewer |-> NoOne]
<1>1. w \in Session /\ m \in Message
  BY DEF MatchInv, IInv, SessionInv, InsertItem, Session
<1>2. /\ item' = [item EXCEPT ![m] = row] /\ Done(w) /\ runs' = runs
      /\ row.trigger = runs[row.run].verdict
  BY DEF InsertItem
<1>3. \A v \in Worker \ {w} : job[v].pc = "upsert" => job[v].msg # m
  BY DEF AnalysesApart, InsertItem
<1> HIDE DEF m, row
<1> QED BY <1>1, <1>2, <1>3, WriteMatch

LEMMA ApplyActionMatch ==
  ASSUME MatchInv, IInv', NEW a \in Analyst, ApplyAction(a)
  PROVE  MatchInv'
<1> DEFINE m == job[a].msg
<1>1. /\ a \in Session /\ m \in Message /\ item[m] \in ItemRow
      /\ item[m].status # "none"
  BY DEF MatchInv, IInv, TypeOK, SessionInv, ApplyAction, Session
<1>2. item[m].trigger = runs[item[m].run].verdict
  BY <1>1 DEF MatchInv, ItemMatchesRun
<1>3. /\ item' = [item EXCEPT ![m] = item'[m]]
      /\ item'[m].run = item[m].run /\ item'[m].trigger = item[m].trigger
  BY <1>1 DEF ApplyAction, MatchInv, IInv, TypeOK, ItemRow
<1>4. Done(a) /\ runs' = runs
  BY DEF ApplyAction
<1> HIDE DEF m
<1> QED BY <1>1, <1>2, <1>3, <1>4, WriteMatch

LEMMA NextMatch == MatchInv /\ AnalysesApart /\ [Next]_vars => MatchInv'
<1> SUFFICES ASSUME MatchInv, AnalysesApart, [Next]_vars PROVE MatchInv'
  OBVIOUS
<1>1. IInv'
  BY NextInv DEF MatchInv
<1>2. ASSUME NEW w \in Worker, NEW m \in Message, NEW verdict \in Verdict,
             Analyse(w, m, verdict)
      PROVE  MatchInv'
  BY <1>1, <1>2, AnalyseMatch
<1>3. ASSUME NEW s \in Session, Done(s), item' = item, runs' = runs
      PROVE  MatchInv'
  <2>1. /\ job'[s] = Idle /\ \A t \in Session \ {s} : job'[t] = job[t]
    BY <1>3, DoneType DEF MatchInv, IInv
  <2>2. job'[s].pc # "upsert"
    BY <2>1 DEF Idle
  <2> QED BY <1>1, <1>3, <2>1, <2>2, QuietMatch
<1>4. ASSUME NEW w \in Worker, WorkerStep(w) PROVE MatchInv'
  <2>1. CASE SelectItem(w)
    <3>1. /\ w \in Session /\ job[w] \in Job
          /\ job'[w].seen = item[job'[w].msg]
          /\ \A t \in Session \ {w} : job'[t] = job[t]
      BY <2>1 DEF SelectItem, MatchInv, IInv, TypeOK, Session, Job
    <3> QED BY <1>1, <2>1, <3>1, QuietMatch DEF SelectItem
  <2>2. CASE InsertConflict(w)
    BY <2>2, <1>3 DEF InsertConflict, Session
  <2> QED BY <1>1, <1>4, <2>1, <2>2, UpdateItemMatch, InsertItemMatch DEF WorkerStep
<1>5. ASSUME NEW a \in Analyst, NEW m \in Message, NEW action \in Action,
             LoadForAction(a, m, action)
      PROVE  MatchInv'
  <2>1. /\ a \in Session /\ job'[a].pc = "act"
        /\ \A t \in Session \ {a} : job'[t] = job[t]
    BY <1>5 DEF LoadForAction, Reviewing, MatchInv, IInv, TypeOK, Session
  <2> QED BY <1>1, <1>5, <2>1, QuietMatch DEF LoadForAction
<1>6. ASSUME NEW a \in Analyst, AnalystStep(a) PROVE MatchInv'
  <2>1. CASE RejectAction(a)
    BY <2>1, <1>3 DEF RejectAction, Session
  <2> QED BY <1>1, <1>6, <2>1, ApplyActionMatch DEF AnalystStep
<1>7. ASSUME NEW s \in Session, Crash(s) PROVE MatchInv'
  BY <1>7, <1>3 DEF Crash
<1>8. CASE UNCHANGED vars
  BY <1>1, <1>8 DEF vars, MatchInv, ItemMatchesRun, FreshTrigger
<1> QED BY <1>2, <1>4, <1>5, <1>6, <1>7, <1>8 DEF Next

(***************************************************************************)
(* Where no two analyses of one message overlap, trigger_verdict is the    *)
(* verdict of the run the item points to, whatever reviews and crashes     *)
(* fall between the reading and the write (get_or_create_quarantine_item). *)
(***************************************************************************)
THEOREM TriggerIsOfItsRun == Spec /\ []AnalysesApart => []ItemMatchesRun
<1>1. MatchInv => ItemMatchesRun
  BY DEF MatchInv
<1> QED BY <1>1, InitMatch, NextMatch, PTL DEF Spec

-------------------------------------------------------------------------------
(***************************************************************************)
(* The way to the queue.  The safety half of CondemnedReachesQueue: until  *)
(* a condemned message has its item, an analysis is on its way to insert   *)
(* it, and the way has two steps.  Only a handler that dies loses it.      *)
(***************************************************************************)
Condemned(m) ==
  \E r \in DOMAIN runs : /\ runs[r].msg = m
                         /\ ShouldQuarantine(runs[r].verdict, SoftHold)

Carries(w, m) == job[w].pc \in {"select", "upsert"} /\ job[w].msg = m

OnItsWay ==
  \A m \in Message :
    Condemned(m) => \/ item[m].status # "none"
                    \/ \E w \in Worker : Carries(w, m)
                    \/ crashes > 0

StepsLeft(j) == CASE j.pc = "select" -> 2 [] j.pc = "idle" -> 0 [] OTHER -> 1

WayInv == IInv /\ OnItsWay

LEMMA InitWay == Init => WayInv
<1> SUFFICES ASSUME Init PROVE WayInv
  OBVIOUS
<1>1. IInv
  BY InitInv
<1>2. OnItsWay
  BY DEF Init, OnItsWay, Condemned
<1> QED BY <1>1, <1>2 DEF WayInv

\* A handler ends: the message it carried, if any, has its item.
LEMMA EndWay ==
  ASSUME WayInv, IInv', NEW s \in Session, Done(s), runs' = runs,
         crashes' = crashes,
         \A m \in Message : item[m].status # "none" => item'[m].status # "none",
         job[s].pc \in {"select", "upsert"} => item'[job[s].msg].status # "none"
  PROVE  WayInv'
<1>1. /\ job'[s] = Idle /\ \A t \in Session \ {s} : job'[t] = job[t]
  BY DoneType DEF WayInv, IInv
<1>2. ASSUME NEW m \in Message, Condemned(m)', item'[m].status = "none",
             ~(crashes' > 0)
      PROVE  \E w \in Worker : Carries(w, m)'
  <2>1. PICK w \in Worker : Carries(w, m)
    BY <1>2 DEF WayInv, OnItsWay, Condemned
  <2>2. w # s
    BY <1>2, <2>1 DEF Carries
  <2> QED BY <1>1, <2>1, <2>2 DEF Carries, Session
<1> QED BY <1>2 DEF WayInv, OnItsWay

LEMMA AnalyseWay ==
  ASSUME WayInv, IInv', NEW w \in Worker, NEW m \in Message,
         NEW verdict \in Verdict, Analyse(w, m, verdict)
  PROVE  WayInv'
<1> DEFINE r == [msg |-> m, verdict |-> verdict]
<1>1. /\ DOMAIN runs' = DOMAIN runs \cup {Len(runs) + 1}
      /\ \A i \in DOMAIN runs : runs'[i] = runs[i]
      /\ runs'[Len(runs) + 1] = r
  <2>1. r \in [msg : Message, verdict : Verdict]
        /\ runs \in Seq([msg : Message, verdict : Verdict])
    BY DEF WayInv, IInv, TypeOK
  <2> QED BY <2>1, AppendFacts, LenProperties DEF Analyse
<1>2. /\ w \in Session /\ job[w].pc = "idle"
      /\ \A s \in Session \ {w} : job'[s] = job[s]
      /\ ShouldQuarantine(verdict, SoftHold) =>
           job'[w] = Condemning(m, Len(runs) + 1)
  BY DEF Analyse, WayInv, IInv, TypeOK, Session
<1>3. ASSUME NEW n \in Message, Condemned(n)', item'[n].status = "none",
             ~(crashes' > 0)
      PROVE  \E v \in Worker : Carries(v, n)'
  <2>1. CASE Condemned(n)
    <3>1. PICK v \in Worker : Carries(v, n)
      BY <1>3, <2>1 DEF WayInv, OnItsWay, Analyse
    <3> QED BY <1>2, <3>1 DEF Carries, Session
  <2>2. CASE ~Condemned(n)
    <3>1. n = m /\ ShouldQuarantine(verdict, SoftHold)
      BY <1>1, <1>3, <2>2 DEF Condemned
    <3>2. Carries(w, n)'
      BY <1>2, <3>1 DEF Carries, Condemning
    <3> QED BY <3>2
  <2> QED BY <2>1, <2>2
<1> QED BY <1>3 DEF WayInv, OnItsWay

LEMMA NextWay == WayInv /\ [Next]_vars => WayInv'
<1> SUFFICES ASSUME WayInv, [Next]_vars PROVE WayInv'
  OBVIOUS
<1>1. IInv /\ IInv'
  BY NextInv DEF WayInv
<1>2. ASSUME NEW w \in Worker, NEW m \in Message, NEW verdict \in Verdict,
             Analyse(w, m, verdict)
      PROVE  WayInv'
  BY <1>1, <1>2, AnalyseWay
<1>3. ASSUME NEW w \in Worker, WorkerStep(w) PROVE WayInv'
  <2>1. w \in Session /\ job[w] \in Job
    BY <1>1 DEF IInv, TypeOK, Session
  <2>2. CASE SelectItem(w)
    <3>1. \A v \in Worker, m \in Message : Carries(v, m) => Carries(v, m)'
      BY <1>1, <2>1, <2>2 DEF SelectItem, Carries, IInv, TypeOK, Session, Job
    <3> QED BY <1>1, <2>2, <3>1 DEF SelectItem, WayInv, OnItsWay, Condemned
  <2>3. CASE UpdateItem(w) \/ InsertItem(w) \/ InsertConflict(w)
    <3>1. job[w].msg \in Message /\ job[w].pc = "upsert"
      BY <1>1, <2>1, <2>3 DEF UpdateItem, InsertItem, InsertConflict, IInv, SessionInv
    <3>2. \A m \in Message : item[m].status # "none" => item'[m].status # "none"
      <4>1. CASE UpdateItem(w)
        <5>1. item[job[w].msg] \in ItemRow /\ item \in [Message -> ItemRow]
          BY <1>1, <3>1 DEF IInv, TypeOK
        <5>2. item'[job[w].msg].status = item[job[w].msg].status
          BY <3>1, <4>1, <5>1 DEF UpdateItem, ItemRow
        <5>3. \A m \in Message \ {job[w].msg} : item'[m] = item[m]
          BY <4>1, <5>1 DEF UpdateItem
        <5> QED BY <3>1, <5>2, <5>3
      <4>2. CASE InsertItem(w)
        BY <1>1, <3>1, <4>2 DEF InsertItem, IInv, TypeOK
      <4>3. CASE InsertConflict(w)
        BY <4>3 DEF InsertConflict
      <4> QED BY <2>3, <4>1, <4>2, <4>3
    <3>3. item'[job[w].msg].status # "none"
      <4>1. CASE UpdateItem(w)
        BY <1>1, <2>1, <3>1, <3>2, <4>1 DEF UpdateItem, IInv, SessionInv
      <4>2. CASE InsertItem(w)
        BY <1>1, <3>1, <4>2 DEF InsertItem, IInv, TypeOK
      <4>3. CASE InsertConflict(w)
        BY <4>3 DEF InsertConflict
      <4> QED BY <2>3, <4>1, <4>2, <4>3
    <3>4. Done(w) /\ runs' = runs /\ crashes' = crashes
      BY <2>3 DEF UpdateItem, InsertItem, InsertConflict
    <3> QED BY <1>1, <2>1, <3>2, <3>3, <3>4, EndWay
  <2> QED BY <1>3, <2>2, <2>3 DEF WorkerStep
<1>4. ASSUME NEW a \in Analyst, NEW m \in Message, NEW action \in Action,
             LoadForAction(a, m, action)
      PROVE  WayInv'
  <2>1. \A w \in Worker : job'[w] = job[w]
    BY <1>1, <1>4, QRConstants DEF LoadForAction, IInv, TypeOK, Session
  <2> QED BY <1>1, <1>4, <2>1 DEF LoadForAction, WayInv, OnItsWay, Condemned, Carries
<1>5. ASSUME NEW a \in Analyst, AnalystStep(a) PROVE WayInv'
  <2>1. a \in Session /\ job[a].pc = "act" /\ Done(a)
        /\ runs' = runs /\ crashes' = crashes
    BY <1>5 DEF AnalystStep, RejectAction, ApplyAction, Session
  <2>2. \A m \in Message : item[m].status # "none" => item'[m].status # "none"
    <3>1. CASE RejectAction(a)
      BY <3>1 DEF RejectAction
    <3>2. CASE ApplyAction(a)
      <4>1. Target(job[a].action) # "none" /\ job[a].msg \in Message
        BY <1>1, <2>1, TransitionFacts, StatusNotNone DEF IInv, SessionInv
      <4>2. item \in [Message -> ItemRow]
        BY <1>1 DEF IInv, TypeOK
      <4>3. \E reviewer : item' = [item EXCEPT ![job[a].msg].status = Target(job[a].action),
                                              ![job[a].msg].reviewer = reviewer]
        BY <3>2 DEF ApplyAction
      <4> QED BY <4>1, <4>2, <4>3 DEF ItemRow
    <3> QED BY <1>5, <3>1, <3>2 DEF AnalystStep
  <2>3. job[a].pc \notin {"select", "upsert"}
    BY <2>1
  <2> QED BY <1>1, <2>1, <2>2, <2>3, EndWay
<1>6. ASSUME NEW s \in Session, Crash(s) PROVE WayInv'
  BY <1>1, <1>6 DEF Crash, WayInv, OnItsWay, IInv, TypeOK
<1>7. CASE UNCHANGED vars
  BY <1>1, <1>7 DEF vars, WayInv, OnItsWay, Condemned, Carries
<1> QED BY <1>2, <1>3, <1>4, <1>5, <1>6, <1>7 DEF Next

(***************************************************************************)
(* A message whose analysis called for quarantine has its item, or an      *)
(* analysis that is going to see to it, whatever other handlers do: also a *)
(* lost race for the insertion leaves the message in the queue             *)
(* (get_or_create_quarantine_item).  A handler that dies may lose it.      *)
(***************************************************************************)
THEOREM CondemnedIsOnItsWay == Spec => []OnItsWay
<1>1. WayInv => OnItsWay
  BY DEF WayInv
<1> QED BY <1>1, InitWay, NextWay, PTL DEF Spec

\* Each step of an analysis on its way leaves it one step less, two at most.
LEMMA WayGetsShorter ==
  ASSUME IInv, NEW w \in Worker, WorkerStep(w)
  PROVE  /\ StepsLeft(job[w]) \in {1, 2}
         /\ StepsLeft(job'[w]) = StepsLeft(job[w]) - 1
<1>1. w \in Session /\ job \in [Session -> Job]
  BY DEF IInv, TypeOK, Session
<1>2. CASE SelectItem(w)
  BY <1>1, <1>2 DEF SelectItem, StepsLeft, Job
<1>3. CASE UpdateItem(w) \/ InsertItem(w) \/ InsertConflict(w)
  <2>1. job[w].pc = "upsert" /\ Done(w)
    BY <1>3 DEF UpdateItem, InsertItem, InsertConflict
  <2>2. job'[w] = Idle
    BY <1>1, <2>1 DEF Done
  <2> QED BY <2>1, <2>2 DEF StepsLeft, Idle
<1> QED BY <1>2, <1>3 DEF WorkerStep

(***************************************************************************)
(* And each of its steps brings it nearer: no analysis goes round in       *)
(* circles on its way (SelectItem, UpdateItem, InsertItem, InsertConflict).*)
(***************************************************************************)
THEOREM WayIsShort ==
  Spec => [][\A w \in Worker : WorkerStep(w) =>
               /\ StepsLeft(job[w]) \in {1, 2}
               /\ StepsLeft(job'[w]) = StepsLeft(job[w]) - 1]_vars
<1> DEFINE A == \A w \in Worker : WorkerStep(w) =>
                  /\ StepsLeft(job[w]) \in {1, 2}
                  /\ StepsLeft(job'[w]) = StepsLeft(job[w]) - 1
<1>1. IInv /\ [Next]_vars => [A]_vars
  BY WayGetsShorter
<1> QED BY <1>1, InvariantHolds, PTL DEF Spec
================================================================================
