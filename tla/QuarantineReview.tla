--------------------------- MODULE QuarantineReview ---------------------------
(***************************************************************************)
(* The quarantine of Mindwall: app/quarantine/service.py, the handlers of  *)
(* app/quarantine/router.py, the audit events of app/audit/service.py and  *)
(* the auto-quarantine step at the end of app/analysis/service.py.         *)
(*                                                                         *)
(* Two kinds of request handlers share the database: analysts review an    *)
(* item, workers analyse (or re-analyse) a message and create or refresh   *)
(* its item.  Each handler has a session of its own: it reads a row, then, *)
(* some awaits later, writes what it decided from that reading.  There is  *)
(* no row lock and no version column, so between the two steps any other   *)
(* handler may commit.  A write and its audit event are one transaction    *)
(* and the row stays locked from the UPDATE to the COMMIT, so the write is *)
(* one atomic step here.                                                   *)
(*                                                                         *)
(* The mapper (SQLAlchemy) sends only the columns whose value differs from *)
(* the one the session read.                                               *)
(*                                                                         *)
(* A definition whose comment starts with "Mutant" is not part of the      *)
(* model: it is the one after it with a plausible bug, and the properties  *)
(* are tested against it.                                                  *)
(***************************************************************************)
EXTENDS PolicyVerdict, Naturals, Sequences

CONSTANTS
  Message,      \* messages that can be analysed
  Analyst,      \* review request handlers; one analyst each
  Worker,       \* analysis request handlers
  NoOne,        \* the null user id of system events
  SoftHold,     \* the setting quarantine_soft_hold
  MaxRuns,      \* bound: analysis runs
  MaxRequests,  \* bound: review requests
  MaxCrashes    \* bound: handlers that die between two steps

ASSUME QRConstants ==
  /\ Analyst \cap Worker = {}
  /\ NoOne \notin Analyst \cup Worker
  /\ SoftHold \in BOOLEAN
  /\ MaxRuns \in Nat /\ MaxRequests \in Nat /\ MaxCrashes \in Nat

VARIABLES
  item,      \* quarantine_items: one row, or none, for each message
  runs,      \* analysis_runs: the committed runs, by id
  audit,     \* audit_events: for each message, in commit order
  job,       \* what each handler is doing and what it has read
  requests,  \* review requests so far
  crashes    \* handlers lost so far

vars == <<item, runs, audit, job, requests, crashes>>

Session == Analyst \cup Worker

Undecided == {"pending_review", "in_review"}
Status == Undecided \cup {"released", "false_positive",
                          "confirmed_malicious", "deleted"}

Action == {"mark_in_review", "release", "mark_false_positive",
           "confirm_malicious", "delete"}

\* Mutant: any undeleted item can be decided again.
ValidFromAnyStatus(action) == Status \ {"deleted"}

(***************************************************************************)
(* _VALID_TRANSITIONS: the statuses an action is allowed from, and the one *)
(* it leads to.                                                            *)
(***************************************************************************)
ValidFrom(action) ==
  CASE action = "mark_in_review" -> {"pending_review"}
    [] action = "delete"         -> Status \ {"deleted"}
    [] OTHER                     -> Undecided

\* Mutant: the name of the action is stored as the status.
TargetNamesAction(action) ==
  CASE action = "mark_in_review"      -> "in_review"
    [] action = "release"             -> "released"
    [] action = "mark_false_positive" -> "false_positive"
    [] action = "confirm_malicious"   -> "confirmed_malicious"
    [] action = "delete"              -> "delete"

Target(action) ==
  CASE action = "mark_in_review"      -> "in_review"
    [] action = "release"             -> "released"
    [] action = "mark_false_positive" -> "false_positive"
    [] action = "confirm_malicious"   -> "confirmed_malicious"
    [] action = "delete"              -> "deleted"

ItemRow == [status   : Status \cup {"none"},
            run      : Nat,
            trigger  : Verdict \cup {"none"},
            reviewer : Analyst \cup {NoOne}]

NoItem == [status |-> "none", run |-> 0, trigger |-> "none", reviewer |-> NoOne]

Event == [action : Action \cup {"created", "updated"},
          actor  : Session \cup {NoOne},
          from   : Status \cup {"none"},
          to     : Status]

Job == [pc     : {"idle", "select", "upsert", "act"},
        msg    : Message \cup {"none"},
        seen   : ItemRow,
        action : Action \cup {"none"},
        run    : Nat]

Idle == [pc |-> "idle", msg |-> "none", seen |-> NoItem,
         action |-> "none", run |-> 0]

\* A handler that has read the item of m, to take an action on it.
Reviewing(m, action) ==
  [pc |-> "act", msg |-> m, seen |-> item[m], action |-> action, run |-> 0]

\* Mutant: the id of the run before is passed on.
CondemningPreviousRun(m, r) ==
  [pc |-> "select", msg |-> m, seen |-> NoItem, action |-> "none", run |-> r - 1]

\* A handler whose analysis, run r, calls for the quarantine of m.
Condemning(m, r) ==
  [pc |-> "select", msg |-> m, seen |-> NoItem, action |-> "none", run |-> r]

TypeOK ==
  /\ item \in [Message -> ItemRow]
  /\ runs \in Seq([msg : Message, verdict : Verdict])
  /\ audit \in [Message -> Seq(Event)]
  /\ job \in [Session -> Job]
  /\ requests \in Nat
  /\ crashes \in Nat

Init ==
  /\ item = [m \in Message |-> NoItem]
  /\ runs = <<>>
  /\ audit = [m \in Message |-> <<>>]
  /\ job = [s \in Session |-> Idle]
  /\ requests = 0
  /\ crashes = 0

\* record_event: the event joins the transaction of the change it records.
Record(m, event) == audit' = [audit EXCEPT ![m] = Append(@, event)]

\* The handler returns, or its session is rolled back.
Done(s) == job' = [job EXCEPT ![s] = Idle]

-------------------------------------------------------------------------------
(* Analysis and auto-quarantine *)

\* Mutant: the setting quarantine_soft_hold is not passed on.
AnalyseIgnoringSoftHold(w, m, verdict) ==
  /\ job[w].pc = "idle"
  /\ Len(runs) < MaxRuns
  /\ runs' = Append(runs, [msg |-> m, verdict |-> verdict])
  /\ job' = IF ShouldQuarantine(verdict, FALSE)
            THEN [job EXCEPT ![w] = Condemning(m, Len(runs) + 1)]
            ELSE job
  /\ UNCHANGED <<item, audit, requests, crashes>>

\* Mutant: every analysed message is quarantined.
AnalyseCondemnsAll(w, m, verdict) ==
  /\ job[w].pc = "idle"
  /\ Len(runs) < MaxRuns
  /\ runs' = Append(runs, [msg |-> m, verdict |-> verdict])
  /\ job' = [job EXCEPT ![w] = Condemning(m, Len(runs) + 1)]
  /\ UNCHANGED <<item, audit, requests, crashes>>

(***************************************************************************)
(* run_analysis up to the commit of the AnalysisRun.  A verdict that does  *)
(* not call for quarantine ends the handler there.                         *)
(***************************************************************************)
Analyse(w, m, verdict) ==
  /\ job[w].pc = "idle"
  /\ Len(runs) < MaxRuns
  /\ runs' = Append(runs, [msg |-> m, verdict |-> verdict])
  /\ job' = IF ShouldQuarantine(verdict, SoftHold)
            THEN [job EXCEPT ![w] = Condemning(m, Len(runs) + 1)]
            ELSE job
  /\ UNCHANGED <<item, audit, requests, crashes>>

\* get_or_create_quarantine_item: SELECT the item of the message.
SelectItem(w) ==
  /\ job[w].pc = "select"
  /\ job' = [job EXCEPT ![w].pc = "upsert", ![w].seen = item[job[w].msg]]
  /\ UNCHANGED <<item, runs, audit, requests, crashes>>

\* Mutant: a re-analysis puts the item back in the queue.
UpdateItemReopens(w) ==
  LET m == job[w].msg IN
  /\ job[w].pc = "upsert"
  /\ job[w].seen.status # "none"
  /\ item' = [item EXCEPT ![m].run = job[w].run,
                          ![m].status = "pending_review"]
  /\ Record(m, [action |-> "updated", actor |-> w,
                from |-> job[w].seen.status, to |-> "pending_review"])
  /\ Done(w)
  /\ UNCHANGED <<runs, requests, crashes>>

\* get_or_create_quarantine_item, existing row: refresh it, keep its status.
UpdateItem(w) ==
  LET m == job[w].msg
      seen == job[w].seen
      verdict == runs[job[w].run].verdict
  IN
  /\ job[w].pc = "upsert"
  /\ seen.status # "none"
  /\ item' = [item EXCEPT
                ![m].run = job[w].run,
                ![m].trigger = IF seen.trigger # verdict THEN verdict ELSE @]
  /\ Record(m, [action |-> "updated", actor |-> w,
                from |-> seen.status, to |-> seen.status])
  /\ Done(w)
  /\ UNCHANGED <<runs, requests, crashes>>

\* Mutant: message_id is not unique, a second insert replaces the row.
InsertItemAgain(w) ==
  LET m == job[w].msg IN
  /\ job[w].pc = "upsert"
  /\ job[w].seen.status = "none"
  /\ item' = [item EXCEPT ![m] =
                [status |-> "pending_review", run |-> job[w].run,
                 trigger |-> runs[job[w].run].verdict, reviewer |-> NoOne]]
  /\ Record(m, [action |-> "created", actor |-> w,
                from |-> "none", to |-> "pending_review"])
  /\ Done(w)
  /\ UNCHANGED <<runs, requests, crashes>>

\* get_or_create_quarantine_item, no row: insert it as pending review.
InsertItem(w) ==
  LET m == job[w].msg IN
  /\ job[w].pc = "upsert"
  /\ job[w].seen.status = "none"
  /\ item[m].status = "none"
  /\ item' = [item EXCEPT ![m] =
                [status |-> "pending_review", run |-> job[w].run,
                 trigger |-> runs[job[w].run].verdict, reviewer |-> NoOne]]
  /\ Record(m, [action |-> "created", actor |-> w,
                from |-> "none", to |-> "pending_review"])
  /\ Done(w)
  /\ UNCHANGED <<runs, requests, crashes>>

(***************************************************************************)
(* The same, but another analysis of this message inserted its item first: *)
(* message_id is unique, the flush fails, run_analysis logs the exception. *)
(***************************************************************************)
InsertConflict(w) ==
  /\ job[w].pc = "upsert"
  /\ job[w].seen.status = "none"
  /\ item[job[w].msg].status # "none"
  /\ Done(w)
  /\ UNCHANGED <<item, runs, audit, requests, crashes>>

-------------------------------------------------------------------------------
(* Review *)

\* quarantine_action: POST; load the item the action is about.
LoadForAction(a, m, action) ==
  /\ job[a].pc = "idle"
  /\ item[m].status # "none"
  /\ requests < MaxRequests
  /\ requests' = requests + 1
  /\ job' = [job EXCEPT ![a] = Reviewing(m, action)]
  /\ UNCHANGED <<item, runs, audit, crashes>>

\* apply_action raises InvalidTransitionError: the route answers 409.
RejectAction(a) ==
  /\ job[a].pc = "act"
  /\ job[a].seen.status \notin ValidFrom(job[a].action)
  /\ Done(a)
  /\ UNCHANGED <<item, runs, audit, requests, crashes>>

\* Mutant: the first reviewer stays the reviewer.
ApplyActionKeepsReviewer(a) ==
  LET m == job[a].msg
      seen == job[a].seen
      target == Target(job[a].action)
  IN
  /\ job[a].pc = "act"
  /\ seen.status \in ValidFrom(job[a].action)
  /\ item' = [item EXCEPT
                ![m].status = target,
                ![m].reviewer = IF seen.reviewer = NoOne THEN a ELSE @]
  /\ Record(m, [action |-> job[a].action, actor |-> a,
                from |-> seen.status, to |-> target])
  /\ Done(a)
  /\ UNCHANGED <<runs, requests, crashes>>

(***************************************************************************)
(* apply_action: the status, the reviewer (unless the item is only marked  *)
(* in review and somebody already reviewed it) and the audit event.        *)
(***************************************************************************)
ApplyAction(a) ==
  LET m == job[a].msg
      seen == job[a].seen
      action == job[a].action
      target == Target(action)
      signs == action # "mark_in_review" \/ seen.reviewer = NoOne
  IN
  /\ job[a].pc = "act"
  /\ seen.status \in ValidFrom(action)
  /\ item' = [item EXCEPT
                ![m].status = target,
                ![m].reviewer = IF signs /\ seen.reviewer # a THEN a ELSE @]
  /\ Record(m, [action |-> action, actor |-> a,
                from |-> seen.status, to |-> target])
  /\ Done(a)
  /\ UNCHANGED <<runs, requests, crashes>>

-------------------------------------------------------------------------------
\* The process dies, or the connection drops: the session is rolled back.
Crash(s) ==
  /\ job[s].pc # "idle"
  /\ crashes < MaxCrashes
  /\ crashes' = crashes + 1
  /\ Done(s)
  /\ UNCHANGED <<item, runs, audit, requests>>

\* Steps a handler takes by itself once it has been called.
WorkerStep(w) ==
  SelectItem(w) \/ UpdateItem(w) \/ InsertItem(w) \/ InsertConflict(w)

AnalystStep(a) == RejectAction(a) \/ ApplyAction(a)

Next ==
  \/ \E w \in Worker :
       \/ \E m \in Message, verdict \in Verdict : Analyse(w, m, verdict)
       \/ WorkerStep(w)
  \/ \E a \in Analyst :
       \/ \E m \in Message, action \in Action : LoadForAction(a, m, action)
       \/ AnalystStep(a)
  \/ \E s \in Session : Crash(s)

Spec == Init /\ [][Next]_vars

\* A handler that has been called runs on; nobody has to call one.
Fairness ==
  /\ \A w \in Worker : WF_vars(WorkerStep(w))
  /\ \A a \in Analyst : WF_vars(AnalystStep(a))

(***************************************************************************)
(* One review at a time: no action is loaded while another is pending.     *)
(* The code does not enforce this; it is the regime of one analyst on      *)
(* shift.  Re-analysis still runs concurrently with the review.            *)
(***************************************************************************)
OneReviewAtATime ==
  \A a, b \in Analyst : job'[a].pc = "act" /\ job'[b].pc = "act" => a = b

SerialSpec == Init /\ [][Next /\ OneReviewAtATime]_vars /\ Fairness
-------------------------------------------------------------------------------
(* Properties *)

\* A change of status: every event except the note left by a re-analysis.
IsDecision(event) == event.action # "updated"

DecisionIndex(m) == {i \in DOMAIN audit[m] : IsDecision(audit[m][i])}

\* Event i of message m is its last decision.
IsLastDecision(m, i) ==
  /\ i \in DecisionIndex(m)
  /\ \A j \in DecisionIndex(m) : j <= i

(***************************************************************************)
(* What a handler still holds when it comes to write: a message, the       *)
(* committed run of that message that called for quarantine, and an item,  *)
(* if it saw one, that still exists.                                       *)
(***************************************************************************)
SessionInv ==
  \A s \in Session : job[s].pc # "idle" =>
    /\ job[s].msg \in Message
    /\ job[s].pc \in {"select", "upsert"} =>
         /\ job[s].run \in DOMAIN runs
         /\ runs[job[s].run].msg = job[s].msg
         /\ ShouldQuarantine(runs[job[s].run].verdict, SoftHold)
    /\ job[s].pc = "act" =>
         job[s].action \in Action /\ job[s].seen.status # "none"
    /\ job[s].seen.status # "none" => item[job[s].msg].status # "none"

(***************************************************************************)
(* Status and audit trail are written in one transaction: whatever the     *)
(* interleaving of stale readers, the status of an item is the one its     *)
(* last recorded decision led to, and an item without a decision does not  *)
(* exist (apply_action, record_event).                                     *)
(***************************************************************************)
StatusIsLastDecision ==
  \A m \in Message :
    IF item[m].status = "none"
    THEN audit[m] = <<>>
    ELSE \E i \in DOMAIN audit[m] :
           IsLastDecision(m, i) /\ audit[m][i].to = item[m].status

(***************************************************************************)
(* An item always points to a committed analysis of its own message whose  *)
(* verdict calls for quarantine, also when analyses of the same message    *)
(* race for the unique row (get_or_create_quarantine_item).                *)
(***************************************************************************)
ItemRunCondemned ==
  \A m \in Message : item[m].status # "none" =>
    /\ item[m].run \in DOMAIN runs
    /\ runs[item[m].run].msg = m
    /\ ShouldQuarantine(runs[item[m].run].verdict, SoftHold)

(***************************************************************************)
(* A message enters quarantine once: its trail starts with the creation of *)
(* the item and records no second one, however many analyses race.         *)
(***************************************************************************)
CreatedOnce ==
  \A m \in Message : \A i \in DOMAIN audit[m] :
    audit[m][i].action = "created" <=> i = 1

(***************************************************************************)
(* trigger_verdict is the verdict of the run the item points to: the two   *)
(* columns of get_or_create_quarantine_item belong together.               *)
(***************************************************************************)
ItemMatchesRun ==
  \A m \in Message : item[m].status # "none" =>
    item[m].trigger = runs[item[m].run].verdict

(***************************************************************************)
(* Each decision starts from the status the previous one led to: the audit *)
(* trail of an item is a path of the state machine (_VALID_TRANSITIONS).   *)
(***************************************************************************)
AuditChainUnbroken ==
  \A m \in Message : \A i, j \in DecisionIndex(m) :
    i < j /\ (\A k \in DecisionIndex(m) : ~(i < k /\ k < j))
      => audit[m][j].from = audit[m][i].to

\* The reviewer of an item is the analyst who took its last decision.
ReviewerMadeLastDecision ==
  \A m \in Message : \A i \in DOMAIN audit[m] :
    IsLastDecision(m, i) =>
      item[m].reviewer = IF audit[m][i].action = "created"
                         THEN NoOne ELSE audit[m][i].actor

(***************************************************************************)
(* A message whose analysis calls for quarantine gets its item.            *)
(***************************************************************************)
CondemnedReachesQueue ==
  \A m \in Message :
    (\E r \in DOMAIN runs : /\ runs[r].msg = m
                            /\ ShouldQuarantine(runs[r].verdict, SoftHold))
      ~> item[m].status # "none"

\* Seen as a function from messages to statuses, the quarantine implements
\* the strict state machine of ReviewLifecycle.
Lifecycle == INSTANCE ReviewLifecycle
               WITH status <- [m \in Message |-> item[m].status]

ImplementsLifecycle == Lifecycle!Spec
================================================================================
