--------------------------- MODULE AnalysisPipeline ---------------------------
(***************************************************************************)
(* The analyses of one message: run_analysis of app/analysis/service.py    *)
(* with the client of app/analysis/ollama_client.py, as the handler        *)
(* analyze_message of app/messages/router.py and the sync call it.         *)
(*                                                                         *)
(* An analysis asks the language model, which may answer, answer something *)
(* that is no answer (it is asked once more), fail or stay silent; then it *)
(* commits a run and, in a second transaction, the quarantine item.        *)
(* Several analyses of the message may run at the same time, and each step *)
(* may fail or be the last one of its process.                             *)
(*                                                                         *)
(* A definition whose comment starts with "Mutant" is not part of the      *)
(* model: it is the one after it with a plausible bug.                     *)
(***************************************************************************)
EXTENDS VerdictScoring, Sequences

CONSTANTS
  Handler,     \* analyses that may run at the same time
  Mails,       \* the messages to consider: facts the checks look for
  Raws,        \* the texts the model may return
  Thresholds,  \* the settings verdict_threshold_*
  Gateway,     \* the setting gateway_mode
  SoftHold,    \* the setting quarantine_soft_hold
  MaxRuns      \* bound: analyses

ASSUME APConstants ==
  /\ Mails \subseteq Message
  /\ Thresholds \in [allow : 0 .. One, allow_with_banner : 0 .. One,
                     soft_hold : 0 .. One, quarantine : 0 .. One]
  /\ Gateway \in BOOLEAN /\ SoftHold \in BOOLEAN
  /\ MaxRuns \in Nat

\* A number may be missing; one that is there need not be a score.
ASSUME RawsAreTexts ==
  \A raw \in Raws :
    /\ raw.risk = << >> \/ raw.risk[1] \in Int
    /\ raw.confidence = << >> \/ raw.confidence[1] \in Int
    /\ \A d \in DOMAIN raw.dims : raw.dims[d] \in Int

VARIABLES
  mail,     \* the message
  llm,      \* is there a model to ask?
  job,      \* what each handler is doing
  runs,     \* analysis_runs of the message, in the order of their commits
  started,  \* analyses so far
  queued,   \* the runs that created or refreshed the quarantine item
  lost      \* the runs whose quarantine step failed, or never came

vars == <<mail, llm, job, runs, started, queued, lost>>

(***************************************************************************)
(* "off": llm_enabled is not set; "remote": it is, but the client refuses  *)
(* a base URL that is not local, and there is none.                        *)
(***************************************************************************)
Model == {"on", "off", "remote"}

\* What came back for a request to the model.
Reply == {"valid", "malformed", "error"}

Talk == UNION {[1 .. n -> Reply] : n \in 0 .. 2}

Score == 0 .. One

Answer == [risk : Score, confidence : Score, dims : [Dimension -> Score]]

Checks == [risk : Score, dims : [Dimension -> Score]]

NoChecks == [risk |-> 0, dims |-> [d \in Dimension |-> 0]]

Idle == [pc |-> "idle", checks |-> NoChecks, talk |-> << >>, answer |-> << >>, run |-> 0]

Job == [pc : {"idle", "ask", "retry", "persist", "quarantine"}, checks : Checks,
        talk : Talk, answer : Seq(Answer), run : Nat]

Run == [status : {"complete", "degraded"}, provider : {"ollama", "none"}, named : BOOLEAN,
        det : Score, llm : Seq(Score), risk : Score, confidence : Score,
        verdict : Verdict, dims : [Dimension -> Score], talk : Talk]

TypeOK ==
  /\ mail \in Mails
  /\ llm \in Model
  /\ job \in [Handler -> Job]
  /\ runs \in Seq(Run)
  /\ started \in 0 .. MaxRuns
  /\ queued \cup lost \subseteq DOMAIN runs

-----------------------------------------------------------------------------
\* A request to analyse the message: the checks come first.
Start(h) ==
  /\ job[h].pc = "idle"
  /\ started < MaxRuns
  /\ started' = started + 1
  /\ job' = [job EXCEPT ![h] =
       [Idle EXCEPT !.pc = IF llm = "on" THEN "ask" ELSE "persist",
                    !.checks = RunDeterministicChecks(mail)]]
  /\ UNCHANGED <<mail, llm, runs, queued, lost>>

\* The conversation goes on, or is over, with an answer or without.
Hear(h, reply, pc, answer) ==
  /\ job[h].pc \in {"ask", "retry"}
  /\ job' = [job EXCEPT ![h] = [job[h] EXCEPT !.pc = pc, !.answer = answer,
                                              !.talk = Append(@, reply)]]
  /\ UNCHANGED <<mail, llm, runs, started, queued, lost>>

\* Mutant: two texts that are no answer, and it starts from the beginning.
ReceiveAgain(h, raw) ==
  LET parsed == ParseLlmResponse(raw)
  IN  CASE parsed # << >> -> Hear(h, "valid", "persist", parsed)
        [] parsed = << >> /\ job[h].pc = "ask" -> Hear(h, "malformed", "retry", << >>)
        [] OTHER -> /\ job[h].pc = "retry"
                    /\ job' = [job EXCEPT ![h].pc = "ask", ![h].talk = << >>]
                    /\ UNCHANGED <<mail, llm, runs, started, queued, lost>>

(***************************************************************************)
(* The model returns a text.  The first one that is no answer leads to the *)
(* strict retry, the second to a degraded run.                             *)
(***************************************************************************)
Receive(h, raw) ==
  LET parsed == ParseLlmResponse(raw)
  IN  CASE parsed # << >> -> Hear(h, "valid", "persist", parsed)
        [] parsed = << >> /\ job[h].pc = "ask" -> Hear(h, "malformed", "retry", << >>)
        [] OTHER -> Hear(h, "malformed", "persist", << >>)

\* Mutant: a request that failed is repeated as well.
FailRetrying(h) == Hear(h, "error", IF job[h].pc = "ask" THEN "retry" ELSE "persist", << >>)

\* No connection, a status other than 200, no JSON, or 120 seconds over.
Fail(h) == Hear(h, "error", "persist", << >>)

\* Mutant: the model's score where it has one, as _combine_scores returns it.
StoredDimensionModel(checks, answer, d) ==
  IF answer # << >> THEN answer[1].dims[d] ELSE checks.dims[d]

\* The larger of the two scores of a dimension.
StoredDimension(checks, answer, d) ==
  Max({CombineScores(checks.risk, answer).dims[d], checks.dims[d]})

\* The row of an analysis, with the conversation it was made from.
NewRun(checks, talk, answer) ==
  LET degraded == llm # "on" \/ answer = << >>
      combined == CombineScores(checks.risk, answer)
  IN  [status |-> IF degraded THEN "degraded" ELSE "complete",
       provider |-> IF llm # "off" /\ ~degraded THEN "ollama" ELSE "none",
       named |-> talk # << >> /\ talk[1] # "error",
       det |-> checks.risk,
       llm |-> IF answer = << >> THEN << >> ELSE <<answer[1].risk>>,
       risk |-> combined.risk, confidence |-> combined.confidence,
       verdict |-> ComputeVerdict(combined.risk, combined.confidence, degraded,
                                  Thresholds, Gateway),
       dims |-> [d \in Dimension |-> StoredDimension(checks, answer, d)],
       talk |-> talk]

\* Mutant: soft holds are left to the next analysis.
PersistIgnoringSoftHold(h) ==
  LET run == NewRun(job[h].checks, job[h].talk, job[h].answer)
  IN  /\ job[h].pc = "persist"
      /\ runs' = Append(runs, run)
      /\ job' = [job EXCEPT ![h] = IF ShouldQuarantine(run.verdict, FALSE)
                                   THEN [Idle EXCEPT !.pc = "quarantine", !.run = Len(runs')]
                                   ELSE Idle]
      /\ UNCHANGED <<mail, llm, started, queued, lost>>

\* The run and its dimension scores are committed.
Persist(h) ==
  LET run == NewRun(job[h].checks, job[h].talk, job[h].answer)
  IN  /\ job[h].pc = "persist"
      /\ runs' = Append(runs, run)
      /\ job' = [job EXCEPT ![h] = IF ShouldQuarantine(run.verdict, SoftHold)
                                   THEN [Idle EXCEPT !.pc = "quarantine", !.run = Len(runs')]
                                   ELSE Idle]
      /\ UNCHANGED <<mail, llm, started, queued, lost>>

\* The item is created or refreshed: see QuarantineReview.
Quarantine(h) ==
  /\ job[h].pc = "quarantine"
  /\ queued' = queued \cup {job[h].run}
  /\ job' = [job EXCEPT ![h] = Idle]
  /\ UNCHANGED <<mail, llm, runs, started, lost>>

\* A failure of the quarantine step is logged; the run stays.
QuarantineFails(h) ==
  /\ job[h].pc = "quarantine"
  /\ lost' = lost \cup {job[h].run}
  /\ job' = [job EXCEPT ![h] = Idle]
  /\ UNCHANGED <<mail, llm, runs, started, queued>>

\* The process or the database fails before the run is committed.
Vanish(h) ==
  /\ job[h].pc \in {"ask", "retry", "persist"}
  /\ job' = [job EXCEPT ![h] = Idle]
  /\ UNCHANGED <<mail, llm, runs, started, queued, lost>>

Init ==
  /\ mail \in Mails
  /\ llm \in Model
  /\ job = [h \in Handler |-> Idle]
  /\ runs = << >>
  /\ started = 0
  /\ queued = {}
  /\ lost = {}

\* What a handler does of itself once it was started.
Advance(h) ==
  \/ \E raw \in Raws : Receive(h, raw)
  \/ Fail(h)
  \/ Persist(h)
  \/ Quarantine(h)
  \/ QuarantineFails(h)

Next == \E h \in Handler : Start(h) \/ Advance(h) \/ Vanish(h)

Spec == Init /\ [][Next]_vars

(***************************************************************************)
(* The model answers or the timeout does, the database commits or fails.   *)
(***************************************************************************)
FairSpec == Spec /\ \A h \in Handler : WF_vars(Advance(h))

-----------------------------------------------------------------------------
(***************************************************************************)
(* A run says where it comes from.  It is complete, names the model as its *)
(* provider and has a score of the model exactly when the last text the    *)
(* model returned was an answer; the name of the model is there whenever   *)
(* it returned a text.  The model is asked twice at most, and a second     *)
(* time only after a text that was no answer.                              *)
(***************************************************************************)
RunTellsItsSource ==
  \A i \in DOMAIN runs :
    LET r == runs[i]
        answered == r.talk # << >> /\ r.talk[Len(r.talk)] = "valid"
    IN  /\ (r.status = "complete") <=> answered
        /\ (r.provider = "ollama") <=> answered
        /\ (r.llm # << >>) <=> answered
        /\ r.named <=> (\E k \in DOMAIN r.talk : r.talk[k] # "error")
        /\ Len(r.talk) = 2 => r.talk[1] = "malformed"

\* No dimension of the run r is scored below a finding that targets it.
DimensionsShowFindings(r) ==
  \A f \in Findings(mail) : \A d \in DimensionsOf(f.rule) : r.dims[d] >= 100 * f.severity

(***************************************************************************)
(* The model cannot talk hard evidence away.  Whatever it answers, no      *)
(* dimension is scored below a finding that targets it, and with the       *)
(* thresholds of the settings a message with an attachment of a high-risk  *)
(* type never gets the verdict `allow'; without an answer it goes to       *)
(* quarantine.                                                             *)
(***************************************************************************)
EvidenceHolds ==
  \A i \in DOMAIN runs :
    /\ DimensionsShowFindings(runs[i])
    /\ mail.high > 0 =>
         /\ runs[i].verdict # "allow"
         /\ runs[i].status = "degraded" => Strictness(runs[i].verdict) >= 3

(***************************************************************************)
(* Verdicts on the same message are in the order of what is known: of two  *)
(* answers of the model the one with the higher risk gets no laxer         *)
(* verdict, and an analysis without an answer is no laxer than one whose   *)
(* answer sees no more risk than the checks did.                           *)
(*                                                                         *)
(* A run with confidence below 0.5 is not compared with a sure one of a    *)
(* higher risk: docs/policy-engine.md:59 adds a tenth to every such run,   *)
(* answered or not, and may make it the stricter of the two; EffectiveRisk *)
(* adds it to the degraded ones only.                                      *)
(***************************************************************************)
StricterWhenUnsure ==
  \A i, j \in DOMAIN runs :
    LET r == runs[i]
        s == runs[j]
    IN  /\ r.llm # << >>
        /\ r.confidence < 5000 => s.confidence < 5000
        /\ r.llm[1] <= (IF s.llm = << >> THEN r.det ELSE s.llm[1])
        => Strictness(r.verdict) <= Strictness(s.verdict)

(***************************************************************************)
(* A message that an analysis condemns is in the quarantine queue, unless  *)
(* the step is still to come or failed after the run was committed; and it *)
(* is in the queue for no other reason.                                    *)
(***************************************************************************)
CondemnedReachesQueue ==
  LET condemned == {i \in DOMAIN runs : ShouldQuarantine(runs[i].verdict, SoftHold)}
      pending   == {job[h].run : h \in {g \in Handler : job[g].pc = "quarantine"}}
  IN  condemned = queued \cup lost \cup pending

(***************************************************************************)
(* Every analysis ends, whatever the model returns and however often.      *)
(***************************************************************************)
EveryAnalysisEnds == \A h \in Handler : job[h].pc # "idle" ~> job[h].pc = "idle"
================================================================================
