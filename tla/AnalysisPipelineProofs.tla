------------------------ MODULE AnalysisPipelineProofs ------------------------
(***************************************************************************)
(* The analyses of a message, for any number of handlers, any thresholds   *)
(* and whatever texts the model returns: what is stored are scores, a run  *)
(* tells where it comes from, verdicts are ordered as their risks, no      *)
(* finding of the checks is lost, hard evidence keeps a message from being *)
(* allowed, a condemned message is queued, and every analysis ends.        *)
(*                                                                         *)
(* The argument: every committed run is NewRun of the checks of the        *)
(* message and of a conversation with the model, neither of which changes  *)
(* between the steps of a handler.  What the checks score is a mean of the *)
(* findings' severities, bounded by induction over the finite set of them. *)
(***************************************************************************)
EXTENDS AnalysisPipeline, NumberFacts, SequenceTheorems

\* What came of asking the model: the talk, and its answer if it gave one.
Conversation(talk, answer) ==
  IF llm = "on"
  THEN \E last \in Reply : /\ talk = <<last>> \/ talk = <<"malformed", last>>
                           /\ (last = "valid") <=> (answer # << >>)
  ELSE talk = << >> /\ answer = << >>

\* A job between two steps.
JobInv(j) ==
  /\ j.pc \in {"ask", "retry", "persist"} => j.checks = RunDeterministicChecks(mail)
  /\ j.pc \in {"ask", "retry"} => llm = "on" /\ j.answer = << >>
  /\ j.pc = "ask" => j.talk = << >>
  /\ j.pc = "retry" => j.talk = <<"malformed">>
  /\ j.pc = "persist" => Conversation(j.talk, j.answer)

\* A committed run.
RunInv(r) ==
  \E talk \in Talk, answer \in Seq(Answer) :
    /\ Conversation(talk, answer)
    /\ r = NewRun(RunDeterministicChecks(mail), talk, answer)

(***************************************************************************)
(* The inductive invariant of the analyses.                                *)
(***************************************************************************)
PipelineInv ==
  /\ TypeOK
  /\ \A h \in Handler : JobInv(job[h])
  /\ \A i \in DOMAIN runs : RunInv(runs[i])
  /\ CondemnedReachesQueue

-----------------------------------------------------------------------------
(* Scores *)

\* Whatever number is clamped becomes a score.
LEMMA ClampIsScore == ASSUME NEW n \in Int PROVE Clamp(n) \in Score
<1>1. One \in Int /\ One >= 0
  BY DEF One
<1>2. Min({One, n}) = IF One < n THEN One ELSE n
  BY <1>1, MinOfTwo
<1>3. Min({One, n}) \in Int /\ Min({One, n}) <= One
  BY <1>1, <1>2
<1>4. ASSUME NEW k \in Int, k <= One PROVE Max({0, k}) \in Score
  <2>1. Max({0, k}) = IF 0 < k THEN k ELSE 0
    BY MaxOfTwo
  <2> QED
    BY <1>1, <1>4, <2>1 DEF Score
<1> QED
  BY <1>3, <1>4 DEF Clamp

\* Whatever text the model returns, what is read from it is an answer or
\* nothing at all.
LEMMA ParsedIsAnswer ==
  ASSUME NEW raw \in Raws
  PROVE  ParseLlmResponse(raw) \in Seq(Answer)
<1>1. CASE raw.object /\ Dimension \subseteq DOMAIN raw.dims
  <2> DEFINE dims == [d \in Dimension |-> Clamp(raw.dims[d])]
             a == [risk |-> Read(raw.risk, 0), confidence |-> Read(raw.confidence, 5000),
                   dims |-> dims]
  <2>1. Read(raw.risk, 0) \in Score /\ Read(raw.confidence, 5000) \in Score
    <3>1. 0 \in Score /\ 5000 \in Score
      BY DEF Score, One
    <3> QED
      BY <3>1, RawsAreTexts, ClampIsScore DEF Read
  <2>2. dims \in [Dimension -> Score]
    BY <1>1, RawsAreTexts, ClampIsScore
  <2> HIDE DEF dims
  <2>3. a \in Answer
    BY <2>1, <2>2 DEF Answer
  <2> HIDE DEF a
  <2>4. <<a>> \in Seq(Answer)
    BY <2>3
  <2> QED
    BY <1>1, <2>4 DEF ParseLlmResponse, a, dims
<1>2. CASE ~(raw.object /\ Dimension \subseteq DOMAIN raw.dims)
  <2>1. ParseLlmResponse(raw) = << >>
    BY <1>2 DEF ParseLlmResponse
  <2> QED
    BY <2>1
<1> QED
  BY <1>1, <1>2

\* A finding is between 0 and 1.
LEMMA SeverityRange ==
  ASSUME NEW m \in Message, NEW f \in Findings(m)
  PROVE  f.severity \in 0 .. 100
<1>1. ASSUME NEW x \in Nat, NEW cap \in 0 .. 100
      PROVE  Min({x, cap}) \in 0 .. 100
  <2>1. Min({x, cap}) = IF x < cap THEN x ELSE cap
    BY MinOfTwo
  <2> QED
    BY <2>1
<1>2. ASSUME f \in CheckLanguage(m) PROVE f.severity \in 0 .. 100
  <2>1. /\ m.credential \in 0 .. 8 /\ m.payment \in 0 .. 8
        /\ m.urgency \in 0 .. 8 /\ m.fear \in 0 .. 8
    BY DEF Message
  <2>2. /\ 40 + 10 * m.credential \in Nat /\ 35 + 10 * m.payment \in Nat
        /\ 30 + 10 * m.urgency \in Nat /\ 40 + 10 * m.fear \in Nat
    BY <2>1
  <2>3. \/ f.severity = Min({40 + 10 * m.credential, 95})
        \/ f.severity = Min({35 + 10 * m.payment, 85})
        \/ f.severity = Min({30 + 10 * m.urgency, 80})
        \/ f.severity = Min({40 + 10 * m.fear, 90})
    BY <1>2 DEF CheckLanguage, Language, Once, Finding
  <2>4. 95 \in 0 .. 100 /\ 85 \in 0 .. 100 /\ 80 \in 0 .. 100 /\ 90 \in 0 .. 100
    OBVIOUS
  <2>5. /\ Min({40 + 10 * m.credential, 95}) \in 0 .. 100
        /\ Min({35 + 10 * m.payment, 85}) \in 0 .. 100
        /\ Min({30 + 10 * m.urgency, 80}) \in 0 .. 100
        /\ Min({40 + 10 * m.fear, 90}) \in 0 .. 100
    <3>1. Min({40 + 10 * m.credential, 95}) \in 0 .. 100
      BY <1>1, <2>2, <2>4
    <3>2. Min({35 + 10 * m.payment, 85}) \in 0 .. 100
      BY <1>1, <2>2, <2>4
    <3>3. Min({30 + 10 * m.urgency, 80}) \in 0 .. 100
      BY <1>1, <2>2, <2>4
    <3>4. Min({40 + 10 * m.fear, 90}) \in 0 .. 100
      BY <1>1, <2>2, <2>4
    <3> QED
      BY <3>1, <3>2, <3>3, <3>4
  <2> QED
    BY <2>3, <2>5
<1>3. ASSUME f \in CheckReplyTo(m) \cup CheckLinkText(m) \cup CheckUrlStructure(m)
                     \cup CheckAttachments(m) \cup CheckHtmlOnly(m) \cup CheckAuthHeaders(m)
      PROVE  f.severity \in 0 .. 100
  BY <1>3 DEF CheckReplyTo, CheckLinkText, CheckUrlStructure, CheckAttachments, CheckHtmlOnly,
     CheckAuthHeaders, Once, Finding
<1> QED
  BY <1>2, <1>3 DEF Findings

(***************************************************************************)
(* The weakest findings, of which a message has one each at most, and the  *)
(* strongest that a dangerous attachment makes.                            *)
(***************************************************************************)
HtmlOnly(m) == Once("html_only_no_plain_text", 25, m.html /\ ~m.plain)
NoDkim(m)   == Once("missing_dkim_signature", 20, ~m.dkim)
NoSpf(m)    == Once("missing_spf_results", 15, ~m.spf)
Dangerous(m) == Finding("risky_attachment_high", 90, m.high)

\* How often the findings were made, and their severities.
TimesOf(findings) == [f \in findings |-> f.times]
WeightOf(findings) == [f \in findings |-> f.severity * f.times]

\* A sum of severities, as seen from 30 for every finding.
Margin(m, findings) ==
  (IF HtmlOnly(m) \in findings THEN 0 - 5 ELSE 0)
    + (IF NoDkim(m) \in findings THEN 0 - 10 ELSE 0)
    + (IF NoSpf(m) \in findings THEN 0 - 15 ELSE 0)
    + (IF Dangerous(m) \in findings THEN 60 ELSE 0)

LEMMA FindingsAreFinite ==
  ASSUME NEW m
  PROVE  IsFiniteSet(Findings(m))
<1>1. ASSUME NEW a, NEW b PROVE IsFiniteSet({a, b})
  <2>1. {a, b} = {a} \cup {b}
    OBVIOUS
  <2>2. IsFiniteSet({a}) /\ IsFiniteSet({b})
    BY FS_Singleton
  <2>3. IsFiniteSet({a} \cup {b})
    BY <2>2, FS_Union
  <2> QED
    BY <2>1, <2>3, Zenon
<1>2. ASSUME NEW a, NEW b, NEW c PROVE IsFiniteSet({a, b, c})
  <2>1. {a, b, c} = {a, b} \cup {c}
    OBVIOUS
  <2>2. IsFiniteSet({a, b}) /\ IsFiniteSet({c})
    BY <1>1, FS_Singleton
  <2>3. IsFiniteSet({a, b} \cup {c})
    BY <2>2, FS_Union
  <2> QED
    BY <2>1, <2>3, Zenon
<1>3. ASSUME NEW a, NEW b, NEW c, NEW d PROVE IsFiniteSet({a, b, c, d})
  <2>1. {a, b, c, d} = {a, b} \cup {c, d}
    OBVIOUS
  <2>2. IsFiniteSet({a, b}) /\ IsFiniteSet({c, d})
    BY <1>1
  <2>3. IsFiniteSet({a, b} \cup {c, d})
    BY <2>2, FS_Union
  <2> QED
    BY <2>1, <2>3, Zenon
<1>4. /\ IsFiniteSet(CheckReplyTo(m)) /\ IsFiniteSet(CheckAttachments(m))
      /\ IsFiniteSet(CheckAuthHeaders(m))
  <2>1. IsFiniteSet(CheckReplyTo(m))
    BY <1>1, Zenon DEF CheckReplyTo, Once
  <2>2. IsFiniteSet(CheckAttachments(m))
    BY <1>1, Zenon DEF CheckAttachments
  <2>3. IsFiniteSet(CheckAuthHeaders(m))
    BY <1>1, Zenon DEF CheckAuthHeaders, Once
  <2> QED
    BY <2>1, <2>2, <2>3
<1>5. IsFiniteSet(CheckLinkText(m)) /\ IsFiniteSet(CheckHtmlOnly(m))
  BY FS_Singleton DEF CheckLinkText, CheckHtmlOnly
<1>6. IsFiniteSet(CheckUrlStructure(m)) /\ IsFiniteSet(CheckLanguage(m))
  <2>1. IsFiniteSet(CheckUrlStructure(m))
    <3> DEFINE a == Once("url_ip_address_host", 65, \E u \in m.urls : u.host = "ip")
               b == Once("url_excessive_subdomains", 45,
                         \E u \in m.urls : u.host \in {"ip", "deep"})
               c == Once("url_credential_path", 55, \E u \in m.urls : u.credPath)
    <3>1. CheckUrlStructure(m) = {a, b, c}
      BY DEF CheckUrlStructure
    <3> HIDE DEF a, b, c
    <3>2. IsFiniteSet({a, b, c})
      BY <1>2
    <3> QED
      BY <3>1, <3>2, Zenon
  <2>2. IsFiniteSet(CheckLanguage(m))
    BY <1>3, Zenon DEF CheckLanguage
  <2> QED
    BY <2>1, <2>2
<1> DEFINE All == CheckReplyTo(m) \cup CheckLinkText(m) \cup CheckUrlStructure(m)
                    \cup CheckAttachments(m) \cup CheckLanguage(m) \cup CheckHtmlOnly(m)
                    \cup CheckAuthHeaders(m)
<1>7. IsFiniteSet(All)
  BY <1>4, <1>5, <1>6, FS_Union
<1>8. Findings(m) \in SUBSET All
  BY DEF Findings
<1> HIDE DEF All
<1> QED
  BY <1>7, <1>8, FS_Subset

\* A finding was made at least once, and unless it is one of the weakest its
\* severity is at least 30; of the weakest there is one at most.
LEMMA FindingFacts ==
  ASSUME NEW m \in Message, NEW f \in Findings(m)
  PROVE  /\ f.times \in Nat /\ f.times > 0
         /\ f = HtmlOnly(m) => f.severity = 25 /\ f.times = 1
         /\ f = NoDkim(m) => f.severity = 20 /\ f.times = 1
         /\ f = NoSpf(m) => f.severity = 15 /\ f.times = 1
         /\ f = Dangerous(m) => f.severity = 90
         /\ f \notin {HtmlOnly(m), NoDkim(m), NoSpf(m)} => f.severity >= 30
<1>1. f.times > 0
  BY DEF Findings
<1>2. ASSUME f \in CheckLanguage(m) PROVE f.times \in Nat /\ f.severity >= 30
  <2>1. ASSUME NEW rule, NEW base \in {30, 35, 40}, NEW cap \in {80, 85, 90, 95},
               NEW matched \in 0 .. 8, f = Language(rule, base, cap, matched, m.text)
        PROVE  f.times \in Nat /\ f.severity >= 30
    <3>1. /\ f.severity = Min({base + 10 * matched, cap})
          /\ f.times = IF m.text /\ matched > 0 THEN 1 ELSE 0
      BY <2>1 DEF Language, Once, Finding
    <3>2. base + 10 * matched \in Int /\ cap \in Int /\ base + 10 * matched >= 30 /\ cap >= 30
      BY <2>1
    <3>3. Min({base + 10 * matched, cap})
            = IF base + 10 * matched < cap THEN base + 10 * matched ELSE cap
      BY <3>2, MinOfTwo
    <3> QED
      BY <3>1, <3>2, <3>3
  <2>2. /\ m.credential \in 0 .. 8 /\ m.payment \in 0 .. 8
        /\ m.urgency \in 0 .. 8 /\ m.fear \in 0 .. 8
    BY DEF Message
  <2> QED
    BY <1>2, <2>1, <2>2 DEF CheckLanguage
<1>3. ASSUME f \in CheckReplyTo(m) \cup CheckLinkText(m) \cup CheckUrlStructure(m)
                     \cup CheckAttachments(m) \cup CheckHtmlOnly(m) \cup CheckAuthHeaders(m)
      PROVE  /\ f.times \in Nat
             /\ f \notin {HtmlOnly(m), NoDkim(m), NoSpf(m)} => f.severity >= 30
  <2>1. m.high \in Nat /\ m.medium \in Nat
    BY DEF Message
  <2> QED
    BY <1>3, <2>1 DEF CheckReplyTo, CheckLinkText, CheckUrlStructure, CheckAttachments,
       CheckHtmlOnly, CheckAuthHeaders, HtmlOnly, NoDkim, NoSpf, Once, Finding
<1>4. /\ f = HtmlOnly(m) => f.severity = 25 /\ f.times = 1
      /\ f = NoDkim(m) => f.severity = 20 /\ f.times = 1
      /\ f = NoSpf(m) => f.severity = 15 /\ f.times = 1
      /\ f = Dangerous(m) => f.severity = 90
  BY <1>1 DEF HtmlOnly, NoDkim, NoSpf, Dangerous, Once, Finding
<1>5. \/ f \in CheckLanguage(m)
      \/ f \in CheckReplyTo(m) \cup CheckLinkText(m) \cup CheckUrlStructure(m)
                     \cup CheckAttachments(m) \cup CheckHtmlOnly(m) \cup CheckAuthHeaders(m)
  BY DEF Findings
<1> QED
  BY <1>1, <1>2, <1>3, <1>4, <1>5

\* The two sums behind the score of a message are numbers, and something was
\* counted if there is a finding.
LEMMA SumsOfFindings ==
  ASSUME NEW m \in Message
  PROVE  /\ SumFunction(TimesOf(Findings(m))) \in Nat
         /\ SumFunction(WeightOf(Findings(m))) \in Nat
         /\ Findings(m) # {} => SumFunction(TimesOf(Findings(m))) > 0
<1> DEFINE S == Findings(m)
           t == TimesOf(S)
           w == WeightOf(S)
<1>1. IsFiniteSet(S)
  BY FindingsAreFinite
<1>2. /\ SumFunction(t) = SumFunctionOnSet(t, S) /\ SumFunction(w) = SumFunctionOnSet(w, S)
  BY DEF SumFunction, TimesOf, WeightOf
<1>3. \A f \in S : t[f] \in Nat /\ t[f] > 0
  BY FindingFacts DEF TimesOf
<1>4. \A f \in S : w[f] \in Nat
  <2> TAKE f \in S
  <2>1. f.severity \in Nat /\ f.times \in Nat
    BY SeverityRange, FindingFacts
  <2> QED
    BY <2>1 DEF WeightOf
<1> HIDE DEF S, t, w
<1>5. SumFunctionOnSet(t, S) \in Nat /\ SumFunctionOnSet(w, S) \in Nat
  BY <1>1, <1>3, <1>4, SumIsNatural
<1>6. ASSUME NEW f \in S PROVE SumFunctionOnSet(t, S) > 0
  <2>1. t[f] <= SumFunctionOnSet(t, S)
    BY <1>1, <1>3, SumHasParts
  <2> QED
    BY <1>3, <1>5, <2>1
<1> QED
  BY <1>2, <1>5, <1>6 DEF S, t, w

(***************************************************************************)
(* The weakest findings cannot dilute the others below a mean of 30: what  *)
(* a dangerous attachment has above it is more than all they lack.         *)
(***************************************************************************)
LEMMA MeanOfFindings ==
  ASSUME NEW m \in Message
  PROVE  SumFunction(WeightOf(Findings(m)))
           >= 30 * SumFunction(TimesOf(Findings(m))) + Margin(m, Findings(m))
<1> DEFINE S == Findings(m)
           t == TimesOf(S)
           w == WeightOf(S)
           T(s) == SumFunctionOnSet(t, s)
           W(s) == SumFunctionOnSet(w, s)
           P == {s \in SUBSET S : W(s) >= 30 * T(s) + Margin(m, s)}
<1>1. IsFiniteSet(S)
  BY FindingsAreFinite
<1>2. ASSUME NEW f \in S
      PROVE  /\ t[f] = f.times /\ w[f] = f.severity * f.times
             /\ f.times \in Nat /\ f.times > 0 /\ f.severity \in Nat
             /\ t[f] \in Nat /\ w[f] \in Nat
  <2>1. f.times \in Nat /\ f.times > 0 /\ f.severity \in Nat
    BY SeverityRange, FindingFacts
  <2>2. t[f] = f.times /\ w[f] = f.severity * f.times
    BY DEF TimesOf, WeightOf
  <2> QED
    BY <2>1, <2>2
<1>3. ASSUME NEW s \in SUBSET S
      PROVE  /\ T(s) = IF s = {} THEN 0 ELSE t[Choice(s)] + T(s \ {Choice(s)})
             /\ W(s) = IF s = {} THEN 0 ELSE w[Choice(s)] + W(s \ {Choice(s)})
             /\ T(s) \in Nat /\ W(s) \in Nat
             /\ s # {} => Choice(s) \in s
  <2>1. IsFiniteSet(s) /\ (s # {} => Choice(s) \in s)
    BY <1>1, FS_Subset DEF Choice
  <2>2. (\A f \in s : t[f] \in Nat) /\ (\A f \in s : w[f] \in Nat)
    BY <1>2
  <2> HIDE DEF t, w, S
  <2> QED
    BY <2>1, <2>2, SumEquation, SumIsNatural
<1>4. /\ HtmlOnly(m) # NoDkim(m) /\ HtmlOnly(m) # NoSpf(m) /\ HtmlOnly(m) # Dangerous(m)
      /\ NoDkim(m) # NoSpf(m) /\ NoDkim(m) # Dangerous(m) /\ NoSpf(m) # Dangerous(m)
  BY DEF HtmlOnly, NoDkim, NoSpf, Dangerous, Once, Finding
\* What one finding adds to the margin is not more than it adds to the sums.
<1>5. ASSUME NEW s \in SUBSET S, NEW f \in s
      PROVE  w[f] + Margin(m, s \ {f}) >= 30 * t[f] + Margin(m, s)
  <2>1. /\ f = HtmlOnly(m) => w[f] = 25 /\ t[f] = 1
        /\ f = NoDkim(m) => w[f] = 20 /\ t[f] = 1
        /\ f = NoSpf(m) => w[f] = 15 /\ t[f] = 1
    BY <1>2, FindingFacts
  <2>2. f = Dangerous(m) => w[f] >= 30 * t[f] + 60
    <3> SUFFICES ASSUME f = Dangerous(m) PROVE w[f] >= 30 * t[f] + 60
      OBVIOUS
    <3>1. f.severity = 90
      BY FindingFacts
    <3>2. w[f] = 90 * f.times /\ t[f] = f.times /\ f.times \in Nat /\ f.times > 0
      BY <1>2, <3>1
    <3> DEFINE n == f.times
    <3>3. n \in Nat /\ n > 0 /\ w[f] = 90 * n /\ t[f] = n
      BY <3>2
    <3> HIDE DEF n, w, t
    <3> QED
      BY <3>3
  <2>3. f \notin {HtmlOnly(m), NoDkim(m), NoSpf(m)} => w[f] >= 30 * t[f]
    <3>1. ASSUME NEW x \in Nat, NEW y \in Nat, x >= 30 PROVE x * y >= 30 * y
      BY <3>1
    <3> QED
      BY <1>2, <3>1, FindingFacts
  <2>4. w[f] \in Nat /\ t[f] \in Nat
    BY <1>2
  <2> DEFINE wf == w[f]
             tf == t[f]
             a == HtmlOnly(m)
             b == NoDkim(m)
             c == NoSpf(m)
             d == Dangerous(m)
  <2>5. /\ Margin(m, s) = (IF a \in s THEN 0 - 5 ELSE 0) + (IF b \in s THEN 0 - 10 ELSE 0)
                            + (IF c \in s THEN 0 - 15 ELSE 0) + (IF d \in s THEN 60 ELSE 0)
        /\ Margin(m, s \ {f}) =
             (IF a \in s /\ a # f THEN 0 - 5 ELSE 0) + (IF b \in s /\ b # f THEN 0 - 10 ELSE 0)
               + (IF c \in s /\ c # f THEN 0 - 15 ELSE 0) + (IF d \in s /\ d # f THEN 60 ELSE 0)
    BY DEF Margin
  <2>6. /\ f = a => wf = 25 /\ tf = 1
        /\ f = b => wf = 20 /\ tf = 1
        /\ f = c => wf = 15 /\ tf = 1
        /\ f = d => wf >= 30 * tf + 60
        /\ f \notin {a, b, c} => wf >= 30 * tf
        /\ wf \in Nat /\ tf \in Nat
    BY <2>1, <2>2, <2>3, <2>4
  <2>7. a # b /\ a # c /\ a # d /\ b # c /\ b # d /\ c # d
    BY <1>4
  <2> HIDE DEF wf, tf, a, b, c, d
  <2>8. wf + Margin(m, s \ {f}) >= 30 * tf + Margin(m, s)
    BY <2>5, <2>6, <2>7
  <2> QED
    BY <2>8 DEF wf, tf
<1>6. ASSUME NEW s \in SUBSET S PROVE Margin(m, s) \in Int
  BY DEF Margin
<1>7. ASSUME NEW s \in SUBSET S, \A f \in s : s \ {f} \in P PROVE s \in P
  <2>1. CASE s = {}
    <3>1. T(s) = 0 /\ W(s) = 0
      BY <1>3, <2>1
    <3>2. Margin(m, s) = 0
      BY <2>1 DEF Margin
    <3> HIDE DEF T, W
    <3> QED
      BY <3>1, <3>2
  <2>2. CASE s # {}
    <3> DEFINE f == Choice(s)
               r == s \ {f}
    <3>1. f \in s /\ r \in SUBSET S /\ r \in P
      BY <1>3, <1>7, <2>2
    <3>2. /\ T(s) = t[f] + T(r) /\ W(s) = w[f] + W(r)
          /\ T(r) \in Nat /\ W(r) \in Nat
      BY <1>3, <2>2, <3>1
    <3>3. w[f] + Margin(m, r) >= 30 * t[f] + Margin(m, s)
      BY <1>5, <3>1
    <3>4. t[f] \in Nat /\ w[f] \in Nat /\ Margin(m, r) \in Int /\ Margin(m, s) \in Int
      BY <1>2, <1>6, <3>1
    <3>5. W(r) >= 30 * T(r) + Margin(m, r)
      BY <3>1
    <3> HIDE DEF f, r, T, W, t, w
    <3>6. W(s) >= 30 * T(s) + Margin(m, s)
      BY <3>2, <3>3, <3>4, <3>5
    <3> QED
      BY <3>6
  <2> QED
    BY <2>1, <2>2
<1>8. \A s \in SUBSET S : s \in P
  <2>1. P \in SUBSET (SUBSET S)
    OBVIOUS
  <2> HIDE DEF P, S
  <2> QED
    BY <1>1, <1>7, <2>1, SetInduction
<1>9. W(S) >= 30 * T(S) + Margin(m, S)
  BY <1>8
<1>10. SumFunction(t) = T(S) /\ SumFunction(w) = W(S)
  BY DEF SumFunction, TimesOf, WeightOf
<1> QED
  BY <1>9, <1>10

\* The strongest finding of a dimension is a score, and none is stronger.
LEMMA DimensionScoreFacts ==
  ASSUME NEW m \in Message, NEW d \in Dimension
  PROVE  /\ DimensionScore(Findings(m), d) \in Score
         /\ \A f \in Findings(m) : d \in DimensionsOf(f.rule) =>
              DimensionScore(Findings(m), d) >= 100 * f.severity
<1> DEFINE S == {0} \cup Severities({f \in Findings(m) : d \in DimensionsOf(f.rule)})
<1>1. \A x \in S : x \in 0 .. 100
  BY SeverityRange DEF Severities
<1>2. \A f \in Findings(m) : d \in DimensionsOf(f.rule) => f.severity \in S
  BY DEF Severities
<1>3. 0 \in S
  OBVIOUS
<1>4. DimensionScore(Findings(m), d) = 100 * Max(S)
  BY DEF DimensionScore
<1> HIDE DEF S
<1>5. S \in SUBSET Nat /\ S # {} /\ \A x \in S : x <= 100
  BY <1>1, <1>3
<1>6. Max(S) \in S /\ \A y \in S : y <= Max(S)
  BY <1>5, MaxFacts
<1>7. Max(S) \in 0 .. 100
  BY <1>1, <1>6
<1>8. DimensionScore(Findings(m), d) \in Score
  BY <1>4, <1>7 DEF Score, One
<1> QED
  BY <1>1, <1>2, <1>4, <1>6, <1>7, <1>8, SeverityRange

\* A quotient is no less than what its divisor goes into the dividend.
LEMMA QuotientBound ==
  ASSUME NEW x \in Nat, NEW d \in Nat, d > 0, NEW q \in Nat
  PROVE  x \div d \in Nat /\ (q * d <= x => q <= x \div d)
<1> DEFINE k == x \div d
<1>1. k \in Nat /\ x < (k + 1) * d
  OBVIOUS
<1> HIDE DEF k
<1>2. ASSUME q * d <= x, k < q PROVE FALSE
  <2>1. k + 1 <= q
    BY <1>1, <1>2
  <2>2. (k + 1) * d <= q * d
    BY <1>1, <2>1
  <2>3. (k + 1) * d \in Nat /\ q * d \in Nat
    BY <1>1
  <2> QED
    BY <1>1, <1>2, <2>2, <2>3
<1>3. k \in Nat /\ (q * d <= x => q <= k)
  BY <1>1, <1>2
<1> QED
  BY <1>3 DEF k

\* Where the strongest of n findings, and their mean, are known from below.
LEMMA PulledFacts ==
  ASSUME NEW top \in Nat, NEW sum \in Nat, NEW n \in Nat, n > 0
  PROVE  /\ Pulled(top, sum, n) \in Score
         /\ top >= 90 /\ sum >= 30 * n => Pulled(top, sum, n) >= 6600
<1> DEFINE a == 60 * top * n + 40 * sum
           x == 2 * a + n
           d == 2 * n
<1>1. a \in Nat /\ x \in Nat /\ d \in Nat /\ d > 0
  <2>1. 60 * top * n \in Nat
    OBVIOUS
  <2> QED
    BY <2>1
<1>2. top >= 90 /\ sum >= 30 * n => 6600 * d <= x
  <2> SUFFICES ASSUME top >= 90, sum >= 30 * n PROVE 6600 * d <= x
    OBVIOUS
  <2> DEFINE p == 60 * top * n
  <2>1. p >= 5400 * n /\ p \in Nat
    <3>1. 60 * top \in Nat /\ 60 * top >= 5400
      OBVIOUS
    <3>2. ASSUME NEW y \in Nat, y >= 5400 PROVE y * n >= 5400 * n /\ y * n \in Nat
      BY <3>2
    <3> QED
      BY <3>1, <3>2
  <2>2. x = 2 * (p + 40 * sum) + n
    OBVIOUS
  <2> HIDE DEF p, x
  <2> QED
    BY <2>1, <2>2
<1>3. Pulled(top, sum, n) = Min({x \div d, One})
  BY DEF Pulled, RoundDiv
<1> HIDE DEF a, x, d
<1>4. x \div d \in Nat /\ (top >= 90 /\ sum >= 30 * n => x \div d >= 6600)
  BY <1>1, <1>2, QuotientBound
<1> DEFINE k == x \div d
<1>5. k \in Nat /\ (top >= 90 /\ sum >= 30 * n => k >= 6600)
  BY <1>4
<1>6. Pulled(top, sum, n) = Min({k, One})
  BY <1>3
<1> HIDE DEF k
<1>7. Min({k, One}) = IF k < One THEN k ELSE One
  BY <1>5, MinOfTwo DEF One
<1>8. Min({k, One}) \in Score /\ (k >= 6600 => Min({k, One}) >= 6600)
  <2> DEFINE y == Min({k, One})
  <2>1. y = (IF k < One THEN k ELSE One) /\ One = 10000
    BY <1>7 DEF One
  <2> HIDE DEF y
  <2>2. y \in 0 .. 10000 /\ (k >= 6600 => y >= 6600)
    BY <1>5, <2>1
  <2>3. Score = 0 .. 10000
    BY DEF Score, One
  <2>4. y \in Score /\ (k >= 6600 => y >= 6600)
    BY <2>2, <2>3
  <2> QED
    BY <2>4 DEF y
<1> QED
  BY <1>5, <1>6, <1>8

\* The score of a message, and what a dangerous attachment makes of it.
LEMMA RiskScoreFacts ==
  ASSUME NEW m \in Message
  PROVE  /\ RiskScore(Findings(m)) \in Score
         /\ m.high > 0 => RiskScore(Findings(m)) >= 6600
<1> DEFINE S == Findings(m)
           top == Max(Severities(S))
           sum == SumFunction(WeightOf(S))
           n == SumFunction(TimesOf(S))
<1>1. m.high \in Nat
  BY DEF Message
<1>2. m.high > 0 => Dangerous(m) \in S
  BY DEF Findings, CheckAttachments, Dangerous, Finding
<1>3. CASE S = {}
  <2>1. RiskScore(S) = 0
    BY <1>3 DEF RiskScore
  <2>2. 0 \in Score
    BY DEF Score, One
  <2> HIDE DEF S
  <2> QED
    BY <1>1, <1>2, <1>3, <2>1, <2>2 DEF S
<1>4. CASE S # {}
  <2>1. RiskScore(S) = Pulled(top, sum, n)
    BY <1>4 DEF RiskScore, WeightOf, TimesOf
  <2>2. sum \in Nat /\ n \in Nat /\ n > 0
    BY <1>4, SumsOfFindings
  <2>3. top \in Nat /\ \A f \in S : f.severity <= top
    <3>1. \A x \in Severities(S) : x \in Nat /\ x <= 100
      BY SeverityRange DEF Severities
    <3>2. Severities(S) # {} /\ \A f \in S : f.severity \in Severities(S)
      BY <1>4 DEF Severities
    <3> HIDE DEF S
    <3>3. Severities(S) \in SUBSET Nat
      BY <3>1
    <3>4. Max(Severities(S)) \in Severities(S) /\ \A y \in Severities(S) : y <= Max(Severities(S))
      BY <3>1, <3>2, <3>3, MaxFacts
    <3> QED
      BY <3>1, <3>2, <3>4
  <2>4. m.high > 0 => top >= 90 /\ sum >= 30 * n
    <3> SUFFICES ASSUME m.high > 0 PROVE top >= 90 /\ sum >= 30 * n
      OBVIOUS
    <3>1. Dangerous(m).severity = 90
      BY DEF Dangerous, Finding
    <3>2. Margin(m, S) \in Nat
      <4>1. Dangerous(m) \in S
        BY <1>2
      <4> HIDE DEF S
      <4> QED
        BY <4>1 DEF Margin
    <3>3. sum >= 30 * n + Margin(m, S)
      BY MeanOfFindings
    <3> HIDE DEF sum, n, S, top
    <3>4. sum >= 30 * n
      BY <2>2, <3>2, <3>3
    <3>5. top >= 90
      BY <1>2, <2>3, <3>1
    <3> QED
      BY <3>4, <3>5
  <2> HIDE DEF S, top, sum, n
  <2>5. Pulled(top, sum, n) \in Score /\ (m.high > 0 => Pulled(top, sum, n) >= 6600)
    BY <2>2, <2>3, <2>4, PulledFacts
  <2> QED
    BY <2>1, <2>5 DEF S
<1> QED
  BY <1>3, <1>4

\* What the checks return.
LEMMA ChecksType ==
  ASSUME NEW m \in Mails
  PROVE  RunDeterministicChecks(m) \in Checks
<1>1. m \in Message
  BY APConstants
<1>2. RiskScore(Findings(m)) \in Score
  BY <1>1, RiskScoreFacts
<1>3. [d \in Dimension |-> DimensionScore(Findings(m), d)] \in [Dimension -> Score]
  BY <1>1, DimensionScoreFacts
<1> QED
  BY <1>2, <1>3 DEF RunDeterministicChecks, Checks

\* The weighted score lies between the two it is made of.
LEMMA WeighBetween ==
  ASSUME NEW a \in Score, NEW b \in Score
  PROVE  /\ Weigh(a, b) \in Score
         /\ b <= a => Weigh(a, b) <= a
<1>1. ASSUME NEW n \in Nat, NEW k \in Nat, n <= 20 * k + 10 PROVE n \div 20 <= k
  BY <1>1
<1>2. /\ a \in Nat /\ a <= One /\ b \in Nat /\ b <= One
      /\ One \in Nat /\ Score = 0 .. One
  BY DEF Score, One
<1> DEFINE n == 2 * (4 * a + 6 * b) + 10
<1>3. Weigh(a, b) = n \div 20
  BY DEF Weigh, RoundDiv
<1>4. n \in Nat /\ n <= 20 * One + 10 /\ (b <= a => n <= 20 * a + 10)
  BY <1>2
<1> HIDE DEF n
<1>5. n \div 20 \in Nat
  BY <1>4
<1>6. n \div 20 <= One /\ (b <= a => n \div 20 <= a)
  BY <1>1, <1>2, <1>4
<1> QED
  BY <1>2, <1>3, <1>5, <1>6

\* The model's side of a dimension never lowers that of the checks.
LEMMA StoredDimensionFacts ==
  ASSUME NEW checks \in Checks, NEW answer \in Seq(Answer), NEW d \in Dimension
  PROVE  /\ StoredDimension(checks, answer, d) \in Score
         /\ StoredDimension(checks, answer, d) >= checks.dims[d]
<1> DEFINE c == CombineScores(checks.risk, answer).dims[d]
<1>1. c \in Score
  <2>1. CASE answer = << >>
    BY <2>1 DEF CombineScores, Score, One
  <2>2. CASE answer # << >>
    <3>1. answer[1] \in Answer
      BY <2>2
    <3> QED
      BY <2>2, <3>1 DEF CombineScores, Answer
  <2> QED
    BY <2>1, <2>2
<1>2. checks.dims[d] \in Score
  BY DEF Checks
<1>3. StoredDimension(checks, answer, d) = Max({c, checks.dims[d]})
  BY DEF StoredDimension
<1> HIDE DEF c
<1> QED
  BY <1>1, <1>2, <1>3, MaxOfTwo DEF Score

\* The verdict on a risk, once it was shifted.
LEMMA VerdictType ==
  ASSUME NEW risk, NEW confidence, NEW degraded, NEW t, NEW gateway
  PROVE  ComputeVerdict(risk, confidence, degraded, t, gateway) \in Verdict
BY DEF ComputeVerdict, Verdict

\* How strict the verdict on an effective risk is.
Level(x) == IF x <= Thresholds.allow THEN 0
            ELSE IF x <= Thresholds.allow_with_banner THEN 1
            ELSE IF x <= Thresholds.soft_hold THEN 2
            ELSE IF x <= Thresholds.quarantine THEN 3 ELSE 4

LEMMA ThresholdsAreNumbers ==
  /\ Thresholds.allow \in Int /\ Thresholds.allow_with_banner \in Int
  /\ Thresholds.soft_hold \in Int /\ Thresholds.quarantine \in Int
<1>1. 0 .. One \subseteq Int
  OBVIOUS
<1> HIDE DEF One
<1> QED
  BY <1>1, APConstants

(***************************************************************************)
(* A higher effective risk gets no laxer verdict, whatever the thresholds  *)
(* are: they need not even be in order.                                    *)
(***************************************************************************)
LEMMA LevelMonotone ==
  ASSUME NEW x \in Int, NEW y \in Int, x <= y
  PROVE  Level(x) <= Level(y)
BY ThresholdsAreNumbers DEF Level

LEMMA StrictnessOfLevel ==
  ASSUME NEW e, NEW v,
         v = IF e <= Thresholds.allow THEN "allow"
             ELSE IF e <= Thresholds.allow_with_banner THEN "allow_with_banner"
             ELSE IF e <= Thresholds.soft_hold THEN "soft_hold"
             ELSE IF e <= Thresholds.quarantine THEN "quarantine"
             ELSE IF Gateway THEN "reject" ELSE "escalate_to_admin"
  PROVE  Strictness(v) = Level(e)
BY DEF Strictness, Level

\* The verdict on a risk is that of the level of its effective risk.
LEMMA VerdictLevel ==
  ASSUME NEW risk, NEW confidence, NEW degraded, NEW e, NEW v,
         v = ComputeVerdict(risk, confidence, degraded, Thresholds, Gateway),
         EffectiveRisk(risk, confidence, degraded) = e
  PROVE  Strictness(v) = Level(e)
<1>1. v = IF e <= Thresholds.allow THEN "allow"
          ELSE IF e <= Thresholds.allow_with_banner THEN "allow_with_banner"
          ELSE IF e <= Thresholds.soft_hold THEN "soft_hold"
          ELSE IF e <= Thresholds.quarantine THEN "quarantine"
          ELSE IF Gateway THEN "reject" ELSE "escalate_to_admin"
  BY Zenon DEF ComputeVerdict
<1> QED
  BY <1>1, StrictnessOfLevel, Zenon

\* A higher score of the model weighs no less.
LEMMA WeighMonotone ==
  ASSUME NEW a \in Score, NEW b \in Score, NEW c \in Score, b <= c
  PROVE  Weigh(a, b) <= Weigh(a, c)
<1>1. ASSUME NEW n \in Nat, NEW k \in Nat, n <= k PROVE n \div 20 <= k \div 20
  BY <1>1
<1> QED
  BY DEF Weigh, RoundDiv, Score, One

-----------------------------------------------------------------------------
(* Runs *)

\* The columns of a run that tell how it was made.
SourceOf(r, talk, answer) ==
  /\ (r.status = "complete") <=> answer # << >>
  /\ (r.provider = "ollama") <=> answer # << >>
  /\ (r.llm # << >>) <=> answer # << >>
  /\ r.named <=> (talk # << >> /\ talk[1] # "error")
  /\ r.talk = talk

\* Its scores and its verdict, in terms of the checks and of the answer.
ScoresOf(r, checks, answer) ==
  /\ r.det = checks.risk
  /\ \A d \in Dimension : r.dims[d] = StoredDimension(checks, answer, d)
  /\ answer = << >> =>
       /\ r.llm = << >>
       /\ Strictness(r.verdict) = Level(Min({One, checks.risk + 1000}))
  /\ answer # << >> =>
       /\ r.llm # << >> /\ r.llm[1] = answer[1].risk
       /\ Strictness(r.verdict) = Level(Weigh(checks.risk, answer[1].risk))

LEMMA NewRunColumns ==
  ASSUME NEW checks \in Checks, NEW talk \in Talk, NEW answer \in Seq(Answer),
         Conversation(talk, answer)
  PROVE  /\ SourceOf(NewRun(checks, talk, answer), talk, answer)
         /\ ScoresOf(NewRun(checks, talk, answer), checks, answer)
<1> DEFINE r == NewRun(checks, talk, answer)
<1> DEFINE degraded == llm # "on" \/ answer = << >>
           combined == CombineScores(checks.risk, answer)
<1>1. degraded = (answer = << >>)
  BY DEF Conversation
<1>2. /\ r.status = (IF degraded THEN "degraded" ELSE "complete")
      /\ r.provider = (IF llm # "off" /\ ~degraded THEN "ollama" ELSE "none")
      /\ r.named = (talk # << >> /\ talk[1] # "error")
      /\ r.det = checks.risk /\ r.talk = talk
      /\ r.llm = IF answer = << >> THEN << >> ELSE <<answer[1].risk>>
      /\ r.verdict = ComputeVerdict(combined.risk, combined.confidence, degraded,
                                    Thresholds, Gateway)
      /\ r.dims = [d \in Dimension |-> StoredDimension(checks, answer, d)]
  BY DEF NewRun
<1>3. CASE answer = << >>
  <2>1. degraded = TRUE /\ combined.risk = checks.risk /\ combined.confidence = 3500
    BY <1>1, <1>3 DEF CombineScores
  <2>3. degraded
    BY <1>3
  <2> HIDE DEF r, degraded, combined
  <2>4. EffectiveRisk(combined.risk, combined.confidence, degraded)
          = Min({One, checks.risk + 1000})
    BY <2>1, <2>3 DEF EffectiveRisk
  <2>7. Strictness(r.verdict) = Level(Min({One, checks.risk + 1000}))
    <3> DEFINE e == Min({One, checks.risk + 1000})
    <3>1. r.verdict = ComputeVerdict(combined.risk, combined.confidence, degraded,
                                     Thresholds, Gateway)
      BY <1>2
    <3>2. EffectiveRisk(combined.risk, combined.confidence, degraded) = e
      BY <2>4
    <3> HIDE DEF e
    <3>3. Strictness(r.verdict) = Level(e)
      BY <3>1, <3>2, VerdictLevel
    <3> QED
      BY <3>3 DEF e
  <2>5. /\ r.status = "degraded" /\ r.provider = "none" /\ r.det = checks.risk
        /\ r.talk = talk /\ r.llm = << >>
    BY <1>2, <1>3, <2>3
  <2>6. /\ r.named <=> (talk # << >> /\ talk[1] # "error")
        /\ \A d \in Dimension : r.dims[d] = StoredDimension(checks, answer, d)
    BY <1>2
  <2> QED
    BY <1>3, <2>7, <2>5, <2>6 DEF r, SourceOf, ScoresOf
<1>4. CASE answer # << >>
  <2>1. /\ degraded = FALSE /\ combined.risk = Weigh(checks.risk, answer[1].risk)
        /\ combined.confidence = answer[1].confidence
    BY <1>1, <1>4 DEF CombineScores
  <2>2. llm # "off"
    BY <1>4 DEF Conversation
  <2>4. ~degraded
    BY <2>1
  <2> HIDE DEF r, degraded, combined
  <2>5. EffectiveRisk(combined.risk, combined.confidence, degraded)
          = Weigh(checks.risk, answer[1].risk)
    BY <2>1, <2>4 DEF EffectiveRisk
  <2>9. Strictness(r.verdict) = Level(Weigh(checks.risk, answer[1].risk))
    <3> DEFINE e == Weigh(checks.risk, answer[1].risk)
    <3>1. r.verdict = ComputeVerdict(combined.risk, combined.confidence, degraded,
                                     Thresholds, Gateway)
      BY <1>2
    <3>2. EffectiveRisk(combined.risk, combined.confidence, degraded) = e
      BY <2>5
    <3> HIDE DEF e
    <3>3. Strictness(r.verdict) = Level(e)
      BY <3>1, <3>2, VerdictLevel
    <3> QED
      BY <3>3 DEF e
  <2>6. /\ r.status = "complete" /\ r.provider = "ollama" /\ r.det = checks.risk
        /\ r.talk = talk /\ r.llm # << >> /\ r.llm[1] = answer[1].risk
    BY <1>2, <1>4, <2>2, <2>4
  <2>7. /\ r.named <=> (talk # << >> /\ talk[1] # "error")
        /\ \A d \in Dimension : r.dims[d] = StoredDimension(checks, answer, d)
    BY <1>2
  <2> QED
    BY <1>4, <2>9, <2>6, <2>7 DEF r, SourceOf, ScoresOf
<1> QED
  BY <1>3, <1>4

\* All that a run stores is in its range.
LEMMA NewRunType ==
  ASSUME NEW checks \in Checks, NEW talk \in Talk, NEW answer \in Seq(Answer)
  PROVE  NewRun(checks, talk, answer) \in Run
<1> DEFINE combined == CombineScores(checks.risk, answer)
           score == IF answer = << >> THEN << >> ELSE <<answer[1].risk>>
           verdict == ComputeVerdict(combined.risk, combined.confidence,
                                     llm # "on" \/ answer = << >>, Thresholds, Gateway)
           dims == [d \in Dimension |-> StoredDimension(checks, answer, d)]
<1>1. combined.risk \in Score /\ combined.confidence \in Score /\ score \in Seq(Score)
  <2>1. CASE answer = << >>
    <3>1. checks.risk \in Score
      BY DEF Checks
    <3>2. 3500 \in Score
      BY DEF Score, One
    <3>3. combined.risk = checks.risk /\ combined.confidence = 3500 /\ score = << >>
      BY <2>1 DEF CombineScores
    <3> QED
      BY <3>1, <3>2, <3>3
  <2>2. CASE answer # << >>
    <3>1. /\ answer[1].risk \in Score /\ answer[1].confidence \in Score
          /\ checks.risk \in Score
      <4>1. answer[1] \in Answer
        BY <2>2
      <4> QED
        BY <4>1 DEF Answer, Checks
    <3> QED
      BY <2>2, <3>1, WeighBetween DEF CombineScores
  <2> QED
    BY <2>1, <2>2
<1>2. verdict \in Verdict
  BY VerdictType
<1>3. dims \in [Dimension -> Score]
  BY StoredDimensionFacts
<1>4. checks.risk \in Score
  BY DEF Checks
<1>5. NewRun(checks, talk, answer) =
        [status |-> IF llm # "on" \/ answer = << >> THEN "degraded" ELSE "complete",
         provider |-> IF llm # "off" /\ ~(llm # "on" \/ answer = << >>) THEN "ollama" ELSE "none",
         named |-> talk # << >> /\ talk[1] # "error",
         det |-> checks.risk, llm |-> score,
         risk |-> combined.risk, confidence |-> combined.confidence,
         verdict |-> verdict, dims |-> dims, talk |-> talk]
  BY DEF NewRun
<1> HIDE DEF combined, score, verdict, dims
<1> QED
  BY <1>1, <1>2, <1>3, <1>4, <1>5 DEF Run

\* The same of a committed run, whose talk and answer are not known.
LEMMA RunColumns ==
  ASSUME PipelineInv, NEW i \in DOMAIN runs
  PROVE  /\ mail \in Mails /\ RunDeterministicChecks(mail) \in Checks
         /\ \E talk \in Talk, answer \in Seq(Answer) :
              /\ Conversation(talk, answer)
              /\ SourceOf(runs[i], talk, answer)
              /\ ScoresOf(runs[i], RunDeterministicChecks(mail), answer)
<1>1. mail \in Mails /\ RunDeterministicChecks(mail) \in Checks
  BY ChecksType DEF PipelineInv, TypeOK
<1>2. PICK talk \in Talk, answer \in Seq(Answer) :
        /\ Conversation(talk, answer)
        /\ runs[i] = NewRun(RunDeterministicChecks(mail), talk, answer)
  BY DEF PipelineInv, RunInv
<1>3. /\ SourceOf(NewRun(RunDeterministicChecks(mail), talk, answer), talk, answer)
      /\ ScoresOf(NewRun(RunDeterministicChecks(mail), talk, answer),
                  RunDeterministicChecks(mail), answer)
  BY <1>1, <1>2, NewRunColumns
<1> QED
  BY <1>1, <1>2, <1>3

-----------------------------------------------------------------------------
(* Steps *)

\* Message and model stay the same, and with them what is true of a run.
LEMMA SameJob ==
  ASSUME UNCHANGED <<mail, llm>>
  PROVE  \A j : JobInv(j) => JobInv(j)'
BY DEF JobInv, Conversation

LEMMA SameRuns ==
  ASSUME PipelineInv, UNCHANGED <<mail, llm>>, UNCHANGED runs
  PROVE  \A i \in DOMAIN runs' : RunInv(runs[i])'
BY DEF PipelineInv, RunInv, NewRun, Conversation

(***************************************************************************)
(* A step of one handler that leaves the runs and the queue alone.         *)
(***************************************************************************)
LEMMA OneJob ==
  ASSUME PipelineInv, NEW h \in Handler, NEW j \in Job, JobInv(j),
         job' = [job EXCEPT ![h] = j],
         UNCHANGED <<mail, llm, runs, queued, lost>>, started' \in 0 .. MaxRuns,
         job[h].pc # "quarantine", j.pc # "quarantine"
  PROVE  PipelineInv'
<1> USE DEF PipelineInv
<1>1. TypeOK'
  BY DEF TypeOK
<1>2. ASSUME NEW g \in Handler PROVE JobInv(job[g])'
  <2>1. JobInv(job'[g])
    BY DEF TypeOK
  <2> QED
    BY <2>1 DEF JobInv, Conversation
<1>3. \A i \in DOMAIN runs' : RunInv(runs[i])'
  BY SameRuns
<1>4. CondemnedReachesQueue'
  <2>1. {g \in Handler : job'[g].pc = "quarantine"} = {g \in Handler : job[g].pc = "quarantine"}
    BY DEF TypeOK
  <2>2. \A g \in Handler : job[g].pc = "quarantine" => job'[g].run = job[g].run
    BY DEF TypeOK
  <2> QED
    BY <2>1, <2>2 DEF CondemnedReachesQueue
<1> QED
  BY <1>1, <1>2, <1>3, <1>4

LEMMA IdleIsJob ==
  /\ NoChecks \in Checks /\ << >> \in Talk /\ << >> \in Seq(Answer)
  /\ Idle \in Job /\ Idle.pc = "idle"
<1>1. 0 \in Score
  BY DEF Score, One
<1>2. NoChecks \in Checks
  BY <1>1 DEF NoChecks, Checks
<1>3. << >> \in Talk
  <2>1. << >> \in [1 .. 0 -> Reply] /\ 0 \in 0 .. 2
    OBVIOUS
  <2> QED
    BY <2>1 DEF Talk
<1> QED
  BY <1>2, <1>3 DEF Idle, Job

LEMMA ThisJob ==
  ASSUME PipelineInv, NEW h \in Handler
  PROVE  /\ job[h] \in Job /\ JobInv(job[h])
         /\ job[h].checks \in Checks /\ job[h].talk \in Talk /\ job[h].answer \in Seq(Answer)
         /\ mail \in Mails
BY DEF PipelineInv, TypeOK, Job

LEMMA StartInv ==
  ASSUME PipelineInv, NEW h \in Handler, Start(h) PROVE PipelineInv'
<1> DEFINE j == [Idle EXCEPT !.pc = IF llm = "on" THEN "ask" ELSE "persist",
                             !.checks = RunDeterministicChecks(mail)]
<1>1. RunDeterministicChecks(mail) \in Checks
  BY ThisJob, ChecksType
<1>2. /\ j \in Job /\ j.pc = IF llm = "on" THEN "ask" ELSE "persist"
      /\ j.checks = RunDeterministicChecks(mail) /\ j.talk = << >> /\ j.answer = << >>
  BY <1>1, IdleIsJob DEF Idle, Job
<1>3. /\ job' = [job EXCEPT ![h] = j] /\ UNCHANGED <<mail, llm, runs, queued, lost>>
      /\ started' \in 0 .. MaxRuns /\ job[h].pc # "quarantine"
  BY APConstants DEF Start, PipelineInv, TypeOK
<1> HIDE DEF j
<1>4. JobInv(j)
  BY <1>2 DEF JobInv, Conversation
<1> QED
  BY <1>2, <1>3, <1>4, OneJob

\* What a handler has heard, in order.
LEMMA TalkGrows ==
  ASSUME NEW reply \in Reply
  PROVE  /\ Append(<< >>, reply) = <<reply>>
         /\ Append(<<"malformed">>, reply) = <<"malformed", reply>>
         /\ <<reply>> \in Talk /\ <<"malformed", reply>> \in Talk
<1>1. Append(<< >>, reply) = <<reply>> /\ Append(<<"malformed">>, reply) = <<"malformed", reply>>
  <2>1. << >> \in Seq(Reply) /\ <<"malformed">> \in Seq(Reply)
    BY DEF Reply
  <2>2. /\ Append(<< >>, reply) \in Seq(Reply) /\ <<reply>> \in Seq(Reply)
        /\ Len(Append(<< >>, reply)) = 1 /\ Append(<< >>, reply)[1] = reply
    BY <2>1, AppendProperties
  <2>4. Append(<< >>, reply) = <<reply>>
    BY <2>2, SeqEqual
  <2>5. Append(<<"malformed">>, reply) = <<"malformed", reply>>
    <3> DEFINE s == <<"malformed">>
               t == <<"malformed", reply>>
               u == Append(s, reply)
    <3>1. s \in Seq(Reply) /\ Len(s) = 1 /\ s[1] = "malformed"
      BY <2>1
    <3>2. t \in Seq(Reply) /\ Len(t) = 2 /\ t[1] = "malformed" /\ t[2] = reply
      BY DEF Reply
    <3> HIDE DEF s, t
    <3>3. /\ u \in Seq(Reply) /\ Len(u) = Len(s) + 1
          /\ \A i \in 1 .. Len(s) : u[i] = s[i]
          /\ u[Len(s) + 1] = reply
      <4>1. \A seq \in Seq(Reply), elt \in Reply :
              /\ Append(seq, elt) \in Seq(Reply)
              /\ Len(Append(seq, elt)) = Len(seq) + 1
              /\ \A i \in 1 .. Len(seq) : Append(seq, elt)[i] = seq[i]
              /\ Append(seq, elt)[Len(seq) + 1] = elt
        BY AppendProperties
      <4> QED
        BY <3>1, <4>1, Zenon
    <3> HIDE DEF u
    <3>4. Len(u) = 2 /\ u[1] = "malformed" /\ u[2] = reply
      BY <3>1, <3>3
    <3>5. \A i \in 1 .. Len(u) : u[i] = t[i]
      BY <3>2, <3>4
    <3>6. u = t
      BY <3>2, <3>3, <3>4, <3>5, SeqEqual
    <3> QED
      BY <3>6 DEF s, t, u
  <2> QED
    BY <2>4, <2>5
<1>2. <<reply>> \in [1 .. 1 -> Reply] /\ 1 \in 0 .. 2
  OBVIOUS
<1>3. <<"malformed", reply>> \in [1 .. 2 -> Reply] /\ 2 \in 0 .. 2
  BY DEF Reply
<1> QED
  BY <1>1, <1>2, <1>3 DEF Talk

LEMMA HearInv ==
  ASSUME PipelineInv, NEW h \in Handler, NEW reply \in Reply, NEW pc, NEW answer \in Seq(Answer),
         Hear(h, reply, pc, answer),
         \/ pc = "persist" /\ ((reply = "valid") <=> (answer # << >>))
         \/ pc = "retry" /\ reply = "malformed" /\ answer = << >> /\ job[h].pc = "ask"
  PROVE  PipelineInv'
<1> DEFINE talk == Append(job[h].talk, reply)
           j == [job[h] EXCEPT !.pc = pc, !.answer = answer, !.talk = talk]
<1>1. /\ llm = "on" /\ job[h].checks = RunDeterministicChecks(mail)
      /\ job[h].pc = "ask" => talk = <<reply>>
      /\ job[h].pc = "retry" => talk = <<"malformed", reply>>
      /\ job[h].pc \in {"ask", "retry"}
      /\ talk \in Talk
  BY ThisJob, TalkGrows DEF Hear, JobInv
<1>2. /\ job' = [job EXCEPT ![h] = j] /\ UNCHANGED <<mail, llm, runs, queued, lost>>
      /\ started' \in 0 .. MaxRuns
  BY DEF Hear, PipelineInv, TypeOK
<1> HIDE DEF talk
<1>3. /\ j \in Job /\ j.pc = pc /\ j.checks = job[h].checks /\ j.talk = talk
      /\ j.answer = answer
  BY <1>1, ThisJob DEF Job
<1> HIDE DEF j
<1>4. JobInv(j)
  BY <1>1, <1>3 DEF JobInv, Conversation
<1> QED
  BY <1>1, <1>2, <1>3, <1>4, OneJob

LEMMA ReceiveInv ==
  ASSUME PipelineInv, NEW h \in Handler, NEW raw \in Raws, Receive(h, raw) PROVE PipelineInv'
<1>1. ParseLlmResponse(raw) \in Seq(Answer)
  BY ParsedIsAnswer
<1>2. "valid" \in Reply /\ "malformed" \in Reply /\ << >> \in Seq(Answer)
  BY DEF Reply
<1>3. \/ Hear(h, "valid", "persist", ParseLlmResponse(raw)) /\ ParseLlmResponse(raw) # << >>
      \/ Hear(h, "malformed", "retry", << >>) /\ job[h].pc = "ask"
      \/ Hear(h, "malformed", "persist", << >>)
  BY DEF Receive
<1> QED
  BY <1>1, <1>2, <1>3, HearInv

LEMMA FailInv ==
  ASSUME PipelineInv, NEW h \in Handler, Fail(h) PROVE PipelineInv'
<1>1. "error" \in Reply /\ << >> \in Seq(Answer)
  BY DEF Reply
<1> QED
  BY <1>1, HearInv DEF Fail

LEMMA VanishInv ==
  ASSUME PipelineInv, NEW h \in Handler, Vanish(h) PROVE PipelineInv'
<1>1. JobInv(Idle)
  BY IdleIsJob DEF JobInv
<1> QED
  BY <1>1, IdleIsJob, OneJob DEF Vanish, PipelineInv, TypeOK

(***************************************************************************)
(* The run is committed; it is condemned exactly when its handler goes on  *)
(* to the queue.                                                           *)
(***************************************************************************)
LEMMA PersistInv ==
  ASSUME PipelineInv, NEW h \in Handler, Persist(h) PROVE PipelineInv'
<1> DEFINE run == NewRun(job[h].checks, job[h].talk, job[h].answer)
           n == Len(runs) + 1
           condemned == ShouldQuarantine(run.verdict, SoftHold)
           q == [Idle EXCEPT !.pc = "quarantine", !.run = Len(runs')]
           j == IF condemned THEN q ELSE Idle
<1>1. /\ job[h].pc = "persist" /\ runs' = Append(runs, run)
      /\ job' = [job EXCEPT ![h] = j] /\ UNCHANGED <<mail, llm, started, queued, lost>>
  BY DEF Persist
<1>2. /\ run \in Run /\ Conversation(job[h].talk, job[h].answer)
      /\ job[h].checks = RunDeterministicChecks(mail)
      /\ job[h].talk \in Talk /\ job[h].answer \in Seq(Answer)
  BY <1>1, ThisJob, NewRunType DEF JobInv
<1>3. RunInv(run)
  BY <1>2 DEF RunInv
<1> HIDE DEF run
<1>4. /\ runs \in Seq(Run) /\ Len(runs) \in Nat
  BY DEF PipelineInv, TypeOK
<1>5. /\ runs' \in Seq(Run) /\ Len(runs') = n /\ DOMAIN runs' = DOMAIN runs \cup {n}
      /\ n \notin DOMAIN runs
      /\ \A i \in DOMAIN runs : runs'[i] = runs[i]
      /\ runs'[n] = run
  BY <1>1, <1>2, <1>4, AppendProperties
<1>6. /\ j \in Job
      /\ condemned => j.pc = "quarantine" /\ j.run = n
      /\ ~condemned => j.pc = "idle"
  <2>1. Len(runs') \in Nat /\ Len(runs') = n
    BY <1>4, <1>5
  <2> HIDE DEF n, condemned
  <2>2. q \in Job /\ q.pc = "quarantine" /\ q.run = n
    BY <2>1, IdleIsJob DEF Job
  <2> HIDE DEF q
  <2> QED
    BY <2>2, IdleIsJob
<1> HIDE DEF j, n, condemned
<1>7. TypeOK'
  BY <1>1, <1>5, <1>6 DEF PipelineInv, TypeOK
<1>8. ASSUME NEW g \in Handler PROVE JobInv(job[g])'
  <2>1. JobInv(job'[g])
    BY <1>1, <1>6, ThisJob DEF PipelineInv, TypeOK, JobInv
  <2> QED
    BY <1>1, <2>1 DEF JobInv, Conversation
<1>9. ASSUME NEW i \in DOMAIN runs' PROVE RunInv(runs[i])'
  <2>1. RunInv(runs'[i])
    BY <1>3, <1>5 DEF PipelineInv
  <2>2. mail' = mail /\ llm' = llm
    BY <1>1
  <2>3. ASSUME NEW checks, NEW talk, NEW answer
        PROVE  /\ NewRun(checks, talk, answer)' = NewRun(checks, talk, answer)
               /\ Conversation(talk, answer)' = Conversation(talk, answer)
    BY <2>2 DEF NewRun, Conversation
  <2> QED
    BY <2>1, <2>2, <2>3 DEF RunInv
<1>10. CondemnedReachesQueue'
  <2> DEFINE C == {i \in DOMAIN runs : ShouldQuarantine(runs[i].verdict, SoftHold)}
             P == {job[g].run : g \in {k \in Handler : job[k].pc = "quarantine"}}
  <2>1. C = queued \cup lost \cup P
    BY DEF PipelineInv, CondemnedReachesQueue
  <2>2. C' = C \cup (IF condemned THEN {n} ELSE {})
    BY <1>5 DEF condemned
  <2>3. P' = P \cup (IF condemned THEN {n} ELSE {})
    <3>1. /\ job'[h] = j /\ \A g \in Handler \ {h} : job'[g] = job[g]
      BY <1>1 DEF PipelineInv, TypeOK
    <3>2. \A x : x \in P' <=> x \in P \/ (condemned /\ x = n)
      BY <1>1, <1>6, <3>1
    <3> QED
      BY <3>2
  <2> HIDE DEF C, P
  <2>4. C' = queued' \cup lost' \cup P'
    BY <1>1, <2>1, <2>2, <2>3
  <2> QED
    BY <2>4 DEF CondemnedReachesQueue, C, P
<1> QED
  BY <1>7, <1>8, <1>9, <1>10 DEF PipelineInv

\* The quarantine step takes its run off the handler and on record, done or
\* lost.
LEMMA QueueStepInv ==
  ASSUME PipelineInv, NEW h \in Handler, job[h].pc = "quarantine",
         job' = [job EXCEPT ![h] = Idle],
         queued' \cup lost' = queued \cup lost \cup {job[h].run},
         UNCHANGED <<mail, llm, runs, started>>
  PROVE  PipelineInv'
<1> DEFINE C == {i \in DOMAIN runs : ShouldQuarantine(runs[i].verdict, SoftHold)}
           P == {job[g].run : g \in {k \in Handler : job[k].pc = "quarantine"}}
<1>1. C = queued \cup lost \cup P
  BY DEF PipelineInv, CondemnedReachesQueue
<1>2. /\ job'[h] = Idle /\ \A g \in Handler \ {h} : job'[g] = job[g]
  BY DEF PipelineInv, TypeOK
<1>3. C' = C
  OBVIOUS
<1>4. P = P' \cup {job[h].run}
  <2>1. \A x : x \in P <=> x \in P' \/ x = job[h].run
    BY <1>2, IdleIsJob
  <2> QED
    BY <2>1
<1>5. job[h].run \in DOMAIN runs
  BY <1>1, <1>4
<1>6. TypeOK'
  <2>1. queued' \cup lost' \subseteq DOMAIN runs'
    BY <1>5 DEF PipelineInv, TypeOK
  <2> QED
    BY <2>1, IdleIsJob DEF PipelineInv, TypeOK
<1>7. ASSUME NEW g \in Handler PROVE JobInv(job[g])'
  <2>1. JobInv(job'[g])
    BY <1>2, IdleIsJob, ThisJob DEF JobInv
  <2> QED
    BY <2>1 DEF JobInv, Conversation
<1>8. \A i \in DOMAIN runs' : RunInv(runs[i])'
  BY SameRuns
<1>9. CondemnedReachesQueue'
  <2> HIDE DEF C, P
  <2>1. C' = queued' \cup lost' \cup P'
    BY <1>1, <1>3, <1>4
  <2> QED
    BY <2>1 DEF CondemnedReachesQueue, C, P
<1> QED
  BY <1>6, <1>7, <1>8, <1>9 DEF PipelineInv

LEMMA PipelineInitInv == Init => PipelineInv
<1> SUFFICES ASSUME Init PROVE PipelineInv
  OBVIOUS
<1>1. TypeOK
  BY IdleIsJob, APConstants DEF Init, TypeOK
<1>2. \A h \in Handler : JobInv(job[h])
  BY IdleIsJob DEF Init, JobInv
<1>3. CondemnedReachesQueue
  <2>1. {h \in Handler : job[h].pc = "quarantine"} = {}
    BY IdleIsJob DEF Init
  <2> QED
    BY <2>1 DEF Init, CondemnedReachesQueue
<1> QED
  BY <1>1, <1>2, <1>3 DEF Init, PipelineInv

LEMMA PipelineStepInv == PipelineInv /\ [Next]_vars => PipelineInv'
<1> SUFFICES ASSUME PipelineInv, [Next]_vars PROVE PipelineInv'
  OBVIOUS
<1>1. CASE UNCHANGED vars
  <2>1. TypeOK' /\ CondemnedReachesQueue'
    BY <1>1 DEF vars, PipelineInv, TypeOK, CondemnedReachesQueue
  <2>2. \A h \in Handler : JobInv(job[h])'
    BY <1>1 DEF vars, PipelineInv, JobInv, Conversation
  <2>3. \A i \in DOMAIN runs' : RunInv(runs[i])'
    BY <1>1, SameRuns DEF vars
  <2> QED
    BY <2>1, <2>2, <2>3 DEF PipelineInv
<1>2. ASSUME NEW h \in Handler, Quarantine(h) \/ QuarantineFails(h)
      PROVE  PipelineInv'
  BY <1>2, QueueStepInv DEF Quarantine, QuarantineFails
<1>3. ASSUME NEW h \in Handler, Start(h) \/ Advance(h) \/ Vanish(h)
      PROVE  PipelineInv'
  BY <1>2, <1>3, StartInv, ReceiveInv, FailInv, PersistInv, VanishInv DEF Advance
<1> QED
  BY <1>1, <1>3 DEF Next

-----------------------------------------------------------------------------
(***************************************************************************)
(* The invariant holds in every behaviour.                                 *)
(***************************************************************************)
THEOREM PipelineInvariant == Spec => []PipelineInv
BY PipelineInitInv, PipelineStepInv, PTL DEF Spec

(***************************************************************************)
(* All that is stored of an analysis is in its range, whatever text the    *)
(* model returned.                                                         *)
(***************************************************************************)
THEOREM TypeCorrect == Spec => []TypeOK
BY PipelineInvariant, PTL DEF PipelineInv

(***************************************************************************)
(* What an analysis condemns reaches the queue, is on its way, or failed.  *)
(***************************************************************************)
THEOREM CondemnedAreQueued == Spec => []CondemnedReachesQueue
BY PipelineInvariant, PTL DEF PipelineInv

(***************************************************************************)
(* A run tells whether the model answered, and how it was asked.           *)
(***************************************************************************)
THEOREM SourceIsTold == Spec => []RunTellsItsSource
<1>1. ASSUME PipelineInv PROVE RunTellsItsSource
  <2>1. ASSUME NEW i \in DOMAIN runs
        PROVE  LET r == runs[i]
                   answered == r.talk # << >> /\ r.talk[Len(r.talk)] = "valid"
               IN  /\ (r.status = "complete") <=> answered
                   /\ (r.provider = "ollama") <=> answered
                   /\ (r.llm # << >>) <=> answered
                   /\ r.named <=> (\E k \in DOMAIN r.talk : r.talk[k] # "error")
                   /\ Len(r.talk) = 2 => r.talk[1] = "malformed"
    <3>1. PICK talk \in Talk, answer \in Seq(Answer) :
            SourceOf(runs[i], talk, answer) /\ Conversation(talk, answer)
      BY <1>1, RunColumns
    <3> DEFINE r == runs[i]
    <3>3. /\ (r.status = "complete") <=> answer # << >>
          /\ (r.provider = "ollama") <=> answer # << >>
          /\ (r.llm # << >>) <=> answer # << >>
          /\ r.named <=> (talk # << >> /\ talk[1] # "error")
          /\ r.talk = talk
      BY <3>1 DEF SourceOf
    <3> HIDE DEF r
    <3>4. CASE talk = << >> /\ answer = << >>
      BY <3>3, <3>4 DEF r
    <3>5. CASE talk # << >>
      <4>1. PICK last \in Reply : /\ talk = <<last>> \/ talk = <<"malformed", last>>
                                  /\ (last = "valid") <=> (answer # << >>)
        BY <3>1, <3>5 DEF Conversation
      <4>2. CASE talk = <<last>>
        <5>1. /\ Len(talk) = 1 /\ talk[Len(talk)] = last /\ talk[1] = last
              /\ (\E k \in DOMAIN talk : talk[k] # "error") <=> talk[1] # "error"
          BY <4>2
        <5> QED
          BY <3>3, <3>5, <4>1, <5>1 DEF r
      <4>3. CASE talk = <<"malformed", last>>
        <5>1. Len(talk) = 2 /\ talk[1] = "malformed" /\ talk[2] = last /\ 1 \in DOMAIN talk
          BY <4>3
        <5>2. /\ talk[Len(talk)] = last /\ talk[1] # "error"
              /\ \E k \in DOMAIN talk : talk[k] # "error"
          BY <5>1
        <5> QED
          BY <3>3, <3>5, <4>1, <5>1, <5>2 DEF r
      <4> QED
        BY <4>1, <4>2, <4>3
    <3> QED
      BY <3>1, <3>4, <3>5 DEF Conversation
  <2> QED
    BY <2>1 DEF RunTellsItsSource
<1> QED
  BY <1>1, PipelineInvariant, PTL

\* The levels of two answers of the model, by their risks.
LEMMA HigherAnswerLevel ==
  ASSUME NEW det \in Score, NEW a \in Score, NEW b \in Score, a <= b
  PROVE  Level(Weigh(det, a)) <= Level(Weigh(det, b))
<1>1. Weigh(det, a) <= Weigh(det, b)
  BY WeighMonotone
<1>2. \A x \in Score : x \in Int
  BY DEF Score
<1>3. Weigh(det, a) \in Int /\ Weigh(det, b) \in Int
  BY <1>2, WeighBetween
<1> QED
  BY <1>1, <1>3, LevelMonotone

\* The level of an answer that sees no more than the checks, and the level
\* the checks have without an answer.
LEMMA NoAnswerLevel ==
  ASSUME NEW det \in Score, NEW a \in Score, a <= det
  PROVE  Level(Weigh(det, a)) <= Level(Min({One, det + 1000}))
<1>1. Weigh(det, a) <= det /\ Weigh(det, a) \in Int /\ det \in Int /\ det <= One
  <2>1. \A x \in Score : x \in Int /\ x <= One
    BY DEF Score, One
  <2> QED
    BY <2>1, WeighBetween
<1>2. Min({One, det + 1000}) = IF One < det + 1000 THEN One ELSE det + 1000
  BY <1>1, MinOfTwo DEF One
<1>3. Min({One, det + 1000}) \in Int /\ Weigh(det, a) <= Min({One, det + 1000})
  BY <1>1, <1>2 DEF One
<1> QED
  BY <1>1, <1>3, LevelMonotone

(***************************************************************************)
(* The order of verdicts: a higher risk of the model gets no laxer one,    *)
(* nor does an analysis without the model compared with one whose model    *)
(* saw no more than the checks.  The thresholds may be any.  In the code   *)
(* the confidence of a run that has an answer does not matter, and the     *)
(* proof does not use it.                                                  *)
(***************************************************************************)
THEOREM VerdictsAreOrdered == Spec => []StricterWhenUnsure
<1>1. ASSUME PipelineInv PROVE StricterWhenUnsure
  <2>1. ASSUME NEW i \in DOMAIN runs, NEW k \in DOMAIN runs, runs[i].llm # << >>,
               runs[i].llm[1] <= (IF runs[k].llm = << >> THEN runs[i].det
                                                         ELSE runs[k].llm[1])
        PROVE  Strictness(runs[i].verdict) <= Strictness(runs[k].verdict)
    <3> DEFINE checks == RunDeterministicChecks(mail)
    <3>1. checks \in Checks
      BY <1>1, RunColumns
    <3>2. PICK a \in Seq(Answer) : ScoresOf(runs[i], checks, a)
      BY <1>1, RunColumns
    <3>3. PICK b \in Seq(Answer) : ScoresOf(runs[k], checks, b)
      BY <1>1, RunColumns
    <3> HIDE DEF checks
    <3>4. /\ runs[i].det = checks.risk
          /\ a # << >> /\ runs[i].llm[1] = a[1].risk
          /\ Strictness(runs[i].verdict) = Level(Weigh(checks.risk, a[1].risk))
      BY <2>1, <3>2 DEF ScoresOf
    <3>5. /\ b = << >> =>
               runs[k].llm = << >>
                 /\ Strictness(runs[k].verdict) = Level(Min({One, checks.risk + 1000}))
          /\ b # << >> =>
               runs[k].llm # << >> /\ runs[k].llm[1] = b[1].risk
                 /\ Strictness(runs[k].verdict) = Level(Weigh(checks.risk, b[1].risk))
      BY <3>3 DEF ScoresOf
    <3>6. /\ checks.risk \in Score /\ a[1].risk \in Score
          /\ b # << >> => b[1].risk \in Score
      <4>1. a[1] \in Answer /\ (b # << >> => b[1] \in Answer)
        BY <3>4
      <4>2. \A x \in Answer : x.risk \in Score
        BY DEF Answer
      <4> QED
        BY <3>1, <4>1, <4>2 DEF Checks
    <3>7. CASE b # << >>
      <4>1. a[1].risk <= b[1].risk
        BY <2>1, <3>4, <3>5, <3>7
      <4>2. Level(Weigh(checks.risk, a[1].risk)) <= Level(Weigh(checks.risk, b[1].risk))
        <5> DEFINE det == checks.risk
                   x == a[1].risk
                   y == b[1].risk
        <5>1. det \in Score /\ x \in Score /\ y \in Score /\ x <= y
          BY <3>6, <3>7, <4>1
        <5> HIDE DEF det, x, y
        <5>2. Level(Weigh(det, x)) <= Level(Weigh(det, y))
          BY <5>1, HigherAnswerLevel
        <5> QED
          BY <5>2 DEF det, x, y
      <4> QED
        BY <3>4, <3>5, <3>7, <4>2
    <3>8. CASE b = << >>
      <4> DEFINE det == checks.risk
                 x == a[1].risk
      <4>1. det \in Score /\ x \in Score /\ x <= det
        BY <2>1, <3>4, <3>5, <3>6, <3>8
      <4> HIDE DEF det, x
      <4>2. Level(Weigh(det, x)) <= Level(Min({One, det + 1000}))
        BY <4>1, NoAnswerLevel
      <4>3. /\ Strictness(runs[i].verdict) = Level(Weigh(det, x))
            /\ Strictness(runs[k].verdict) = Level(Min({One, det + 1000}))
        BY <3>4, <3>5, <3>8 DEF det, x
      <4> QED
        BY <4>2, <4>3
    <3> QED
      BY <3>7, <3>8
  <2> QED
    BY <2>1 DEF StricterWhenUnsure
<1> QED
  BY <1>1, PipelineInvariant, PTL

(***************************************************************************)
(* What the checks found cannot be talked away: no dimension of a run is   *)
(* below a finding that targets it, whatever the model answered.           *)
(***************************************************************************)
THEOREM FindingsAreShown == Spec => [](\A i \in DOMAIN runs : DimensionsShowFindings(runs[i]))
<1>1. ASSUME PipelineInv PROVE \A i \in DOMAIN runs : DimensionsShowFindings(runs[i])
  <2> SUFFICES ASSUME NEW i \in DOMAIN runs PROVE DimensionsShowFindings(runs[i])
    OBVIOUS
  <2> DEFINE checks == RunDeterministicChecks(mail)
  <2>1. mail \in Mails /\ mail \in Message
    BY <1>1, APConstants DEF PipelineInv, TypeOK
  <2>2. /\ checks \in Checks
        /\ \A d \in Dimension : checks.dims[d] = DimensionScore(Findings(mail), d)
    BY <2>1, ChecksType DEF RunDeterministicChecks
  <2>3. PICK answer \in Seq(Answer) : ScoresOf(runs[i], checks, answer)
    BY <1>1, RunColumns
  <2> HIDE DEF checks
  <2>4. ASSUME NEW f \in Findings(mail), NEW d \in DimensionsOf(f.rule)
        PROVE  runs[i].dims[d] >= 100 * f.severity
    <3>1. d \in Dimension
      BY DEF DimensionsOf, Dimension
    <3>2. runs[i].dims[d] = StoredDimension(checks, answer, d)
      BY <2>3, <3>1 DEF ScoresOf
    <3>3. /\ StoredDimension(checks, answer, d) \in Score
          /\ StoredDimension(checks, answer, d) >= DimensionScore(Findings(mail), d)
      BY <2>2, <3>1, StoredDimensionFacts
    <3>4. /\ DimensionScore(Findings(mail), d) \in Score
          /\ DimensionScore(Findings(mail), d) >= 100 * f.severity
      BY <2>1, <3>1, DimensionScoreFacts
    <3>5. f.severity \in 0 .. 100
      BY <2>1, SeverityRange
    <3>6. \A x \in Score : x \in Int
      BY DEF Score
    <3> DEFINE p == runs[i].dims[d]
               q == DimensionScore(Findings(mail), d)
               w == StoredDimension(checks, answer, d)
               v == 100 * f.severity
    <3>7. p = w
      BY <3>2
    <3>9. w >= q /\ w \in Int /\ q \in Int
      BY <3>3, <3>4, <3>6
    <3>10. q >= v /\ v \in Int
      <4>1. \A n \in 0 .. 100 : 100 * n \in Int
        OBVIOUS
      <4>2. v \in Int
        BY <3>5, <4>1, Zenon
      <4> QED
        BY <3>4, <4>2
    <3> HIDE DEF p, q, v, w
    <3>8. p >= v
      BY <3>7, <3>9, <3>10
    <3> QED
      BY <3>8 DEF p, v
  <2> QED
    BY <2>4 DEF DimensionsShowFindings
<1> QED
  BY <1>1, PipelineInvariant, PTL
(***************************************************************************)
(* Where a high risk of the checks leads: the verdict is not "allow"       *)
(* however little the model sees in the message, and without an answer it  *)
(* is at least "quarantine".                                               *)
(***************************************************************************)
LEMMA HighRiskLevel ==
  ASSUME NEW det \in Score, det >= 6600, NEW a \in Score, Thresholds.allow < 2640
  PROVE  Level(Weigh(det, a)) # 0
<1>1. Weigh(det, a) \in Int /\ Weigh(det, a) >= 2640
  <2>1. 4 * det + 6 * a \in Nat /\ 4 * det + 6 * a >= 26400
    BY DEF Score
  <2>2. ASSUME NEW x \in Nat, x >= 26400
        PROVE  (2 * x + 10) \div 20 \in Int /\ (2 * x + 10) \div 20 >= 2640
    BY <2>2
  <2> QED
    BY <2>1, <2>2 DEF Weigh, RoundDiv
<1>2. Thresholds.allow \in Int
  BY ThresholdsAreNumbers
<1> DEFINE x == Weigh(det, a)
<1>3. x \in Int /\ x >= 2640
  BY <1>1
<1> HIDE DEF x
<1>4. Level(x) # 0
  BY <1>2, <1>3 DEF Level
<1> QED
  BY <1>4 DEF x

LEMMA HighRiskUnanswered ==
  ASSUME NEW det \in Score, det >= 6600, Thresholds.allow < 7600,
         Thresholds.allow_with_banner < 7600, Thresholds.soft_hold < 7600
  PROVE  Level(Min({One, det + 1000})) >= 3
<1>1. det + 1000 \in Int /\ One \in Int /\ det + 1000 >= 7600 /\ One >= 7600
  BY DEF Score, One
<1> DEFINE e == Min({One, det + 1000})
<1>2. e \in Int /\ e >= 7600
  BY <1>1, MinOfTwo
<1> HIDE DEF e
<1>3. Level(e) >= 3
  BY <1>2, ThresholdsAreNumbers DEF Level
<1> QED
  BY <1>3 DEF e

(***************************************************************************)
(* Hard evidence holds.  With the thresholds of app/config.py, and any     *)
(* others that are not much higher, a message with an attachment of a      *)
(* high-risk type never gets the verdict `allow', whatever else the        *)
(* message contains and whatever the model answers, and goes to quarantine *)
(* when the model does not; and no dimension hides a finding.              *)
(***************************************************************************)
THEOREM EvidenceStands ==
  ASSUME Thresholds.allow < 2640, Thresholds.allow_with_banner < 7600,
         Thresholds.soft_hold < 7600
  PROVE  Spec => []EvidenceHolds
<1>1. ASSUME PipelineInv, \A i \in DOMAIN runs : DimensionsShowFindings(runs[i])
      PROVE  EvidenceHolds
  <2>1. ASSUME NEW i \in DOMAIN runs, mail.high > 0
        PROVE  /\ runs[i].verdict # "allow"
               /\ runs[i].status = "degraded" => Strictness(runs[i].verdict) >= 3
    <3> DEFINE checks == RunDeterministicChecks(mail)
               det == checks.risk
    <3>1. mail \in Message /\ checks \in Checks
      BY <1>1, RunColumns, APConstants
    <3>2. PICK talk \in Talk, answer \in Seq(Answer) :
            /\ SourceOf(runs[i], talk, answer)
            /\ ScoresOf(runs[i], checks, answer)
      BY <1>1, RunColumns
    <3>3. det \in Score /\ det >= 6600
      BY <2>1, <3>1, RiskScoreFacts DEF RunDeterministicChecks
    <3>4. answer # << >> => answer[1].risk \in Score
      <4>1. answer # << >> => answer[1] \in Answer
        OBVIOUS
      <4> QED
        BY <4>1 DEF Answer
    <3>5. /\ runs[i].status = "degraded" => answer = << >>
          /\ answer = << >> => Strictness(runs[i].verdict) = Level(Min({One, det + 1000}))
          /\ answer # << >> =>
               Strictness(runs[i].verdict) = Level(Weigh(det, answer[1].risk))
      BY <3>2 DEF SourceOf, ScoresOf
    <3>6. Strictness("allow") = 0
      BY DEF Strictness
    <3> HIDE DEF det, checks
    <3>7. CASE answer = << >>
      <4>1. Thresholds.allow < 7600
        BY ThresholdsAreNumbers
      <4>2. Level(Min({One, det + 1000})) >= 3
        BY <3>3, <4>1, HighRiskUnanswered
      <4> QED
        BY <3>5, <3>6, <3>7, <4>2
    <3>8. CASE answer # << >>
      <4> DEFINE a == answer[1].risk
      <4>1. a \in Score
        BY <3>4, <3>8
      <4>2. Strictness(runs[i].verdict) = Level(Weigh(det, a))
        BY <3>5, <3>8
      <4> HIDE DEF a
      <4>3. Level(Weigh(det, a)) # 0
        BY <3>3, <4>1, HighRiskLevel
      <4> QED
        BY <3>5, <3>6, <3>8, <4>2, <4>3
    <3> QED
      BY <3>7, <3>8
  <2> QED
    BY <1>1, <2>1 DEF EvidenceHolds
<1> QED
  BY <1>1, PipelineInvariant, FindingsAreShown, PTL

-----------------------------------------------------------------------------
(***************************************************************************)
(* How an analysis ends.  The liveness property EveryAnalysisEnds is       *)
(* TLC's; what is proved here is the other half of its argument, a         *)
(* measure: the steps a handler has before it at most.                     *)
(***************************************************************************)
StepsLeft(j) ==
  CASE j.pc = "ask"        -> 4
    [] j.pc = "retry"      -> 3
    [] j.pc = "persist"    -> 2
    [] j.pc = "quarantine" -> 1
    [] j.pc = "idle"       -> 0

LEMMA StepsAreNumbers ==
  ASSUME NEW j \in Job
  PROVE  StepsLeft(j) \in 0 .. 4 /\ (StepsLeft(j) = 0) <=> (j.pc = "idle")
BY DEF StepsLeft, Job

\* What is heard of the model brings the handler forward.
LEMMA HearAdvances ==
  ASSUME TypeOK, NEW h \in Handler, NEW reply, NEW pc, NEW answer, Hear(h, reply, pc, answer),
         pc = "persist" \/ (pc = "retry" /\ job[h].pc = "ask")
  PROVE  /\ \A g \in Handler \ {h} : job'[g] = job[g]
         /\ StepsLeft(job'[h]) < StepsLeft(job[h])
<1>1. /\ job' = [job EXCEPT ![h] = [job[h] EXCEPT !.pc = pc, !.answer = answer,
                                                 !.talk = Append(@, reply)]]
      /\ job[h].pc \in {"ask", "retry"} /\ job[h] \in Job /\ job \in [Handler -> Job]
  BY DEF Hear, TypeOK
<1>2. job'[h].pc = pc /\ \A g \in Handler \ {h} : job'[g] = job[g]
  BY <1>1 DEF Job
<1> QED
  BY <1>1, <1>2 DEF StepsLeft

\* So does every other step of a handler that is at work.
LEMMA StepAdvances ==
  ASSUME TypeOK, NEW h \in Handler, Advance(h) \/ Vanish(h)
  PROVE  /\ \A g \in Handler \ {h} : job'[g] = job[g]
         /\ StepsLeft(job'[h]) < StepsLeft(job[h])
<1>1. ASSUME NEW raw \in Raws, Receive(h, raw)
      PROVE  \E reply, pc, answer :
               /\ Hear(h, reply, pc, answer)
               /\ pc = "persist" \/ (pc = "retry" /\ job[h].pc = "ask")
  BY <1>1 DEF Receive
<1>2. CASE \E raw \in Raws : Receive(h, raw)
  BY <1>1, <1>2, HearAdvances
<1>3. CASE Fail(h)
  BY <1>3, HearAdvances DEF Fail
<1>4. job \in [Handler -> Job] /\ Idle.pc = "idle"
  BY DEF TypeOK, Idle
<1>5. CASE Persist(h)
  <2> DEFINE run == NewRun(job[h].checks, job[h].talk, job[h].answer)
             q == [Idle EXCEPT !.pc = "quarantine", !.run = Len(runs')]
             j == IF ShouldQuarantine(run.verdict, SoftHold) THEN q ELSE Idle
  <2>1. job' = [job EXCEPT ![h] = j] /\ job[h].pc = "persist"
    BY <1>5 DEF Persist
  <2>2. q.pc = "quarantine"
    BY DEF Idle
  <2> HIDE DEF q, run
  <2>3. j.pc \in {"quarantine", "idle"}
    BY <1>4, <2>2
  <2> HIDE DEF j
  <2> QED
    BY <1>4, <2>1, <2>3 DEF StepsLeft
<1>6. CASE Quarantine(h) \/ QuarantineFails(h) \/ Vanish(h)
  <2>1. job' = [job EXCEPT ![h] = Idle] /\ job[h].pc \in {"ask", "retry", "persist", "quarantine"}
    BY <1>6 DEF Quarantine, QuarantineFails, Vanish
  <2> QED
    BY <1>4, <2>1 DEF StepsLeft
<1> QED
  BY <1>2, <1>3, <1>5, <1>6 DEF Advance

(***************************************************************************)
(* An analysis takes four steps of its handler at most, whatever the model *)
(* returns and however its steps fail: each of them brings it nearer to    *)
(* its end, and nothing another handler does takes it back.  The model is  *)
(* asked twice at most, and no failure starts the analysis again.          *)
(***************************************************************************)
THEOREM AnalysesEnd ==
  Spec => /\ [](\A h \in Handler : StepsLeft(job[h]) \in 0 .. 4
                                   /\ (StepsLeft(job[h]) = 0) <=> (job[h].pc = "idle"))
          /\ [][\A h \in Handler : job[h].pc # "idle" =>
                  job'[h] = job[h] \/ StepsLeft(job'[h]) < StepsLeft(job[h])]_vars
          /\ [][\A h \in Handler : Advance(h) => StepsLeft(job'[h]) < StepsLeft(job[h])]_vars
<1>1. TypeOK => \A h \in Handler : StepsLeft(job[h]) \in 0 .. 4
                                   /\ (StepsLeft(job[h]) = 0) <=> (job[h].pc = "idle")
  BY StepsAreNumbers DEF TypeOK
<1>2. ASSUME TypeOK, [Next]_vars, NEW h \in Handler, job[h].pc # "idle"
      PROVE  job'[h] = job[h] \/ StepsLeft(job'[h]) < StepsLeft(job[h])
  <2>1. CASE UNCHANGED vars
    BY <2>1 DEF vars
  <2>2. ASSUME NEW g \in Handler, Start(g) PROVE job'[h] = job[h]
    BY <1>2, <2>2 DEF Start, TypeOK
  <2>3. ASSUME NEW g \in Handler, Advance(g) \/ Vanish(g)
        PROVE  job'[h] = job[h] \/ StepsLeft(job'[h]) < StepsLeft(job[h])
    BY <1>2, <2>3, StepAdvances
  <2> QED
    BY <1>2, <2>1, <2>2, <2>3 DEF Next
<1>3. TypeOK /\ [Next]_vars =>
        \A h \in Handler : job[h].pc # "idle" =>
          job'[h] = job[h] \/ StepsLeft(job'[h]) < StepsLeft(job[h])
  BY <1>2
<1>4. TypeOK => \A h \in Handler : Advance(h) => StepsLeft(job'[h]) < StepsLeft(job[h])
  BY StepAdvances
<1> QED
  BY <1>1, <1>3, <1>4, TypeCorrect, PTL DEF Spec
=============================================================================
