---------------------------- MODULE VerdictScoring ----------------------------
(***************************************************************************)
(* How the analysis scores a message: the deterministic checks of          *)
(* app/analysis/deterministic.py, the answer of the language model as      *)
(* app/analysis/prompt.py reads it, their combination in                   *)
(* app/analysis/service.py and the verdict of app/policies/verdict.py.     *)
(*                                                                         *)
(* Scores are numbers between 0 and 1 that are rounded to four decimals:   *)
(* here they are counted in ten-thousandths, and the severities of         *)
(* findings, which have two decimals, in hundredths.  What the checks find *)
(* in the text of a message (a brand in a name, a domain in a link, a      *)
(* pattern) is a fact of the message.                                      *)
(***************************************************************************)
EXTENDS PolicyVerdict, Naturals, Integers, FiniteSetsExt

Dimension == {"authority_pressure", "urgency_pressure", "scarcity", "fear_threat",
              "reward_lure", "curiosity_bait", "reciprocity_obligation", "social_proof",
              "secrecy_isolation", "impersonation", "compliance_escalation",
              "credential_or_payment_capture"}

One == 10000

\* a / b, rounded.
RoundDiv(a, b) == (2 * a + b) \div (2 * b)

-----------------------------------------------------------------------------
(* The deterministic checks *)

(***************************************************************************)
(* A message as _build_parsed_message_from_orm rebuilds it for the checks. *)
(* `differs' is the text of a link that names another host.  The counts of *)
(* patterns are of those that match, in the four tables of the source.     *)
(***************************************************************************)
Url == [source : {"html", "text"}, text : {"none", "agrees", "differs"},
        host : {"short", "deep", "ip"}, credPath : BOOLEAN]

Message == [from : BOOLEAN, replyTo : {"none", "same", "other"}, brand : BOOLEAN,
            urls : SUBSET Url, high : Nat, medium : Nat,
            plain : BOOLEAN, html : BOOLEAN, text : BOOLEAN,
            credential : 0 .. 8, payment : 0 .. 5, urgency : 0 .. 5, fear : 0 .. 4,
            dkim : BOOLEAN, spf : BOOLEAN]

\* Finding, and how often it was made.
Finding(rule, severity, times) == [rule |-> rule, severity |-> severity, times |-> times]

Once(rule, severity, condition) == Finding(rule, severity, IF condition THEN 1 ELSE 0)

CheckReplyTo(m) ==
  {Once("display_name_reply_to_mismatch", 75, m.from /\ m.replyTo = "other"),
   Once("brand_impersonation_display_name", 85, m.from /\ m.brand)}

\* One finding at most, however many links mislead.
CheckLinkText(m) ==
  {Once("link_text_href_mismatch", 80,
        \E u \in m.urls : u.source = "html" /\ u.text = "differs")}

\* An address has four labels, and counts as a deep host as well.
CheckUrlStructure(m) ==
  {Once("url_ip_address_host", 65, \E u \in m.urls : u.host = "ip"),
   Once("url_excessive_subdomains", 45, \E u \in m.urls : u.host \in {"ip", "deep"}),
   Once("url_credential_path", 55, \E u \in m.urls : u.credPath)}

CheckAttachments(m) ==
  {Finding("risky_attachment_high", 90, m.high),
   Finding("risky_attachment_medium", 50, m.medium)}

\* A finding for a table of patterns, stronger the more of them match.
Language(rule, base, cap, matched, body) ==
  Once(rule, Min({base + 10 * matched, cap}), body /\ matched > 0)

\* Without a body nothing is looked for, in the subject either.
CheckLanguage(m) ==
  {Language("credential_capture_language", 40, 95, m.credential, m.text),
   Language("payment_language", 35, 85, m.payment, m.text),
   Language("urgency_language", 30, 80, m.urgency, m.text),
   Language("fear_threat_language", 40, 90, m.fear, m.text)}

CheckHtmlOnly(m) ==
  {Once("html_only_no_plain_text", 25, m.html /\ ~m.plain)}

CheckAuthHeaders(m) ==
  {Once("missing_dkim_signature", 20, ~m.dkim),
   Once("missing_spf_results", 15, ~m.spf)}

DimensionsOf(rule) ==
  CASE rule = "display_name_reply_to_mismatch" -> {"impersonation", "secrecy_isolation"}
    [] rule \in {"link_text_href_mismatch", "credential_capture_language"} ->
         {"impersonation", "credential_or_payment_capture"}
    [] rule \in {"url_credential_path", "risky_attachment_high",
                 "risky_attachment_medium", "payment_language"} ->
         {"credential_or_payment_capture"}
    [] rule = "urgency_language" -> {"urgency_pressure", "authority_pressure"}
    [] rule = "fear_threat_language" -> {"fear_threat", "compliance_escalation"}
    [] rule = "html_only_no_plain_text" -> {"secrecy_isolation"}
    [] OTHER -> {"impersonation"}

\* All that is found.
Findings(m) ==
  {f \in CheckReplyTo(m) \cup CheckLinkText(m) \cup CheckUrlStructure(m)
           \cup CheckAttachments(m) \cup CheckLanguage(m) \cup CheckHtmlOnly(m)
           \cup CheckAuthHeaders(m) : f.times > 0}

Severities(findings) == {f.severity : f \in findings}

\* The strongest finding of a dimension, 0 where there is none.
DimensionScore(findings, d) ==
  100 * Max({0} \cup Severities({f \in findings : d \in DimensionsOf(f.rule)}))

\* 0.6 of the strongest of n findings and 0.4 of their mean.
Pulled(top, sum, n) == Min({RoundDiv(60 * top * n + 40 * sum, n), One})

RiskScore(findings) ==
  IF findings = {} THEN 0
  ELSE Pulled(Max(Severities(findings)),
              SumFunction([f \in findings |-> f.severity * f.times]),
              SumFunction([f \in findings |-> f.times]))

\* run_deterministic_checks: a DeterministicResult.
RunDeterministicChecks(m) ==
  LET findings == Findings(m)
  IN  [risk |-> RiskScore(findings),
       dims |-> [d \in Dimension |-> DimensionScore(findings, d)]]

-----------------------------------------------------------------------------
(* The answer of the language model *)

Clamp(n) == Max({0, Min({One, n})})

(***************************************************************************)
(* A text the model may return.  `object' says that an object of numbers   *)
(* was found between its first and its last brace; a field is << >> or     *)
(* holds a number, which need not be a score.                              *)
(***************************************************************************)
Read(field, default) == IF field = << >> THEN default ELSE Clamp(field[1])

\* Mutant: the dimensions are taken as they are.
ParseLlmResponseUnclamped(raw) ==
  IF raw.object /\ Dimension \subseteq DOMAIN raw.dims
  THEN <<[risk |-> Read(raw.risk, 0), confidence |-> Read(raw.confidence, 5000),
          dims |-> [d \in Dimension |-> raw.dims[d]]]>>
  ELSE << >>

\* parse_llm_response: << >> when it is no answer.  All dimensions must be
\* there; a missing overall_risk counts as 0, a missing confidence as 0.5.
ParseLlmResponse(raw) ==
  IF raw.object /\ Dimension \subseteq DOMAIN raw.dims
  THEN <<[risk |-> Read(raw.risk, 0), confidence |-> Read(raw.confidence, 5000),
          dims |-> [d \in Dimension |-> Clamp(raw.dims[d])]]>>
  ELSE << >>

-----------------------------------------------------------------------------
(* Scores and verdict *)

Weigh(det, llm) == RoundDiv(4 * det + 6 * llm, 10)

\* Mutant: a model that is away counts as one that found nothing.
CombineScoresAbsent(det, llm) ==
  IF llm = << >>
  THEN [risk |-> Weigh(det, 0), confidence |-> 3500, dims |-> [d \in Dimension |-> 0]]
  ELSE [risk |-> Weigh(det, llm[1].risk), confidence |-> llm[1].confidence,
        dims |-> llm[1].dims]

\* _combine_scores: 0.4 of the checks and 0.6 of the model, if it answered.
CombineScores(det, llm) ==
  IF llm = << >>
  THEN [risk |-> det, confidence |-> 3500, dims |-> [d \in Dimension |-> 0]]
  ELSE [risk |-> Weigh(det, llm[1].risk), confidence |-> llm[1].confidence,
        dims |-> llm[1].dims]

\* Degraded and unsure: a tenth is added.
EffectiveRisk(risk, confidence, degraded) ==
  IF degraded /\ confidence < 5000 THEN Min({One, risk + 1000}) ELSE risk

\* Mutant: the tenth is added to the answers of the model instead.
ComputeVerdictUnshifted(risk, confidence, degraded, t, gateway) ==
  LET r == EffectiveRisk(risk, 0, ~degraded)
  IN  IF r <= t.allow THEN "allow"
      ELSE IF r <= t.allow_with_banner THEN "allow_with_banner"
      ELSE IF r <= t.soft_hold THEN "soft_hold"
      ELSE IF r <= t.quarantine THEN "quarantine"
      ELSE IF gateway THEN "reject" ELSE "escalate_to_admin"

(***************************************************************************)
(* compute_verdict: thresholds are inclusive upper bounds, tried in order. *)
(***************************************************************************)
ComputeVerdict(risk, confidence, degraded, t, gateway) ==
  LET r == EffectiveRisk(risk, confidence, degraded)
  IN  IF r <= t.allow THEN "allow"
      ELSE IF r <= t.allow_with_banner THEN "allow_with_banner"
      ELSE IF r <= t.soft_hold THEN "soft_hold"
      ELSE IF r <= t.quarantine THEN "quarantine"
      ELSE IF gateway THEN "reject" ELSE "escalate_to_admin"

\* How strict a verdict is.
Strictness(verdict) ==
  CASE verdict = "allow" -> 0
    [] verdict = "allow_with_banner" -> 1
    [] verdict = "soft_hold" -> 2
    [] verdict = "quarantine" -> 3
    [] OTHER -> 4
================================================================================
