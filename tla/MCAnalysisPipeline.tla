-------------------------- MODULE MCAnalysisPipeline --------------------------
EXTENDS AnalysisPipeline

\* A message with nothing to find.
Plain == [from |-> TRUE, replyTo |-> "none", brand |-> FALSE, urls |-> {},
          high |-> 0, medium |-> 0, plain |-> TRUE, html |-> FALSE, text |-> TRUE,
          credential |-> 0, payment |-> 0, urgency |-> 0, fear |-> 0,
          dkim |-> TRUE, spf |-> TRUE]

Link(source, text, host, credPath) ==
  [source |-> source, text |-> text, host |-> host, credPath |-> credPath]

\* Two links that find everything a link can, and one that finds nothing.
Links == {Link("html", "differs", "ip", FALSE), Link("text", "none", "deep", TRUE),
          Link("html", "agrees", "short", FALSE)}

(***************************************************************************)
(* The weak findings with a dangerous attachment and without, an archive,  *)
(* a message that pleads, and one that deceives in every way.              *)
(***************************************************************************)
MCMails ==
  {[Plain EXCEPT !.high = n, !.html = x, !.plain = ~x, !.dkim = y, !.spf = y] :
     n \in 0 .. 1, x \in BOOLEAN, y \in BOOLEAN}
  \cup {[Plain EXCEPT !.medium = 2, !.text = FALSE, !.urgency = 5],
        [Plain EXCEPT !.urgency = 1, !.fear = 4, !.payment = 5],
        [Plain EXCEPT !.replyTo = "other", !.brand = TRUE, !.urls = Links, !.credential = 8]}

Raw(risk, confidence, score) ==
  [object |-> TRUE, risk |-> risk, confidence |-> confidence,
   dims |-> [d \in Dimension |-> score]]

\* Answers in and out of range, sure and unsure at several risks, without a
\* risk, and with no dimension.
MCRaws ==
  {Raw(<<-1>>, <<10000>>, 12000), Raw(<<2500>>, << >>, 2500), Raw(<<20000>>, <<3000>>, -1),
   Raw(<<5000>>, <<4999>>, 5000), Raw(<< >>, <<9000>>, 0),
   [Raw(<<0>>, <<0>>, 0) EXCEPT !.dims = << >>]}

\* The defaults of app/config.py.
MCThresholds ==
  [allow |-> 2500, allow_with_banner |-> 4500, soft_hold |-> 6500, quarantine |-> 8500]

================================================================================
