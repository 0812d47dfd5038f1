----------------------------- MODULE PolicyVerdict -----------------------------
(***************************************************************************)
(* The policy verdicts of Mindwall and the two decisions taken from them:  *)
(* whether a verdict puts the message in quarantine, and how the virtual   *)
(* inbox shows a synchronised message.                                     *)
(*                                                                         *)
(* app/policies/constants.py, app/quarantine/service.py,                   *)
(* app/mailboxes/sync_service.py.                                          *)
(***************************************************************************)

Verdict == {"allow", "allow_with_banner", "soft_hold",
            "quarantine", "reject", "escalate_to_admin"}

\* The verdicts that always create a quarantine item.
QuarantineVerdicts == {"quarantine", "escalate_to_admin", "reject"}

(***************************************************************************)
(* softHold is the setting quarantine_soft_hold: when it is on, a          *)
(* soft_hold verdict is quarantined as well.                               *)
(***************************************************************************)
ShouldQuarantine(verdict, softHold) ==
  \/ verdict \in QuarantineVerdicts
  \/ softHold /\ verdict = "soft_hold"

Visibility == {"visible", "quarantined", "hidden", "ingestion_error"}

VerdictToVisibility(verdict, softHold) ==
  CASE ShouldQuarantine(verdict, softHold) -> "quarantined"
    [] ~ShouldQuarantine(verdict, softHold) /\ verdict = "soft_hold" -> "hidden"
    [] OTHER -> "visible"
================================================================================
