---------------------------- MODULE ReviewLifecycle ----------------------------
(***************************************************************************)
(* What the quarantine promises of one message: a strict state machine.    *)
(* An item is created once, waits for review, may be taken into review,    *)
(* receives at most one decision, and deletion is final.                   *)
(*                                                                         *)
(* This is the abstract specification; QuarantineReview implements it when *)
(* the review requests of an item do not overlap.                          *)
(***************************************************************************)
CONSTANT Message

VARIABLE status

Undecided == {"pending_review", "in_review"}
Decided   == {"released", "false_positive", "confirmed_malicious"}
LifecycleStatus == {"none", "deleted"} \cup Undecided \cup Decided

Init == status = [m \in Message |-> "none"]

\* Message m leaves one of the statuses From for the status to.
Moves(m, From, to) ==
  /\ status[m] \in From
  /\ status' = [status EXCEPT ![m] = to]

Quarantine(m)  == Moves(m, {"none"}, "pending_review")
TakeInReview(m) == Moves(m, {"pending_review"}, "in_review")
Decide(m)      == \E d \in Decided : Moves(m, Undecided, d)
Delete(m)      == Moves(m, Undecided \cup Decided, "deleted")

Next == \E m \in Message :
          Quarantine(m) \/ TakeInReview(m) \/ Decide(m) \/ Delete(m)

Spec == Init /\ [][Next]_status
================================================================================
