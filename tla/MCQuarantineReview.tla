-------------------------- MODULE MCQuarantineReview --------------------------
(* Small instances of QuarantineReview for TLC. *)
EXTENDS QuarantineReview, TLC

\* Handlers of one kind are interchangeable.
HandlerSymmetry == Permutations(Analyst) \cup Permutations(Worker)
================================================================================
