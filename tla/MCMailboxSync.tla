----------------------------- MODULE MCMailboxSync -----------------------------
(* Small instances of MailboxSync for TLC. *)
EXTENDS MailboxSync, TLC

\* The handlers are interchangeable; used where no liveness is checked.
Interchangeable == Permutations(Run)
================================================================================
