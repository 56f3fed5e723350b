----------------------------- MODULE MCMailSync -----------------------------
(* MailSync with small constants for TLC. *)
EXTENDS MailSync, TLC

MCMsgs2 == 1..2
MCMsgs3 == 1..3

\* Handler slots are interchangeable.
MCSymmetry == Permutations(Reqs)
=============================================================================
