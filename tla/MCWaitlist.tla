----------------------------- MODULE MCWaitlist -----------------------------
(***************************************************************************)
(* Waitlist on a few entries; the requests that free slots are             *)
(* interchangeable.                                                        *)
(***************************************************************************)
EXTENDS Waitlist, TLC

Symmetry == Permutations(Handler)

=============================================================================
