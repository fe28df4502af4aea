----------------------------- MODULE MCEvidence -----------------------------
(* Two roles: enough for two goroutines to wait for one listing, and for a  *)
(* listing to know of a role that the record and the eligibilities do not.  *)
EXTENDS Evidence, TLC

CONSTANTS r1, r2

Symmetry == Permutations({r1, r2})

=============================================================================
