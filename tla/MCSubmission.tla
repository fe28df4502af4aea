---------------------------- MODULE MCSubmission ----------------------------
(* Values of Submission's constants for TLC. *)
EXTENDS Submission

CONSTANTS i1, i2, i3

=============================================================================
