------------------------- MODULE MCActivationRecord -------------------------
(* Values of ActivationRecord's constants for TLC: one role, two processes, *)
(* and times of a few units.                                                *)
EXTENDS ActivationRecord

CONSTANTS r1, p1, p2, s1

OneScope == [r \in Roles |-> s1]

NoStep  == {}
StepOne == {1}

Long  == {4}
Never == {9}

\* p1 changes what is held and p2 watches.
ActorAndWatcher == [p \in Procs |-> IF p = p1 THEN {"up", "down"} ELSE {"status"}]

=============================================================================
