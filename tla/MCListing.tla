----------------------------- MODULE MCListing -----------------------------
(* Two contexts: the first has two scopes, a2 under a1, the second none.   *)
EXTENDS Listing

CONSTANTS a1, a2

MCScopes    == {a1, a2}
MCContextOf == [s \in MCScopes |-> 1]
MCUnder     == [s \in MCScopes |-> IF s = a1 THEN {a1, a2} ELSE {a2}]
MCEligible  == [c \in {1, 2} |-> IF c = 1 THEN {{a1}, {}} ELSE {{}}]

\* Eligible at the scope below only, while the record may hold the one above.
MCEligibleBelow == [c \in {1, 2} |-> IF c = 1 THEN {{a2}} ELSE {{}}]
=============================================================================
