--------------------------- MODULE MCContextFiles ---------------------------
(* Two commands and a clear share one context's files; the user has an account
   in the tenant the context is pinned to, and is a guest in another.        *)
EXTENDS ContextFiles, TLC

CONSTANTS alice, guest

MCTenantOf == [a \in {alice, guest} |-> IF a = guest THEN "t2" ELSE "t1"]
MCUserOf   == [a \in {alice, guest} |-> "alice"]
Interchangeable == Permutations(Runs)
=============================================================================
