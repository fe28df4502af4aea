----------------------------- MODULE MCPlanning -----------------------------
(* Two roles, a subscription and a resource group in it; the reader role is
   granted directly, through a group, under a condition, in the group itself
   until time 1, and to somebody else.                                       *)
EXTENDS Planning, TLC

Grant(role, scope, direct, condition, mine, until) ==
  [role |-> role, scope |-> scope, direct |-> direct, condition |-> condition, mine |-> mine, until |-> until]

MCSchedules == <<"direct", "group", "conditional", "inGroup", "theirs", "writer">>
MCGrantOf ==
  "direct" :> Grant("reader", "sub", TRUE, "", TRUE, 9)
    @@ "group" :> Grant("reader", "sub", FALSE, "", TRUE, 9)
    @@ "conditional" :> Grant("reader", "sub", FALSE, "tagged", TRUE, 9)
    @@ "inGroup" :> Grant("reader", "rg", FALSE, "", TRUE, 1)
    @@ "theirs" :> Grant("reader", "rg", TRUE, "", FALSE, 9)
    @@ "writer" :> Grant("writer", "sub", TRUE, "", TRUE, 9)
MCWorlds == {{"direct", "inGroup", "theirs", "writer"}, {"direct", "group", "conditional"}}

MCScopeList == <<"sub", "rg">>
MCAbove == [s \in {"sub", "rg"} |-> IF s = "sub" THEN {"sub"} ELSE {"sub", "rg"}]
MCNameOf == "reader" :> <<"r">> @@ "writer" :> <<"r", "w">> @@ "sub" :> <<" ">> @@ "rg" :> <<" ", "w">>

Rules(max, rules) == [expiration |-> max, enablement |-> rules]
MCPolicyAt ==
  [k \in Targets |->
     IF k[1] = "writer" THEN [effective |-> [enablement |-> {}], document |-> Rules(1, {"Ticketing"})]
     ELSE [effective |-> Rules(IF k[2] = "rg" THEN 1 ELSE 2, {"Justification"}), document |-> [enablement |-> {}]]]
MCOldPolicyAt == [k \in Targets |-> ParseRules([expiration |-> 3])]

MCRequirements == << <<"reader", "rg">>, <<"writer", "rg">> >>
MCTypedKeys == { << {<<"reader", "sub">>}, {<<"reader", "sub">>} >>,
                 << {<<"reader", "sub">>}, {<<"reader", "rg">>} >>,
                 << {<<"reader", "sub">>, <<"writer", "sub">>} >> }
MCPresets == { << [role |-> "reader", target |-> "sub", source |-> "sub"],
                  [role |-> "reader", target |-> "rg", source |-> "sub"] >> }
Held(confirmed, verified, from, until) ==
  [active |-> TRUE, confirmed |-> confirmed, verified |-> verified, from |-> from, until |-> until]
MCEvidence == {NotHeld, Held(FALSE, FALSE, 0, 2), Held(TRUE, FALSE, 0, 1), Held(FALSE, TRUE, 0, 2), Held(TRUE, FALSE, 1, 2)}
MCLeftovers == {<<{"direct", "inGroup", "theirs", "writer"}, -1>>, <<{"direct", "group", "conditional"}, 1>>}
MCFlags == {[tty |-> TRUE, yes |-> FALSE, reason |-> FALSE],
            [tty |-> FALSE, yes |-> TRUE, reason |-> TRUE], [tty |-> FALSE, yes |-> FALSE, reason |-> FALSE]}
MCAsked == {[hours |-> 0, ticket |-> FALSE], [hours |-> 2, ticket |-> TRUE]}
=============================================================================
