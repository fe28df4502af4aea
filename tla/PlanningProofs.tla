--------------------------- MODULE PlanningProofs ---------------------------
(***************************************************************************)
(* Theorems about what Planning requests, for every tenant, every set of   *)
(* schedules, every project and every bound: that nothing is requested or  *)
(* written that ARM has not resolved, that what is sent is what was agreed *)
(* to, and that the window of a project role which is in force is left     *)
(* alone.                                                                  *)
(*                                                                         *)
(* The inductive invariant of the whole command is Types, of               *)
(* PlanningTypesProofs, ConsentInv (the way of the command, its plan, the  *)
(* rows in hand and the prompts) and ResolvedInv (the caches, the policies *)
(* and the rows as ARM answered them).                                     *)
(***************************************************************************)
EXTENDS PlanningTypesProofs

-----------------------------------------------------------------------------
(* The windows of a project.  Only BeginPlan looks at a window, and time     *)
(* only passes after it, so what it found not in force stays so; the rows    *)
(* and the plan keep the fields and places they were built with.            *)

Granted(held) == held.active /\ (held.confirmed \/ held.verified)

IsRow(r)   == "held" \in DOMAIN r /\ r.held \in Helds
IsRows(s)  == IsSeq(s) /\ \A i \in 1..Len(s) : IsRow(s[i])

\* A role that is kept has a window ARM vouched for; one that is not has none
\* that began before the command and lasts.
IsItem(p, now) ==
  /\ {"row", "keep", "looked", "out"} \subseteq DOMAIN p
  /\ p.row.held \in Helds
  /\ p.keep => Granted(p.row.held)
  /\ ~p.keep => ~(Granted(p.row.held) /\ p.row.held.from = 0 /\ p.row.held.until > now)
IsPlan == IsSeq(plan) /\ \A i \in 1..Len(plan) : IsItem(plan[i], env.now)

Unplanned == {"flags", "open", "resolve", "verify", "plan"}
ProjectStages == Unplanned \union {"looking", "justify", "confirm", "submit", "done", "refused"}

ClockInv == "mode" \in DOMAIN opt /\ "now" \in DOMAIN env /\ env.now \in Nat

WindowInv ==
  /\ ClockInv
  /\ Project =>
       /\ stage \in ProjectStages
       /\ "found" \in DOMAIN todo /\ IsRows(todo.found) /\ IsRows(rows)
       /\ IsPlan
       /\ stage \in Unplanned => plan = <<>>

\* The command starts with no rows and no plan.
LEMMA WindowInit == Init => WindowInv
<1> SUFFICES ASSUME Init PROVE WindowInv
  OBVIOUS
<1>1. IsSeq(<<>>) /\ Len(<<>>) = 0
  BY DEF IsSeq
<1>2. ClockInv
  BY DEF Init, ClockInv
<1>3. stage \in ProjectStages /\ "found" \in DOMAIN todo /\ todo.found = <<>> /\ rows = <<>> /\ plan = <<>>
  BY DEF Init, ProjectStages, Unplanned, NoTodo
<1> QED BY <1>1, <1>2, <1>3 DEF WindowInv, IsRows, IsPlan

\* No step changes what kind of command it is, and the clock does not go back.
LEMMA ClockStep ==
  ASSUME ClockInv, [Next]_vars
  PROVE  ClockInv' /\ opt'.mode = opt.mode /\ env'.now >= env.now
<1> USE DEF ClockInv
<1>1. ASSUME UNCHANGED <<opt, env>>
      PROVE  ClockInv' /\ opt'.mode = opt.mode /\ env'.now >= env.now
  BY <1>1
<1>2. ASSUME UNCHANGED env, NEW at, opt' = [opt EXCEPT !.at = at]
      PROVE  ClockInv' /\ opt'.mode = opt.mode /\ env'.now >= env.now
  BY <1>2
<1>3. CASE CheckFlags \/ Open
  BY <1>3, <1>1 DEF CheckFlags, Open
<1>4. CASE ReadEligibilities \/ ResolveSaved \/ ChooseRows \/ Narrow
  BY <1>4, <1>1 DEF ReadEligibilities, ResolveSaved, ChooseRows, Narrow
<1>5. CASE ChooseTarget
  BY <1>5, <1>2 DEF ChooseTarget
<1>6. CASE Offer \/ Press
  BY <1>6, <1>1 DEF Offer, Press
<1>7. CASE Browse
  BY <1>7, <1>1, <1>2 DEF Browse
<1>8. CASE Take
  BY <1>8, <1>1, <1>2 DEF Take
<1>9. CASE ResolveNeed \/ Resolved \/ Verify
  BY <1>9, <1>1 DEF ResolveNeed, Resolved, Verify
<1>10. CASE BeginPlan \/ EndPlan \/ Justify \/ Confirm \/ Remember
  BY <1>10, <1>1 DEF BeginPlan, EndPlan, Justify, Confirm, Remember
<1>11. ASSUME NEW i \in Items, LookUp(i) \/ Submit(i)
       PROVE  ClockInv' /\ opt'.mode = opt.mode /\ env'.now >= env.now
  BY <1>11, <1>1 DEF LookUp, Submit
<1>12. CASE ReadScope \/ FilterRows \/ CheckPicked \/ Another \/ Write
  BY <1>12, <1>1 DEF ReadScope, FilterRows, CheckPicked, Another, Write
<1>13. CASE Tick
  BY <1>13 DEF Tick
<1>14. CASE Regrant
  BY <1>14 DEF Regrant
<1>15. CASE Interrupt
  BY <1>15 DEF Interrupt
<1>16. CASE Finished \/ UNCHANGED vars
  BY <1>16, <1>1 DEF Finished, vars
<1> QED BY <1>3, <1>4, <1>5, <1>6, <1>7, <1>8, <1>9, <1>10, <1>11, <1>12, <1>13, <1>14, <1>15, <1>16 DEF Next

\* A plan that is not touched stays one while time passes.
LEMMA PlanStays ==
  ASSUME ClockInv, ClockInv', env'.now >= env.now, IsPlan, plan' = plan
  PROVE  IsPlan'
<1>1. SUFFICES ASSUME NEW i \in 1..Len(plan)
               PROVE  IsItem(plan[i], env'.now)
  BY DEF IsPlan
<1>2. IsItem(plan[i], env.now) /\ plan[i].row.held.until \in Nat /\ env.now \in Nat /\ env'.now \in Nat
  BY DEF IsPlan, IsItem, Helds, ClockInv
<1> QED BY <1>2 DEF IsItem

\* A step of one role replaces its item by one of the same row and the same
\* verdict, and leaves the others alone.
LEMMA ItemReplaced ==
  ASSUME IsPlan, NEW i \in 1..Len(plan), NEW p, plan' = [plan EXCEPT ![i] = p], UNCHANGED env,
         DOMAIN p = DOMAIN plan[i], p.row = plan[i].row, p.keep = plan[i].keep
  PROVE  /\ IsPlan' /\ Len(plan') = Len(plan) /\ plan'[i] = p
         /\ \A j \in 1..Len(plan) : j # i => plan'[j] = plan[j]
<1>1. /\ IsSeq(plan') /\ Len(plan') = Len(plan) /\ plan'[i] = p
      /\ \A j \in 1..Len(plan) : j # i => plan'[j] = plan[j]
  <2>1. DOMAIN plan = 1..Len(plan) /\ Len(plan) \in Nat
    BY DEF IsPlan, IsSeq
  <2>2. /\ plan' = [j \in 1..Len(plan) |-> plan'[j]] /\ plan'[i] = p
        /\ \A j \in 1..Len(plan) : j # i => plan'[j] = plan[j]
    BY <2>1
  <2>3. IsSeq(plan') /\ Len(plan') = Len(plan)
    BY <2>1, <2>2, FunctionIsSeq
  <2> QED BY <2>2, <2>3
<1>2. \A j \in 1..Len(plan) : IsItem(plan[j], env.now)
  BY DEF IsPlan
<1>3. IsItem(p, env.now)
  BY <1>2 DEF IsItem
<1> QED BY <1>1, <1>2, <1>3 DEF IsPlan

\* What is planned is planned by the windows as they are then.
LEMMA PlanBegun ==
  ASSUME ClockInv, Project, IsRows(rows), BeginPlan
  PROVE  IsPlan'
<1> DEFINE keep(i) == Project /\ ProjectAlreadyHeld(rows[i])
           item(i) == [row |-> rows[i], keep |-> keep(i), looked |-> keep(i), fresh |-> FALSE,
                       policy |-> NoPolicy, hours |-> 0, error |-> FALSE, out |-> "none"]
<1>1. plan' = [i \in 1..Len(rows) |-> item(i)] /\ env' = env /\ Len(rows) \in Nat
  BY DEF BeginPlan, IsRows, IsSeq
<1>2. IsSeq(plan') /\ Len(plan') = Len(rows)
  <2> HIDE DEF item
  <2>1. plan' = [i \in 1..Len(rows) |-> plan'[i]]
    BY <1>1
  <2> QED BY <1>1, <2>1, FunctionIsSeq
<1>3. ASSUME NEW i \in 1..Len(rows) PROVE IsItem(plan'[i], env'.now)
  <2>1. rows[i].held \in Helds
    BY DEF IsRows, IsRow
  <2>2. rows[i].held.from \in Nat /\ rows[i].held.until \in Nat /\ env.now \in Nat
    BY <2>1 DEF Helds, ClockInv
  <2>3. keep(i) <=> Granted(rows[i].held) /\ rows[i].held.from <= env.now /\ rows[i].held.until > env.now
    BY DEF ProjectAlreadyHeld, Current, Granted
  <2>4. plan'[i] = item(i)
    BY <1>1
  <2>5. /\ {"row", "keep", "looked", "out"} \subseteq DOMAIN item(i)
        /\ item(i).row = rows[i] /\ item(i).keep = keep(i)
    OBVIOUS
  <2> HIDE DEF item, keep
  <2> QED BY <1>1, <2>1, <2>2, <2>3, <2>4, <2>5 DEF IsItem
<1> QED BY <1>2, <1>3 DEF IsPlan

\* Every step keeps the windows' invariant.
LEMMA WindowStep == WindowInv /\ [Next]_vars => WindowInv'
<1> SUFFICES ASSUME WindowInv, [Next]_vars, Project
             PROVE  /\ stage' \in ProjectStages
                    /\ "found" \in DOMAIN todo' /\ IsRows(todo'.found) /\ IsRows(rows')
                    /\ IsPlan'
                    /\ stage' \in Unplanned => plan' = <<>>
  <2>1. ASSUME WindowInv, [Next]_vars PROVE ClockInv' /\ Project' = Project
    BY <2>1, ClockStep DEF WindowInv, Project
  <2> QED BY <2>1 DEF WindowInv, IsRows, IsSeq, IsRow
<1>0. /\ stage \in ProjectStages /\ "found" \in DOMAIN todo /\ IsRows(todo.found) /\ IsRows(rows)
      /\ IsPlan /\ (stage \in Unplanned => plan = <<>>) /\ ClockInv
      /\ ClockInv' /\ env'.now >= env.now
  BY ClockStep DEF WindowInv
<1> USE DEF ProjectStages, Unplanned
<1>1. ASSUME UNCHANGED <<rows, plan>>, stage' \in ProjectStages,
             todo' = todo \/ ("found" \in DOMAIN todo' /\ todo'.found = todo.found),
             stage' \in Unplanned => stage \in Unplanned
      PROVE  /\ stage' \in ProjectStages
             /\ "found" \in DOMAIN todo' /\ IsRows(todo'.found) /\ IsRows(rows')
             /\ IsPlan'
             /\ stage' \in Unplanned => plan' = <<>>
  BY <1>0, <1>1, PlanStays
<1>2. CASE CheckFlags
  BY <1>2, <1>1 DEF CheckFlags, Go, Refused
<1>3. CASE Open
  <2>1. /\ stage = "open" /\ UNCHANGED <<rows, plan>>
        /\ \E failures \in BOOLEAN : todo' = [todo EXCEPT !.failed = failures]
        /\ stage' \in {"refused", "resolve"}
    BY <1>3 DEF Open, Go, Refused, Project, Setup
  <2> QED BY <2>1, <1>0, <1>1
<1>4. CASE ResolveNeed
  <2> DEFINE role   == Needs[todo.next][1]
             scope  == Needs[todo.next][2]
             roles  == IF scope \in DOMAIN todo.read THEN todo.read[scope] ELSE Told(scope)
             chosen == Choose(roles, role, scope, AnySchedule)
  <2>1. UNCHANGED <<stage, rows, plan>> /\ "found" \in DOMAIN todo'
    BY <1>0, <1>4 DEF ResolveNeed
  <2>2. todo'.found = todo.found \/ todo'.found = Append(todo.found, Row(Sole(chosen), scope))
    BY <1>0, <1>4 DEF ResolveNeed
  <2>3. ASSUME NEW s, NEW t PROVE IsRow(Row(s, t))
    BY DEF IsRow, Row, NotHeld, Helds
  <2>4. IsRows(todo'.found)
    <3>1. CASE todo'.found = todo.found
      BY <3>1, <1>0
    <3>2. ASSUME NEW r, IsRow(r), todo'.found = Append(todo.found, r) PROVE IsRows(todo'.found)
      BY <1>0, <3>2, AppendIsSeq DEF IsRows, IsSeq
    <3> QED BY <2>2, <2>3, <3>1, <3>2
  <2> QED BY <1>0, <2>1, <2>4, PlanStays
<1>5. CASE Resolved
  <2>1. rows' = todo.found /\ UNCHANGED <<plan, todo>> /\ stage = "resolve" /\ stage' \in {"refused", "verify"}
    BY <1>5 DEF Resolved, Go, Refused
  <2> QED BY <1>0, <2>1, PlanStays
<1>6. CASE Verify
  <2>1. stage = "verify" /\ stage' \in {"refused", "plan"} /\ UNCHANGED <<plan, todo>>
    BY <1>6 DEF Verify, Go, Refused
  <2>2. PICK said \in [1..Len(rows) -> Evidence] :
           rows' = [i \in 1..Len(rows) |-> [rows[i] EXCEPT !.held = said[i]]]
    BY <1>6 DEF Verify
  <2>3. IsSeq(rows') /\ Len(rows') = Len(rows)
    <3>1. Len(rows) \in Nat /\ rows' = [i \in 1..Len(rows) |-> rows'[i]]
      BY <1>0, <2>2 DEF IsRows, IsSeq
    <3> QED BY <3>1, FunctionIsSeq
  <2>4. ASSUME NEW i \in 1..Len(rows) PROVE IsRow(rows'[i])
    <3>1. said[i] \in Helds
      BY PlanningAssumption DEF Helds
    <3>2. rows'[i] = [rows[i] EXCEPT !.held = said[i]] /\ "held" \in DOMAIN rows[i]
      BY <1>0, <2>2 DEF IsRows, IsRow
    <3> QED BY <3>1, <3>2 DEF IsRow
  <2> QED BY <1>0, <2>1, <2>3, <2>4, PlanStays DEF IsRows
<1>7. CASE BeginPlan
  <2>1. stage' = "looking" /\ UNCHANGED <<rows, todo>>
    BY <1>7 DEF BeginPlan, Go
  <2> QED BY <1>0, <1>7, <2>1, PlanBegun
<1>8. ASSUME NEW i \in Items, LookUp(i)
      PROVE  stage' = "looking" /\ UNCHANGED <<rows, todo>> /\ IsPlan'
  <2>1. stage = "looking" /\ UNCHANGED <<stage, rows, todo, env>>
    BY <1>8 DEF LookUp
  <2>2. \E p : /\ plan' = [plan EXCEPT ![i] = p]
               /\ DOMAIN p = DOMAIN plan[i] /\ p.row = plan[i].row /\ p.keep = plan[i].keep
    <3>1. \/ \E policy, fresh : plan' = [plan EXCEPT ![i] = Settled(plan[i], policy, fresh)]
          \/ plan' = [plan EXCEPT ![i] = [plan[i] EXCEPT !.looked = TRUE, !.error = TRUE]]
      BY <1>8 DEF LookUp
    <3>2. ASSUME NEW policy, NEW fresh, NEW p, p = Settled(plan[i], policy, fresh)
          PROVE  DOMAIN p = DOMAIN plan[i] /\ p.row = plan[i].row /\ p.keep = plan[i].keep
      BY <3>2 DEF Settled
    <3>3. ASSUME NEW p, p = [plan[i] EXCEPT !.looked = TRUE, !.error = TRUE]
          PROVE  DOMAIN p = DOMAIN plan[i] /\ p.row = plan[i].row /\ p.keep = plan[i].keep
      BY <3>3
    <3> QED BY <3>1, <3>2, <3>3
  <2> QED BY <1>0, <2>1, <2>2, ItemReplaced DEF Items
<1>9. ASSUME NEW i \in Items, Submit(i)
      PROVE  stage' = "submit" /\ UNCHANGED <<rows, todo>> /\ IsPlan'
  <2>1. stage = "submit" /\ UNCHANGED <<stage, rows, todo, env>>
    BY <1>9 DEF Submit
  <2>2. \E p : /\ plan' = [plan EXCEPT ![i] = p]
               /\ DOMAIN p = DOMAIN plan[i] /\ p.row = plan[i].row /\ p.keep = plan[i].keep
    <3>1. \E o : plan' = [plan EXCEPT ![i].out = o]
      BY <1>9 DEF Submit
    <3>2. ASSUME NEW o
          PROVE  LET p == [plan[i] EXCEPT !.out = o]
                 IN  DOMAIN p = DOMAIN plan[i] /\ p.row = plan[i].row /\ p.keep = plan[i].keep
      OBVIOUS
    <3> QED BY <3>1, <3>2
  <2> QED BY <1>0, <2>1, <2>2, ItemReplaced DEF Items
<1>10. CASE EndPlan \/ Justify \/ Confirm \/ Remember
  BY <1>10, <1>1 DEF EndPlan, Justify, Confirm, Remember, Go, Refused
<1>11. CASE Tick \/ Regrant \/ Interrupt \/ Finished \/ UNCHANGED vars
  BY <1>0, <1>11, <1>1 DEF Tick, Regrant, Interrupt, Finished, vars
<1>12. CASE ReadEligibilities \/ ResolveSaved \/ ChooseRows \/ ChooseTarget \/ Narrow
  BY <1>0, <1>12 DEF ReadEligibilities, ResolveSaved, ChooseRows, ChooseTarget, Narrow
<1>13. CASE Offer \/ Browse \/ Press \/ Take
  BY <1>0, <1>13 DEF Offer, Browse, Press, Take
<1>14. CASE ReadScope \/ FilterRows \/ CheckPicked \/ Another \/ Write
  BY <1>0, <1>14 DEF ReadScope, FilterRows, CheckPicked, Another, Write
<1> QED BY <1>0, <1>2, <1>3, <1>4, <1>5, <1>6, <1>7, <1>8, <1>9, <1>10, <1>11, <1>12, <1>13, <1>14 DEF Next

\* So it holds throughout.
LEMMA WindowInvariant == Spec => []WindowInv
BY WindowInit, WindowStep, PTL DEF Spec

\* One step reports a window as kept, or requests a role, only as it may.
LEMMA WindowReported ==
  ASSUME WindowInv, [Next]_vars, Project, NEW i \in Items,
         plan'[i].out # plan[i].out
  PROVE  LET held  == plan[i].row.held
             lasts == held.active /\ (held.confirmed \/ held.verified) /\ held.until > env.now
         IN  /\ plan'[i].out = "kept" => lasts /\ held.from <= env.now
             /\ plan'[i].out \in {"sent", "rejected"} => ~(lasts /\ held.from = 0)
<1>1. /\ stage \in ProjectStages /\ IsPlan /\ IsItem(plan[i], env.now) /\ ClockInv
      /\ stage \in Unplanned => plan = <<>>
  BY DEF WindowInv, IsPlan, Items
<1>2. stage \notin Unplanned /\ plan' # plan
  BY <1>1 DEF Items
<1>3. PICK j \in Items : LookUp(j) \/ Submit(j)
  BY <1>1, <1>2 DEF Next, vars, ProjectStages, Unplanned,
       CheckFlags, Open, ReadEligibilities, ResolveSaved, ChooseRows, ChooseTarget, Narrow, Offer, Browse,
       Press, Take, ResolveNeed, Resolved, Verify, BeginPlan, EndPlan, Justify, Confirm, Remember,
       ReadScope, FilterRows, CheckPicked, Another, Write, Tick, Regrant, Interrupt, Finished
<1>4. ASSUME NEW p, plan' = [plan EXCEPT ![j] = p] PROVE i = j /\ p.out = plan'[i].out /\ p.out # plan[i].out
  <2>1. DOMAIN plan = 1..Len(plan)
    BY <1>1 DEF IsPlan, IsSeq
  <2> QED BY <1>4, <2>1 DEF Items
<1>5. ASSUME LookUp(j) PROVE FALSE
  <2>1. \/ \E policy, fresh : plan' = [plan EXCEPT ![j] = Settled(plan[j], policy, fresh)]
        \/ plan' = [plan EXCEPT ![j] = [plan[j] EXCEPT !.looked = TRUE, !.error = TRUE]]
    BY <1>5 DEF LookUp
  <2>2. ASSUME NEW policy, NEW fresh, NEW p, p = Settled(plan[j], policy, fresh)
        PROVE  p.out = plan[j].out
    BY <2>2, <1>1 DEF Settled, IsPlan, Items, IsItem
  <2>3. ASSUME NEW p, p = [plan[j] EXCEPT !.looked = TRUE, !.error = TRUE]
        PROVE  p.out = plan[j].out
    BY <2>3, <1>1 DEF IsPlan, Items, IsItem
  <2> QED BY <2>1, <2>2, <2>3, <1>4
<1>6. CASE Submit(j)
  <2> DEFINE held == plan[i].row.held
  <2>1. PICK o : plan' = [plan EXCEPT ![j].out = o] /\ o \in {"kept", "expired", "failed", "skipped", "sent", "rejected"}
                 /\ (o \in {"kept", "expired"} => plan[j].keep /\ o = Preserved(j))
                 /\ (o \in {"sent", "rejected"} => ~plan[j].keep)
    BY <1>6 DEF Submit, Preserved
  <2>2. i = j /\ plan'[i].out = o
    <3>1. "out" \in DOMAIN plan[j]
      BY <1>1 DEF IsPlan, Items, IsItem
    <3>2. ASSUME NEW p, p = [plan[j] EXCEPT !.out = o] PROVE i = j /\ plan'[i].out = o
      BY <2>1, <1>4, <3>1, <3>2
    <3> QED BY <3>2
  <2>3. o = "kept" => plan[i].keep /\ held.from <= env.now /\ held.until > env.now
    BY <2>1, <2>2 DEF Preserved, Current
  <2>4. o = "kept" => held.active /\ (held.confirmed \/ held.verified)
    BY <2>3, <1>1 DEF IsItem, Granted
  <2>5. o \in {"sent", "rejected"} =>
          ~(held.active /\ (held.confirmed \/ held.verified) /\ held.until > env.now /\ held.from = 0)
    BY <2>1, <2>2, <1>1 DEF IsItem, Granted
  <2> QED BY <2>2, <2>3, <2>4, <2>5
<1> QED BY <1>3, <1>5, <1>6

\* A window of a project role that is in force is not renewed, and is claimed
\* only while it lasts, whatever the listing and the record said of it
\* (buildProjectPlan, preservedActivationResult).
THEOREM WindowsKept == Spec => WindowsAreKept
<1>1. WindowInv /\ [Next]_vars =>
        [\A i \in Items : Project =>
           LET held  == plan[i].row.held
               lasts == held.active /\ (held.confirmed \/ held.verified) /\ held.until > env.now
           IN  plan'[i].out # plan[i].out =>
                 /\ plan'[i].out = "kept" => lasts /\ held.from <= env.now
                 /\ plan'[i].out \in {"sent", "rejected"} => ~(lasts /\ held.from = 0)]_vars
  BY WindowReported
<1> QED BY <1>1, WindowInvariant, PTL DEF Spec, WindowsAreKept

-----------------------------------------------------------------------------
(* The way of a command.                                                    *)

Ordinary   == ~Project /\ ~Setup
Requesting == {"plan", "looking", "justify", "confirm", "submit", "done"}
Reported   == {"looking", "justify", "confirm", "submit", "done"}

\* The stages each kind of command goes through.
Way ==
  IF Project THEN {"resolve", "verify"} \union Requesting
  ELSE IF opt.mode = "init" THEN {"browse", "picking", "scope", "offer", "check", "another", "write", "done"}
  ELSE IF opt.mode = "initPreset" THEN {"resolve", "write", "done"}
  ELSE IF opt.mode = "preset" THEN {"read", "saved", "target", "narrow"} \union Requesting
  ELSE IF opt.mode = "pick" THEN {"read", "offer", "picking", "target", "narrow"} \union Requesting
  ELSE {"read", "choose", "target", "narrow"} \union Requesting

\* Nothing has been looked up yet.
Untouched == stage \in {"flags", "open", "read", "choose", "target"} \/ (stage \in {"offer", "picking"} /\ ~Setup)

FlowInv ==
  /\ stage \in {"flags", "open", "refused"} \union Way
  /\ stage = "picking" /\ model.single => opt.mode = "init"
  /\ stage \notin {"flags", "refused"} /\ ~Setup => opt.tty \/ (opt.yes /\ opt.reason)
  /\ Project => ~Narrows
  /\ stage = "narrow" => Narrows
  /\ Untouched => todo.next = 1 /\ todo.found = <<>>
  /\ ~Setup => memory.project = Requirements
  /\ stage # "done" => memory.preset \in Presets \union {<<>>}

\* What has been planned are the rows.
PlanInv ==
  /\ Setup \/ stage \notin Reported \union {"refused"} => plan = <<>>
  /\ ~Setup /\ stage \in Reported => Len(plan) = Len(rows) /\ \A i \in Items : plan[i].row = rows[i]
  /\ stage \notin {"submit", "done"} => Sent = {}

-----------------------------------------------------------------------------
(* What is agreed to.                                                       *)

\* What was narrowed is what was selected, at the target.
Wanted == IF Narrows THEN {<<id[1], opt.at>> : id \in consent.selected} ELSE consent.selected

\* The rows in hand are the ones selected, narrowed, or required.
SelectInv ==
  /\ ~Setup /\ stage \in {"choose", "offer", "picking", "target", "narrow", "verify"} \union Requesting => DistinctIds(rows)
  /\ Ordinary /\ stage \in {"target", "narrow"} => consent.selected = Ids(rows)
  /\ Ordinary /\ stage \in Requesting => Ids(rows) = Wanted
  /\ stage = "narrow" =>
       /\ todo.next = Len(todo.found) + 1 /\ Len(todo.found) <= Len(rows)
       /\ \A k \in 1..Len(todo.found) : Id(todo.found[k]) = <<Id(rows[k])[1], opt.at>>
  /\ Project /\ stage = "resolve" /\ ~todo.failed =>
       /\ todo.next = Len(todo.found) + 1 /\ Len(todo.found) <= Len(Requirements)
       /\ \A k \in 1..Len(todo.found) : Id(todo.found[k]) = Requirements[k]
  /\ Project /\ stage \in {"verify"} \union Requesting =>
       Len(rows) = Len(Requirements) /\ \A k \in 1..Len(rows) : Id(rows[k]) = Requirements[k]

\* The rows in hand, and those narrowed so far, are through schedules that were selected.
SourceInv ==
  /\ Ordinary /\ stage \in {"target", "narrow"} \union Requesting =>
       \A k \in 1..Len(rows) : rows[k].sched \in consent.sources
  /\ stage = "narrow" => \A k \in 1..Len(todo.found) : todo.found[k].sched \in consent.sources

PromptInv ==
  /\ consent.reason = "earlier" => consent.prompted
  /\ ~Setup /\ stage \in {"submit", "done"} =>
       \/ opt.yes \/ opt.mode = "pick" \/ (opt.mode # "all" /\ Submissions <= Bulk)
       \/ consent.confirmed = Submissions

-----------------------------------------------------------------------------
(* What ARM has answered.                                                   *)

\* Singles and Vouched, of what has been said by a time.
Clear(roles, s, role, target, now) ==
  /\ s \in roles /\ Mine(s) /\ GrantOf[s].role = role /\ GrantOf[s].scope \in Above[target]
  /\ \A o \in roles \ {s} :
       \/ GrantOf[o].role # role \/ GrantOf[o].until <= now
       \/ GrantOf[s].scope = target /\ GrantOf[o].scope # target
       \/ <<GrantOf[o].scope, GrantOf[o].condition>> = <<GrantOf[s].scope, GrantOf[s].condition>>
VouchedBy(said, now, project, narrows, r) ==
  \E a \in said :
    /\ a[1] = r.target \/ (a[1] = "all" /\ r.target = SourceScope(r) /\ ~project /\ ~narrows)
    /\ r.sched \in a[2] /\ Mine(r.sched) /\ SourceScope(r) \in Above[r.target]
    /\ project => Clear(a[2], r.sched, Id(r)[1], r.target, now)

\* Listed, at the row's target or everywhere; the only one it could be; and the same,
\* of a role at a scope.
AnsweredBy(said, r) ==
  \E a \in said :
    /\ a[1] = r.target \/ (a[1] = "all" /\ r.target = SourceScope(r))
    /\ r.sched \in a[2]
SureBy(said, now, r) == \E a \in said : a[1] = r.target /\ Clear(a[2], r.sched, Id(r)[1], r.target, now)
SolvedBy(said, now, id) == \E a \in said, s \in Grants : a[1] = id[2] /\ Clear(a[2], s, id[1], id[2], now)

\* The caches and the answers at hand are ARM's, and hold the caller's schedules.
ListsInv ==
  /\ \A a \in answers : \A s \in a[2] : Mine(s) /\ (a[1] # "all" => GrantOf[s].scope \in Above[a[1]])
  /\ ~opt.refresh =>
       /\ files.listing.there => <<"all", files.listing.roles>> \in answers
       /\ \A s \in Scopes : files.scoped[s].there => <<s, files.scoped[s].roles>> \in answers
AnswersInv == ListsInv /\ \A s \in DOMAIN todo.read : <<s, todo.read[s]>> \in answers

\* An item that can be sent was settled by the policy of the scope that grants it.
Settles(p, refresh, ticket) ==
  LET key == PolicyKey(p.row)
  IN  /\ p.fresh => RoleSettings(key) # NoPolicy
      /\ p.out \in {"sent", "rejected"} => p.looked /\ ~p.keep /\ ~p.error
      /\ p.looked /\ ~p.keep /\ ~p.error =>
           /\ p.policy # NoPolicy /\ (p.policy.ticket => ticket)
           /\ p.policy # RoleSettings(key) => ~refresh /\ p.policy = OldPolicyAt[key]

\* A cached policy is one that ARM gave, now or to an earlier command.
FilePolicies ==
  \A k \in Targets : files.policies[k].there =>
    /\ files.policies[k].policy # NoPolicy
    /\ files.policies[k].policy \in {RoleSettings(k), OldPolicyAt[k]}
PolicyInv ==
  /\ FilePolicies
  /\ \A i \in Items : Settles(plan[i], opt.refresh, consent.ticket)
  /\ stage \in {"justify", "confirm", "submit"} => \A i \in Items : plan[i].looked

\* Rows are what ARM answered: as listed, as narrowed, as resolved, or as written.
ResolveInv ==
  /\ Ordinary /\ stage \in {"saved", "choose", "offer", "picking", "target", "narrow"} =>
       \A k \in 1..Len(rows) : AnsweredBy(answers, rows[k])
  /\ stage = "narrow" => \A k \in 1..Len(todo.found) : VouchedBy(answers, env.now, Project, Narrows, todo.found[k])
  /\ ~Setup /\ stage \in {"verify"} \union Requesting =>
       \A k \in 1..Len(rows) : VouchedBy(answers, env.now, Project, Narrows, rows[k])
  /\ stage = "resolve" => \A k \in 1..Len(todo.found) : SureBy(answers, env.now, todo.found[k])
  /\ Setup /\ stage # "refused" => \A k \in 1..Len(todo.found) : SolvedBy(answers, env.now, Id(todo.found[k]))
  /\ Setup /\ (stage \in {"offer", "check"} \/ (stage = "picking" /\ ~model.single)) =>
       opt.at \in DOMAIN todo.read /\ \A k \in 1..Len(rows) : rows[k].target = opt.at
  /\ stage = "write" => \A k \in 1..Len(rows) : SolvedBy(answers, env.now, Id(rows[k]))
  /\ memory.created => \A id \in AllOf(memory.project) : SolvedBy(answers, env.now, id)

\* Only --at changes of what the command was asked, and only where it is asked for.
LEMMA OptStep ==
  ASSUME Types, [Next]_vars
  PROVE  /\ opt'.mode = opt.mode /\ opt'.tty = opt.tty /\ opt'.yes = opt.yes /\ opt'.reason = opt.reason
         /\ opt'.refresh = opt.refresh
         /\ opt' = opt \/ stage \in {"target", "browse", "picking"}
         /\ Project' = Project /\ Setup' = Setup /\ Ordinary' = Ordinary
         /\ env.now \in Int /\ env'.now \in Int /\ env'.now >= env.now
<1> DEFINE Same == /\ opt'.mode = opt.mode /\ opt'.tty = opt.tty /\ opt'.yes = opt.yes /\ opt'.reason = opt.reason
                   /\ opt'.refresh = opt.refresh
<1>1. OptType /\ EnvType
  BY DEF Types
<1>2. ClockInv
  <2>1. "mode" \in DOMAIN opt
    BY <1>1 DEF OptType
  <2>2. "now" \in DOMAIN env /\ env.now \in Nat
    BY <1>1, PlanningAssumption DEF EnvType
  <2> QED BY <2>1, <2>2 DEF ClockInv
<1>3. env.now \in Int /\ env'.now \in Int /\ env'.now >= env.now
  BY <1>2, ClockStep DEF ClockInv
<1>4. opt' = opt \/ (stage \in {"target", "browse", "picking"} /\ \E at : opt' = [opt EXCEPT !.at = at])
  BY DEF Next, vars, CheckFlags, Open, ReadEligibilities, ResolveSaved, ChooseRows, ChooseTarget, Narrow, Offer, Browse,
       Press, Take, ResolveNeed, Resolved, Verify, BeginPlan, EndPlan, Justify, Confirm, Remember, LookUp, Submit,
       ReadScope, FilterRows, CheckPicked, Another, Write, Tick, Regrant, Interrupt, Finished
<1>5. Same
  BY <1>1, <1>4 DEF OptType
<1>6. Project' = Project /\ Setup' = Setup /\ Ordinary' = Ordinary
  BY <1>5 DEF Project, Setup, Ordinary
<1> QED BY <1>3, <1>4, <1>5, <1>6

\* The command starts on its way, with nothing planned.
LEMMA FlowInit == Init => FlowInv /\ PlanInv
<1> SUFFICES ASSUME Init PROVE FlowInv /\ PlanInv
  OBVIOUS
<1>1. stage = "flags" /\ todo = NoTodo /\ plan = <<>> /\ opt.at = Nowhere
  BY DEF Init
<1>2. memory.project = Requirements /\ memory.preset \in Presets \union {<<>>}
  BY DEF Init
<1>3. FlowInv
  BY <1>1, <1>2 DEF FlowInv, NoTodo, Narrows
<1>4. PlanInv
  BY <1>1 DEF PlanInv, Sent, Items, Reported
<1> QED BY <1>3, <1>4

\* Every step stays on the way of the command.
LEMMA FlowStep ==
  ASSUME Types, Types', FlowInv, [Next]_vars
  PROVE  FlowInv'
<1>0. /\ opt'.mode = opt.mode /\ opt'.tty = opt.tty /\ opt'.yes = opt.yes /\ opt'.reason = opt.reason
      /\ Project' = Project /\ Setup' = Setup /\ opt.mode \in Modes
      /\ opt' = opt \/ stage \in {"target", "browse", "picking"}
  BY OptStep DEF Types, OptType
<1>1. Way' = Way
  BY <1>0 DEF Way
<1> USE <1>0, <1>1 DEF FlowInv, Setup, Project, Way, Requesting, Untouched, Narrows
<1>2. CASE CheckFlags
  BY <1>2 DEF CheckFlags, Go, Refused
<1>3. CASE Open
  <2>1. PICK failures \in BOOLEAN : todo' = [todo EXCEPT !.failed = failures]
    BY <1>3 DEF Open
  <2>2. todo'.next = todo.next /\ todo'.found = todo.found
    BY <2>1 DEF Types, TodoType
  <2>3. /\ UNCHANGED <<opt, memory, model>> /\ stage = "open"
        /\ stage' \in (IF Project THEN {"refused", "resolve"} ELSE IF opt.mode = "init" THEN {"refused", "browse"}
                       ELSE IF Setup THEN {"refused", "resolve"} ELSE {"read"})
    BY <1>3 DEF Open, Go, Refused
  <2> QED BY <2>2, <2>3 DEF Modes
<1>4. CASE ReadEligibilities
  <2>1. stage' = "refused" \/ stage' = IF opt.mode = "preset" THEN "saved" ELSE IF opt.mode = "pick" THEN "offer" ELSE "choose"
    BY <1>4 DEF ReadEligibilities, Offers, Refused, Go
  <2>2. UNCHANGED <<opt, todo, memory>> /\ stage = "read"
    BY <1>4 DEF ReadEligibilities
  <2> QED BY <2>1, <2>2 DEF Modes
<1>5. CASE ResolveSaved
  <2>1. stage' \in {"saved", "refused"} /\ UNCHANGED <<opt, memory>> /\ stage = "saved"
    BY <1>5, SavedType DEF ResolveSaved
  <2> QED BY <2>1
<1>6. CASE ChooseRows
  <2>1. stage' \in {"refused", "target"}
    BY <1>6, Choosing DEF Selects, Go, Refused
  <2>2. UNCHANGED <<opt, memory>> /\ stage \in {"choose", "saved"} /\ todo'.next = 1 /\ todo'.found = <<>>
    BY <1>6 DEF ChooseRows, Restart, NoTodo
  <2> QED BY <2>1, <2>2
<1>7. CASE ChooseTarget
  <2>1. PICK at \in {Nowhere} \union Scopes :
          /\ opt' = [opt EXCEPT !.at = at]
          /\ IF at = Nowhere THEN Go("plan") ELSE IF todo.failed THEN Refused ELSE Go("narrow")
    BY <1>7 DEF ChooseTarget
  <2>2. opt'.at = at
    BY <2>1 DEF Types, OptType
  <2>3. stage = "target" /\ UNCHANGED <<todo, memory>>
    BY <1>7 DEF ChooseTarget
  <2> QED BY <2>1, <2>2, <2>3 DEF Go, Refused
<1>8. CASE Narrow
  <2>1. stage' \in {"narrow", "plan", "refused"} /\ UNCHANGED <<opt, memory>> /\ stage = "narrow"
    BY <1>8, NarrowType DEF Narrow, Types, AtType
  <2> QED BY <2>1
<1>9. CASE Offer
  <2>1. stage' = "picking" /\ ~model'.single /\ UNCHANGED <<opt, todo, memory>> /\ stage = "offer"
    BY <1>9, Offered DEF Offer
  <2> QED BY <2>1
<1>10. CASE Browse
  <2>1. stage' \in {"picking", "scope"} /\ UNCHANGED <<todo, memory>> /\ stage = "browse"
    BY <1>10, Browsed DEF Browse
  <2> QED BY <2>1
<1>11. CASE Press
  <2>1. stage' = "picking" /\ model'.single = model.single /\ UNCHANGED <<opt, todo, memory>> /\ stage = "picking"
    BY <1>11, PressedOn DEF Press
  <2> QED BY <2>1
<1>12. CASE Take
  <2>1. /\ stage = "picking" /\ UNCHANGED <<todo, memory>>
        /\ \/ stage' = "refused" /\ UNCHANGED opt
           \/ model.single /\ stage' = "scope"
           \/ ~model.single /\ UNCHANGED opt /\ stage' \in {"refused", IF Setup THEN "check" ELSE "target"}
    BY <1>12, Taking
  <2> QED BY <2>1
<1>13. CASE ResolveNeed \/ Resolved
  <2>1. /\ stage = "resolve" /\ stage' \in {"resolve", "refused", IF Project THEN "verify" ELSE "write"}
        /\ UNCHANGED <<opt, memory>>
    BY <1>13 DEF ResolveNeed, Resolved, Go, Refused
  <2> QED BY <2>1
<1>14. CASE Verify
  <2>1. stage = "verify" /\ stage' \in {"refused", "plan"} /\ UNCHANGED <<opt, memory>>
    BY <1>14, Verified
  <2> QED BY <2>1
<1>15. CASE BeginPlan \/ EndPlan \/ Justify \/ Confirm
  <2>1. /\ UNCHANGED <<opt, memory>> /\ stage \in {"plan", "looking", "justify", "confirm"}
        /\ stage' \in {"looking", "justify", "confirm", "submit", "refused"}
    BY <1>15 DEF BeginPlan, EndPlan, Justify, Confirm, Go, Refused
  <2> QED BY <2>1
<1>16. CASE Remember
  <2>1. UNCHANGED opt /\ stage = "submit" /\ stage' = "done" /\ memory'.project = memory.project
    BY <1>16, Remembered
  <2> QED BY <2>1
<1>17. ASSUME NEW i \in Items, LookUp(i) \/ Submit(i) PROVE FlowInv'
  <2>1. UNCHANGED <<opt, stage, memory>> /\ stage \in {"looking", "submit"}
    BY <1>17 DEF LookUp, Submit
  <2> QED BY <2>1
<1>18. CASE ReadScope
  <2>1. UNCHANGED <<opt, memory>> /\ stage = "scope" /\ stage' \in {"offer", "refused"}
    BY <1>18, ScopeRead
  <2> QED BY <2>1
<1>19. CASE FilterRows
  <2>1. UNCHANGED <<opt, memory>> /\ stage = "offer" /\ stage' \in {"check", "refused"} /\ Setup
    BY <1>19, Filtered
  <2> QED BY <2>1
<1>20. CASE CheckPicked \/ Another
  <2>1. /\ UNCHANGED <<opt, memory>> /\ stage \in {"check", "another"}
        /\ stage' \in {"another", "refused", "browse", "write"}
    BY <1>20 DEF CheckPicked, Another, Go, Refused
  <2> QED BY <2>1
<1>21. CASE Write
  <2>1. UNCHANGED opt /\ stage = "write" /\ stage' \in {"done", "refused"} /\ (stage' = "refused" => UNCHANGED memory)
    BY <1>21, Written
  <2> QED BY <2>1
<1>22. CASE Tick \/ Regrant \/ Interrupt \/ Finished \/ UNCHANGED vars
  <2>1. UNCHANGED <<opt, stage, todo, memory, model>>
    BY <1>22 DEF Tick, Regrant, Interrupt, Finished, vars
  <2> QED BY <2>1
<1> QED BY <1>2, <1>3, <1>4, <1>5, <1>6, <1>7, <1>8, <1>9, <1>10, <1>11, <1>12, <1>13, <1>14, <1>15,
           <1>16, <1>17, <1>18, <1>19, <1>20, <1>21, <1>22 DEF Next

\* Every step keeps the plan one item to a row, and sends nothing before its time.
LEMMA PlanStep ==
  ASSUME Types, Types', FlowInv, PlanInv, [Next]_vars
  PROVE  PlanInv'
<1>0. Project' = Project /\ Setup' = Setup /\ opt.mode \in Modes
  BY OptStep DEF Types, OptType
<1>1. ASSUME plan = <<>>, plan' = plan, Setup \/ stage' \notin Reported PROVE PlanInv'
  <2>1. Items' = {} /\ Sent' = {}
    BY <1>1 DEF Items, Sent
  <2> QED BY <1>0, <1>1, <2>1 DEF PlanInv
<1>2. ASSUME UNCHANGED <<rows, plan>>, stage \in Reported, stage' \in Reported \union {"refused"},
             stage \in {"submit", "done"} => stage' \in {"submit", "done"}
      PROVE  PlanInv'
  <2>1. Items' = Items /\ Sent' = Sent
    BY <1>2 DEF Items, Sent
  <2> QED BY <1>0, <1>2, <2>1 DEF PlanInv, Reported
<1>3. stage \notin Reported \union {"refused"} => plan = <<>>
  BY DEF PlanInv
<1> USE DEF Reported
<1>4. CASE CheckFlags \/ Open
  <2>1. stage \in {"flags", "open"} /\ plan' = plan /\ stage' \notin Reported
    BY <1>4 DEF CheckFlags, Open, Go, Refused
  <2> QED BY <2>1, <1>1, <1>3
<1>5. CASE ReadEligibilities \/ ResolveSaved \/ ChooseRows \/ ChooseTarget
  <2>1. stage \in {"read", "saved", "choose", "target"} /\ plan' = plan /\ stage' \notin Reported
    BY <1>5 DEF ReadEligibilities, ResolveSaved, ChooseRows, ChooseTarget, Offers, Selects, Go, Refused
  <2> QED BY <2>1, <1>1, <1>3
<1>6. CASE Narrow
  <2>1. stage = "narrow" /\ plan' = plan /\ stage' \notin Reported
    BY <1>6 DEF Narrow, Go, Refused
  <2> QED BY <2>1, <1>1, <1>3
<1>7. CASE Offer \/ Browse \/ Press \/ Take
  <2>1. stage \in {"offer", "browse", "picking"} /\ plan' = plan /\ stage' \notin Reported
    BY <1>7, Taking DEF Offer, Browse, Press, Go
  <2> QED BY <2>1, <1>1, <1>3
<1>8. CASE ResolveNeed \/ Resolved \/ Verify
  <2>1. stage \in {"resolve", "verify"} /\ plan' = plan /\ stage' \notin Reported
    BY <1>8 DEF ResolveNeed, Resolved, Verify, Go, Refused
  <2> QED BY <2>1, <1>1, <1>3
<1>9. CASE BeginPlan
  <2>1. /\ Len(plan') = Len(rows) /\ rows' = rows /\ stage = "plan" /\ stage' = "looking"
        /\ \A i \in 1..Len(rows) : plan'[i].row = rows[i] /\ plan'[i].out = "none"
    BY <1>9, PlanBegan
  <2>2. Items' = 1..Len(rows)
    BY <2>1 DEF Items
  <2>3. Sent' = {}
    BY <2>1, <2>2 DEF Sent
  <2>4. ~Setup
    BY <1>0, <2>1 DEF FlowInv, Way, Setup, Project
  <2> QED BY <1>0, <2>1, <2>2, <2>3, <2>4 DEF PlanInv
<1>10. CASE EndPlan \/ Justify \/ Confirm \/ Remember
  <2>1. /\ UNCHANGED <<rows, plan>> /\ stage \in {"looking", "justify", "confirm", "submit"}
        /\ stage' \in {"justify", "confirm", "submit", "done", "refused"} /\ (stage = "submit" => stage' = "done")
    BY <1>10 DEF EndPlan, Justify, Confirm, Remember, Go, Refused
  <2> QED BY <2>1, <1>2
<1>11. ASSUME NEW i \in Items, LookUp(i) \/ Submit(i) PROVE PlanInv'
  <2>1. /\ Len(plan') = Len(plan) /\ plan'[i].row = plan[i].row /\ UNCHANGED <<rows, stage>>
        /\ \A j \in Items : j # i => plan'[j] = plan[j]
        /\ stage \in {"looking", "submit"} /\ (stage = "looking" => plan'[i].out = plan[i].out)
    BY <1>11, LookedUp, Submitted
  <2>2. Items' = Items
    BY <2>1 DEF Items
  <2>3. \A j \in Items : plan'[j].row = plan[j].row
    BY <2>1
  <2>4. stage = "looking" => Sent' = Sent
    <3>1. stage = "looking" => \A j \in Items : plan'[j].out = plan[j].out
      BY <2>1
    <3> QED BY <2>2, <3>1 DEF Sent
  <2> QED BY <1>0, <2>1, <2>2, <2>3, <2>4 DEF PlanInv
<1>12. CASE ReadScope \/ FilterRows \/ CheckPicked \/ Another
  <2>1. stage \in {"scope", "offer", "check", "another"} /\ plan' = plan /\ stage' \notin Reported
    BY <1>12 DEF ReadScope, FilterRows, CheckPicked, Another, Go, Refused
  <2> QED BY <2>1, <1>1, <1>3
<1>13. CASE Write
  <2>1. stage = "write" /\ plan' = plan
    BY <1>13 DEF Write
  <2>2. Setup
    BY <2>1 DEF FlowInv, Way, Setup, Requesting
  <2> QED BY <2>1, <2>2, <1>1, <1>3
<1>14. CASE Tick \/ Regrant \/ Interrupt \/ Finished \/ UNCHANGED vars
  <2>1. UNCHANGED <<stage, rows, plan>>
    BY <1>14 DEF Tick, Regrant, Interrupt, Finished, vars
  <2>2. Items' = Items /\ Sent' = Sent
    BY <2>1 DEF Items, Sent
  <2> QED BY <1>0, <2>1, <2>2 DEF PlanInv
<1> QED BY <1>4, <1>5, <1>6, <1>7, <1>8, <1>9, <1>10, <1>11, <1>12, <1>13, <1>14 DEF Next

-----------------------------------------------------------------------------
(* What was agreed to.                                                      *)

\* Every step keeps what was confirmed at the size of what is sent.
LEMMA PromptStep ==
  ASSUME Types, Types', FlowInv, PlanInv, PromptInv, [Next]_vars
  PROVE  PromptInv'
<1>0. /\ opt'.mode = opt.mode /\ opt'.yes = opt.yes /\ Setup' = Setup /\ opt.mode \in Modes
  BY OptStep DEF Types, OptType
<1>1. ConsentType
  BY DEF Types
<1>2. ASSUME consent'.reason = consent.reason, consent'.prompted = consent.prompted,
             Setup \/ stage' \notin {"submit", "done"}
      PROVE  PromptInv'
  BY <1>0, <1>2 DEF PromptInv
<1>3. ASSUME UNCHANGED consent, Setup \/ stage' \notin {"submit", "done"} PROVE PromptInv'
  BY <1>2, <1>3
<1>4. CASE CheckFlags \/ Open \/ ReadEligibilities \/ ResolveSaved \/ ChooseTarget \/ Narrow
  <2>1. UNCHANGED consent /\ stage' \notin {"submit", "done"}
    BY <1>4 DEF CheckFlags, Open, ReadEligibilities, ResolveSaved, ChooseTarget, Narrow, Offers, Go, Refused
  <2> QED BY <2>1, <1>3
<1>5. CASE ChooseRows
  <2>1. stage' \notin {"submit", "done"} /\ (consent' = consent \/ \E set, by : consent' = [consent EXCEPT !.selected = set, !.sources = by])
    BY <1>5, Choosing DEF Selects, Go, Refused
  <2> QED BY <1>1, <1>2, <2>1 DEF ConsentType
<1>6. CASE Offer \/ Browse \/ Press
  <2>1. UNCHANGED consent /\ stage' \notin {"submit", "done"}
    BY <1>6 DEF Offer, Browse, Press, Go
  <2> QED BY <2>1, <1>3
<1>7. CASE Take
  <2>1. stage' \notin {"submit", "done"} /\ (consent' = consent \/ \E set, by : consent' = [consent EXCEPT !.selected = set, !.sources = by])
    BY <1>7, Taking
  <2> QED BY <1>1, <1>2, <2>1 DEF ConsentType
<1>8. CASE ResolveNeed \/ Resolved \/ Verify
  <2>1. UNCHANGED consent /\ stage' \notin {"submit", "done"}
    BY <1>8 DEF ResolveNeed, Resolved, Verify, Go, Refused
  <2> QED BY <2>1, <1>3
<1>9. CASE BeginPlan
  BY <1>9, <1>2, PlanBegan
<1>10. CASE EndPlan
  BY <1>10, <1>3, PlanEnded
<1>11. CASE Justify
  <2>1. \/ consent' = consent
        \/ \E reason \in {"flag", "default"} : consent' = [consent EXCEPT !.reason = reason]
        \/ \E reason : consent' = [consent EXCEPT !.reason = reason, !.prompted = TRUE]
    BY <1>11 DEF Justify
  <2>2. stage' \notin {"submit", "done"}
    BY <1>11 DEF Justify, Go, Refused
  <2>3. consent'.reason = "earlier" => consent'.prompted
    BY <1>1, <2>1 DEF PromptInv, ConsentType
  <2> QED BY <1>0, <2>2, <2>3 DEF PromptInv
<1>12. CASE Confirm
  <2>1. /\ UNCHANGED plan
        /\ \/ stage' = "refused" /\ UNCHANGED consent
           \/ stage' = "submit" /\ consent' = consent
              /\ (opt.yes \/ opt.mode = "pick" \/ (opt.mode # "all" /\ Submissions <= Bulk))
           \/ stage' = "submit" /\ consent' = [consent EXCEPT !.confirmed = Submissions]
    BY <1>12 DEF Confirm, Go, Refused
  <2>2. Submissions' = Submissions
    BY <2>1 DEF Submissions, Items
  <2>3. consent'.reason = consent.reason /\ consent'.prompted = consent.prompted
    BY <1>1, <2>1 DEF ConsentType
  <2>4. CASE stage' = "refused"
    BY <1>2, <2>3, <2>4
  <2>5. CASE stage' = "submit" /\ (opt.yes \/ opt.mode = "pick" \/ (opt.mode # "all" /\ Submissions <= Bulk))
    BY <1>0, <2>2, <2>3, <2>5 DEF PromptInv
  <2>6. CASE consent' = [consent EXCEPT !.confirmed = Submissions]
    <3>1. consent'.confirmed = Submissions'
      BY <1>1, <2>2, <2>6 DEF ConsentType
    <3> QED BY <2>3, <3>1 DEF PromptInv
  <2> QED BY <2>1, <2>4, <2>5, <2>6
<1>13. CASE Remember
  <2>1. UNCHANGED <<consent, plan>> /\ stage = "submit"
    BY <1>13, Remembered
  <2>2. Submissions' = Submissions
    BY <2>1 DEF Submissions, Items
  <2> QED BY <1>0, <2>1, <2>2 DEF PromptInv
<1>14. ASSUME NEW i \in Items, LookUp(i) PROVE PromptInv'
  BY <1>14, <1>3, LookedUp
<1>15. ASSUME NEW i \in Items, Submit(i) PROVE PromptInv'
  <2>1. /\ Len(plan') = Len(plan) /\ UNCHANGED <<consent, stage>>
        /\ \A j \in Items : plan'[j].keep = plan[j].keep
    BY <1>15, Submitted
  <2>2. Submissions' = Submissions
    BY <2>1 DEF Submissions, Items
  <2> QED BY <1>0, <2>1, <2>2 DEF PromptInv
<1>16. CASE ReadScope \/ FilterRows \/ CheckPicked \/ Another
  <2>1. UNCHANGED consent /\ stage' \notin {"submit", "done"}
    BY <1>16, Filtered DEF ReadScope, CheckPicked, Another, Go, Refused
  <2> QED BY <2>1, <1>3
<1>17. CASE Write
  <2>1. stage = "write" /\ UNCHANGED consent
    BY <1>17 DEF Write
  <2>2. Setup
    BY <1>0, <2>1 DEF FlowInv, Way, Setup, Requesting
  <2> QED BY <2>1, <2>2, <1>3
<1>18. CASE Tick \/ Regrant \/ Interrupt \/ Finished \/ UNCHANGED vars
  <2>1. UNCHANGED <<stage, consent, plan>>
    BY <1>18 DEF Tick, Regrant, Interrupt, Finished, vars
  <2>2. Submissions' = Submissions
    BY <2>1 DEF Submissions, Items
  <2> QED BY <1>0, <2>1, <2>2 DEF PromptInv
<1> QED BY <1>4, <1>5, <1>6, <1>7, <1>8, <1>9, <1>10, <1>11, <1>12, <1>13, <1>14, <1>15, <1>16, <1>17, <1>18 DEF Next

\* Narrowing appends a row for the role that was selected, at the target.
LEMMA NarrowedOne ==
  ASSUME Types, SelectInv, Narrow, ~(todo.next > Len(rows)), stage' # "refused"
  PROVE  LET r == rows[todo.next]
             chosen == Choose(Told(opt.at), GrantOf[r.sched].role, opt.at, r.sched)
         IN  /\ UNCHANGED <<rows, stage, opt, consent, plan, model, memory, env>> /\ Reads(opt.at)
             /\ todo.next \in 1..Len(rows) /\ rows[todo.next] \in RowSet
             /\ Cardinality(chosen) = 1 /\ Sole(chosen) \in Told(opt.at) /\ Sole(chosen) \in Grants
             /\ GrantOf[Sole(chosen)].role = GrantOf[r.sched].role
             /\ Row(Sole(chosen), opt.at) \in RowSet
             /\ todo'.next = todo.next + 1 /\ todo'.found = Append(todo.found, Row(Sole(chosen), opt.at))
             /\ todo'.read = todo.read
<1> DEFINE r == rows[todo.next]
           chosen == Choose(Told(opt.at), GrantOf[r.sched].role, opt.at, r.sched)
<1>1. stage = "narrow" /\ opt.at \in Scopes /\ EnvType /\ FilesType /\ TodoType /\ rows \in Seq(RowSet)
  BY DEF Types, AtType, Narrow
<1>2. /\ UNCHANGED <<rows, opt, consent, plan, model, memory, env>> /\ Reads(opt.at) /\ stage' = stage
      /\ Cardinality(chosen) = 1
      /\ todo' = [todo EXCEPT !.next = @ + 1, !.found = Append(@, Row(Sole(chosen), opt.at))]
  BY DEF Narrow, Refused
<1>3. todo.next \in 1..Len(rows) /\ r \in RowSet
  <2>1. Len(rows) \in Nat /\ todo.next \in Nat \ {0}
    BY <1>1, LenProperties DEF TodoType
  <2>2. todo.next \in 1..Len(rows)
    BY <2>1
  <2> QED BY <1>1, <2>2, ElementOfSeq
<1>4. Told(opt.at) \in SUBSET Grants /\ env.now \in Int
  BY <1>1, ToldType, PlanningAssumption DEF EnvType
<1>5. Sole(chosen) \in Told(opt.at) /\ GrantOf[Sole(chosen)].role = GrantOf[r.sched].role
  <2> HIDE DEF r
  <2>1. Cardinality(chosen) = 1
    BY <1>2
  <2> QED BY <1>4, <2>1, SoleOfRole
<1> HIDE DEF chosen, r
<1>6. Row(Sole(chosen), opt.at) \in RowSet
  BY <1>1, <1>4, <1>5, RowType
<1>7. todo'.next = todo.next + 1 /\ todo'.found = Append(todo.found, Row(Sole(chosen), opt.at)) /\ todo'.read = todo.read
  <2>1. PICK x : x = Append(todo.found, Row(Sole(chosen), opt.at))
    OBVIOUS
  <2>2. PICK n : n = todo.next + 1
    OBVIOUS
  <2>3. todo' = [todo EXCEPT !.next = n, !.found = x]
    BY <1>2, <2>1, <2>2
  <2>4. todo'.next = n /\ todo'.found = x /\ todo'.read = todo.read
    BY <1>1, <2>3 DEF TodoType
  <2> QED BY <2>1, <2>2, <2>4
<1> QED BY <1>2, <1>3, <1>4, <1>5, <1>6, <1>7 DEF r, chosen

\* Rows for the same roles and targets: one for each if the others were.
LEMMA SameIds ==
  ASSUME NEW s, NEW t, Len(t) = Len(s), \A k \in 1..Len(s) : Id(t[k]) = Id(s[k])
  PROVE  Ids(t) = Ids(s) /\ (DistinctIds(s) => DistinctIds(t))
BY DEF Ids, DistinctIds

\* What a row of a schedule at a scope stands for.
LEMMA RowId ==
  ASSUME NEW s \in Grants, NEW target \in Scopes
  PROVE  Id(Row(s, target)) = <<GrantOf[s].role, target>>
BY DEF Id, Row

\* Every step of an ordinary command keeps the rows in hand those that were selected.
LEMMA SelectStep ==
  ASSUME Types, Types', FlowInv, FlowInv', SelectInv, [Next]_vars
  PROVE  SelectInv'
<1>0. /\ opt'.mode = opt.mode /\ Project' = Project /\ Setup' = Setup /\ Ordinary' = Ordinary /\ opt.mode \in Modes
      /\ opt' = opt \/ stage \in {"target", "browse", "picking"}
  BY OptStep DEF Types, OptType
<1>1. /\ rows \in Seq(RowSet) /\ Len(rows) \in Nat /\ TodoType /\ ConsentType /\ Len(Requirements) \in Nat
  BY LenProperties, PlanningAssumption DEF Types
<1> DEFINE Groups == {"choose", "offer", "picking", "target", "narrow", "verify", "resolve"} \union Requesting
<1>2. ASSUME stage' \notin Groups PROVE SelectInv'
  BY <1>2 DEF SelectInv
<1>3. ASSUME Setup, stage' # "narrow" PROVE SelectInv'
  BY <1>0, <1>3 DEF SelectInv, Ordinary, Setup, Project
<1>4. ASSUME UNCHANGED <<rows, opt>>, consent'.selected = consent.selected,
             stage \in Requesting, stage' \in Requesting \union {"refused"}
      PROVE  SelectInv'
  <2>1. Wanted' = Wanted
    BY <1>4 DEF Wanted, Narrows
  <2> QED BY <1>0, <1>4, <2>1 DEF SelectInv, Requesting
<1>5. CASE CheckFlags
  BY <1>2, <1>5 DEF CheckFlags, Go, Refused, Requesting
<1>6. CASE Open
  <2>1. todo.next = 1 /\ todo.found = <<>>
    BY <1>6 DEF Open, FlowInv, Untouched
  <2>2. todo'.next = 1 /\ todo'.found = <<>>
    <3>1. PICK failures \in BOOLEAN : todo' = [todo EXCEPT !.failed = failures]
      BY <1>6 DEF Open
    <3> QED BY <1>1, <2>1, <3>1 DEF TodoType
  <2>3. stage' \in {"refused", "browse", "resolve", "read"}
    BY <1>6 DEF Open, Go, Refused
  <2>4. stage' # "resolve" => SelectInv'
    BY <1>2, <2>3 DEF Requesting
  <2>5. stage' = "resolve" => SelectInv'
    <3>1. Len(<<>>) = 0
      OBVIOUS
    <3> QED BY <1>1, <2>2, <3>1 DEF SelectInv, Requesting
  <2> QED BY <2>4, <2>5
<1>7. CASE ReadEligibilities
  <2>1. stage = "read" /\ ~Project
    BY <1>0, <1>7 DEF ReadEligibilities, FlowInv, Way, Project, Requesting
  <2>2. CASE \E set \in SUBSET Grants : Offers(set)
    <3>1. DistinctIds(rows') /\ stage' \in {"refused", "saved", "offer", "choose"}
      BY <2>2, Offering
    <3> QED BY <1>0, <2>1, <3>1 DEF SelectInv, Requesting
  <2>3. CASE Refused
    BY <1>2, <2>3 DEF Refused, Requesting
  <2>4. files.listing.roles \in SUBSET Grants /\ {s \in env.grants : Mine(s)} \in SUBSET Grants
    BY GrantsSubsets DEF Types, FilesType, File
  <2> QED BY <1>7, <2>2, <2>3, <2>4 DEF ReadEligibilities
<1>8. CASE ResolveSaved
  <2>1. stage' \in {"saved", "refused"}
    BY <1>8, SavedType
  <2> QED BY <1>2, <2>1 DEF Requesting
<1>9. CASE ChooseRows
  <2>1. stage \in {"choose", "saved"} /\ opt' = opt /\ ~Project
    BY <1>0, <1>9 DEF ChooseRows, FlowInv, Way, Project, Requesting
  <2>2. opt.mode # "preset" /\ ~Setup => DistinctIds(rows)
    BY <1>0, <2>1 DEF FlowInv, Way, SelectInv, Setup, Project, Requesting
  <2>3. \A i, j \in 1..Len(memory.preset) :
           <<memory.preset[i].role, memory.preset[i].target>> = <<memory.preset[j].role, memory.preset[j].target>> => i = j
    <3>1. memory.preset \in Presets \union {<<>>}
      BY <2>1 DEF FlowInv
    <3>2. CASE memory.preset = <<>>
      BY <3>2
    <3>3. CASE memory.preset \in Presets
      BY <3>3, PlanningAssumption
    <3> QED BY <3>1, <3>2, <3>3
  <2>4. CASE stage' = "refused"
    BY <1>2, <2>4 DEF Requesting
  <2>5. CASE Setup
    <3>1. stage' \in {"refused", "target"}
      BY <1>9, Choosing, Selecting DEF Types
    <3> QED BY <1>3, <2>5, <3>1
  <2>6. ASSUME ~Setup, NEW chosen \in Seq(RowSet), Selects(chosen), DistinctIds(chosen) PROVE SelectInv'
    <3>1. rows' = chosen /\ stage' \in {"refused", "target"} /\ consent' = [consent EXCEPT !.selected = Ids(chosen), !.sources = Scheds(chosen)]
      BY <1>1, <2>6, Selecting
    <3>2. consent'.selected = Ids(chosen)
      BY <1>1, <3>1 DEF ConsentType
    <3> QED BY <1>0, <2>1, <2>6, <3>1, <3>2 DEF SelectInv, Requesting
  <2> QED BY <1>9, <2>2, <2>3, <2>4, <2>5, <2>6, Choosing
<1>10. CASE ChooseTarget
  <2>1. PICK at \in {Nowhere} \union Scopes :
          /\ opt' = [opt EXCEPT !.at = at]
          /\ IF at = Nowhere THEN Go("plan") ELSE IF todo.failed THEN Refused ELSE Go("narrow")
    BY <1>10 DEF ChooseTarget
  <2>2. opt'.at = at /\ (stage' = "plan" => ~Narrows')
    BY <2>1 DEF Types, OptType, Go, Refused, Narrows
  <2>3. stage = "target" /\ UNCHANGED <<todo, rows, consent>> /\ stage' \in {"plan", "narrow", "refused"}
    BY <1>10, <2>1 DEF ChooseTarget, Go, Refused
  <2>4. ~Project /\ ~Setup /\ todo.next = 1 /\ todo.found = <<>>
    BY <1>0, <2>3 DEF FlowInv, Way, Setup, Project, Requesting, Untouched
  <2>5. DistinctIds(rows) /\ consent.selected = Ids(rows)
    BY <2>3, <2>4 DEF SelectInv, Ordinary
  <2>6. Wanted' = Ids(rows) \/ stage' # "plan"
    BY <2>2, <2>3, <2>5 DEF Wanted
  <2>7. Len(<<>>) = 0
    OBVIOUS
  <2> QED BY <1>0, <1>1, <2>3, <2>4, <2>5, <2>6, <2>7 DEF SelectInv, Ordinary, Requesting
<1>11. CASE Narrow
  <2>1. stage = "narrow" /\ opt' = opt /\ consent' = consent /\ opt.at \in Scopes /\ Narrows
    BY <1>11 DEF Narrow, Types, AtType, FlowInv
  <2>2. ~Project /\ ~Setup /\ Ordinary
    BY <1>0, <2>1 DEF FlowInv, Way, Setup, Project, Requesting, Ordinary
  <2>3. /\ DistinctIds(rows) /\ consent.selected = Ids(rows)
        /\ todo.next = Len(todo.found) + 1 /\ Len(todo.found) <= Len(rows)
        /\ \A k \in 1..Len(todo.found) : Id(todo.found[k]) = <<Id(rows[k])[1], opt.at>>
    BY <2>1, <2>2 DEF SelectInv
  <2>4. todo.found \in Seq(RowSet) /\ Len(todo.found) \in Nat
    BY <1>1, LenProperties DEF TodoType
  <2>5. CASE todo.next > Len(rows)
    <3>1. rows' = Dedupe(todo.found) /\ stage' = "plan" /\ UNCHANGED todo
      BY <1>11, <2>5 DEF Narrow, Narrowed, Go
    <3>2. DistinctIds(rows') /\ Ids(rows') = Ids(todo.found)
      BY <2>4, <3>1, Deduped
    <3>3. Len(todo.found) = Len(rows)
      BY <1>1, <2>3, <2>4, <2>5
    <3>4. Ids(todo.found) = {<<id[1], opt.at>> : id \in Ids(rows)}
      <4>1. \A k \in 1..Len(rows) : Id(todo.found[k]) = <<Id(rows[k])[1], opt.at>>
        BY <2>3, <3>3
      <4> QED BY <3>3, <4>1 DEF Ids
    <3>5. Wanted' = Ids(rows')
      BY <2>1, <2>3, <3>2, <3>4 DEF Wanted, Narrows
    <3> QED BY <1>0, <2>2, <3>1, <3>2, <3>5 DEF SelectInv, Requesting
  <2>6. CASE ~(todo.next > Len(rows)) /\ stage' # "refused"
    <3> DEFINE r == rows[todo.next]
               chosen == Choose(Told(opt.at), GrantOf[r.sched].role, opt.at, r.sched)
               new == Row(Sole(chosen), opt.at)
    <3>1. /\ UNCHANGED <<rows, stage>> /\ todo.next \in 1..Len(rows) /\ rows[todo.next] \in RowSet
          /\ Sole(chosen) \in Grants /\ GrantOf[Sole(chosen)].role = GrantOf[r.sched].role
          /\ new \in RowSet /\ todo'.next = todo.next + 1 /\ todo'.found = Append(todo.found, new)
      BY <1>11, <2>6, NarrowedOne
    <3>2. Id(new) = <<Id(rows[todo.next])[1], opt.at>>
      BY <2>1, <3>1, RowId DEF Id
    <3> HIDE DEF new
    <3>3. /\ Len(todo'.found) = Len(todo.found) + 1
          /\ \A k \in 1..Len(todo.found) : todo'.found[k] = todo.found[k]
          /\ todo'.found[Len(todo.found) + 1] = new
      BY <2>4, <3>1, AppendProperties
    <3>4. \A k \in 1..Len(todo'.found) : Id(todo'.found[k]) = <<Id(rows[k])[1], opt.at>>
      <4> SUFFICES ASSUME NEW k \in 1..Len(todo'.found) PROVE Id(todo'.found[k]) = <<Id(rows[k])[1], opt.at>>
        OBVIOUS
      <4>1. CASE k \in 1..Len(todo.found)
        BY <2>3, <3>3, <4>1
      <4>2. CASE k = Len(todo.found) + 1
        BY <2>3, <3>2, <3>3, <4>2
      <4>3. k \in 1..Len(todo.found) \/ k = Len(todo.found) + 1
        BY <2>4, <3>3
      <4> QED BY <4>1, <4>2, <4>3
    <3>5. todo'.next = Len(todo'.found) + 1 /\ Len(todo'.found) <= Len(rows)
      BY <1>1, <2>3, <2>4, <3>1, <3>3
    <3> QED BY <1>0, <2>1, <2>2, <2>3, <3>1, <3>4, <3>5 DEF SelectInv, Requesting
  <2>7. CASE stage' = "refused"
    BY <1>2, <2>7 DEF Requesting
  <2> QED BY <2>5, <2>6, <2>7
<1>12. CASE Offer \/ Press
  <2>1. UNCHANGED <<rows, opt>> /\ stage \in {"offer", "picking"} /\ stage' = "picking"
    BY <1>12 DEF Offer, Press, Go
  <2>2. ~Project
    BY <1>0, <2>1 DEF FlowInv, Way, Project, Requesting
  <2> QED BY <1>0, <2>1, <2>2 DEF SelectInv, Requesting
<1>13. CASE Browse
  <2>1. stage = "browse" /\ stage' \in {"picking", "scope"}
    BY <1>13 DEF Browse, Go
  <2>2. Setup
    BY <1>0, <2>1 DEF FlowInv, Way, Setup, Requesting
  <2> QED BY <1>3, <2>1, <2>2
<1>14. CASE Take
  <2>1. /\ stage = "picking"
        /\ \/ stage' \in {"refused", "scope"}
           \/ /\ ~model.single /\ rows' \in Seq(RowSet) /\ AllOf(rows') \subseteq AllOf(rows)
              /\ DistinctIds(rows) => DistinctIds(rows')
              /\ consent' = [consent EXCEPT !.selected = Ids(rows'), !.sources = Scheds(rows')]
              /\ Ids(rows') \subseteq Targets
              /\ stage' = (IF rows' = <<>> THEN "refused" ELSE IF Setup THEN "check" ELSE "target")
              /\ UNCHANGED opt
    BY <1>14, Taking
  <2>2. CASE stage' \in {"refused", "scope", "check"}
    BY <1>2, <2>2 DEF Requesting
  <2>3. CASE /\ DistinctIds(rows) => DistinctIds(rows')
             /\ consent' = [consent EXCEPT !.selected = Ids(rows'), !.sources = Scheds(rows')]
             /\ stage' = "target" /\ ~Setup
    <3>1. consent'.selected = Ids(rows')
      BY <1>1, <2>3 DEF ConsentType
    <3>2. ~Project /\ DistinctIds(rows)
      BY <1>0, <2>1, <2>3 DEF FlowInv, Way, Project, Requesting, SelectInv
    <3> QED BY <1>0, <2>3, <3>1, <3>2 DEF SelectInv, Requesting
  <2> QED BY <2>1, <2>2, <2>3
<1>15. CASE ResolveNeed /\ ~Project
  <2>1. stage' = "resolve"
    BY <1>15 DEF ResolveNeed
  <2>2. Setup
    BY <1>0, <1>15 DEF ResolveNeed, FlowInv, Way, Setup, Requesting
  <2> QED BY <1>3, <2>1, <2>2
<1>16. CASE ResolveNeed /\ Project
  <2>1. PICK role \in Roles, scope \in Scopes, roles \in SUBSET Grants :
           LET chosen == Choose(roles, role, scope, AnySchedule)
           IN  /\ Needs[todo.next] = <<role, scope>> /\ todo.next \in 1..Len(Needs)
               /\ UNCHANGED <<rows, stage>>
               /\ \/ /\ todo'.next = todo.next + 1 /\ todo'.failed = (todo.failed \/ Cardinality(chosen) # 1)
                     /\ todo'.found = IF Cardinality(chosen) # 1 THEN todo.found
                                      ELSE Append(todo.found, Row(Sole(chosen), scope))
                  \/ todo' = [todo EXCEPT !.next = todo.next + 1, !.failed = TRUE]
    BY <1>16, NeedResolved
  <2> DEFINE chosen == Choose(roles, role, scope, AnySchedule)
             new == Row(Sole(chosen), scope)
  <2>2. stage = "resolve" /\ stage' = "resolve" /\ Needs = Requirements
    BY <1>16 DEF ResolveNeed, FlowInv, Needs, Project, Setup
  <2>3. CASE todo' = [todo EXCEPT !.next = todo.next + 1, !.failed = TRUE]
    <3>1. todo'.failed
      BY <1>1, <2>3 DEF TodoType
    <3> QED BY <2>2, <3>1 DEF SelectInv, Requesting
  <2>4. CASE /\ todo'.next = todo.next + 1 /\ todo'.failed = (todo.failed \/ Cardinality(chosen) # 1)
             /\ todo'.found = IF Cardinality(chosen) # 1 THEN todo.found ELSE Append(todo.found, new)
    <3> SUFFICES ASSUME ~todo'.failed
                 PROVE  /\ todo'.next = Len(todo'.found) + 1 /\ Len(todo'.found) <= Len(Requirements)
                        /\ \A k \in 1..Len(todo'.found) : Id(todo'.found[k]) = Requirements[k]
      BY <2>2 DEF SelectInv, Requesting
    <3>1. Cardinality(chosen) = 1 /\ todo'.found = Append(todo.found, new) /\ ~todo.failed
      BY <1>1, <2>4 DEF TodoType
    <3>2. /\ todo.next = Len(todo.found) + 1 /\ Len(todo.found) <= Len(Requirements)
          /\ \A k \in 1..Len(todo.found) : Id(todo.found[k]) = Requirements[k]
      BY <1>16, <2>2, <3>1 DEF SelectInv
    <3>3. Sole(chosen) \in Grants /\ GrantOf[Sole(chosen)].role = role
      <4>1. env.now \in Int
        BY OptStep
      <4>2. Cardinality(chosen) = 1
        BY <3>1
      <4>3. Sole(chosen) \in roles /\ GrantOf[Sole(chosen)].role = role
        BY <4>1, <4>2, SoleOfRole
      <4> QED BY <4>3
    <3> HIDE DEF chosen
    <3>4. new \in RowSet /\ Id(new) = <<role, scope>>
      BY <3>3, RowType, RowId
    <3> HIDE DEF new
    <3>5. todo.found \in Seq(RowSet) /\ Len(todo.found) \in Nat
      BY <1>1, LenProperties DEF TodoType
    <3>6. /\ Len(todo'.found) = Len(todo.found) + 1
          /\ \A k \in 1..Len(todo.found) : todo'.found[k] = todo.found[k]
          /\ todo'.found[Len(todo.found) + 1] = new
      BY <3>1, <3>4, <3>5, AppendProperties
    <3>7. Id(new) = Requirements[Len(todo.found) + 1]
      BY <2>1, <2>2, <3>2, <3>4
    <3>8. \A k \in 1..Len(todo'.found) : Id(todo'.found[k]) = Requirements[k]
      <4> SUFFICES ASSUME NEW k \in 1..Len(todo'.found) PROVE Id(todo'.found[k]) = Requirements[k]
        OBVIOUS
      <4>1. k \in 1..Len(todo.found) \/ k = Len(todo.found) + 1
        BY <3>5, <3>6
      <4> QED BY <3>2, <3>6, <3>7, <4>1
    <3>9. todo.next \in 1..Len(Requirements)
      BY <2>1, <2>2
    <3> QED BY <1>1, <2>4, <3>2, <3>5, <3>6, <3>8, <3>9
  <2> QED BY <2>1, <2>3, <2>4
<1>17. CASE Resolved
  <2>1. /\ rows' = todo.found /\ stage = "resolve" /\ todo' = todo /\ opt' = opt
        /\ todo.next > Len(Needs) /\ stage' = IF todo.failed THEN "refused" ELSE IF Project THEN "verify" ELSE "write"
    BY <1>17 DEF Resolved, Go, Refused
  <2>2. CASE stage' # "verify"
    BY <1>2, <2>1, <2>2 DEF Requesting
  <2>3. CASE stage' = "verify"
    <3>1. Project /\ ~Setup /\ ~todo.failed /\ ~Ordinary
      BY <2>1, <2>3 DEF Project, Setup, Ordinary
    <3>2. Needs = Requirements
      BY <3>1, <2>1 DEF FlowInv, Needs
    <3>3. /\ todo.next = Len(todo.found) + 1 /\ Len(todo.found) <= Len(Requirements)
          /\ \A k \in 1..Len(todo.found) : Id(todo.found[k]) = Requirements[k]
      BY <2>1, <3>1 DEF SelectInv
    <3>4. Len(todo.found) \in Nat
      BY <1>1, LenProperties DEF TodoType
    <3>5. Len(rows') = Len(Requirements) /\ \A k \in 1..Len(rows') : Id(rows'[k]) = Requirements[k]
      BY <1>1, <2>1, <3>2, <3>3, <3>4
    <3>6. DistinctIds(rows')
      BY <3>5, PlanningAssumption DEF DistinctIds
    <3> QED BY <1>0, <2>3, <3>1, <3>5, <3>6 DEF SelectInv, Requesting
  <2> QED BY <2>2, <2>3
<1>18. CASE Verify
  <2>1. /\ Len(rows') = Len(rows)
        /\ \A i \in 1..Len(rows) : rows'[i].sched = rows[i].sched /\ rows'[i].target = rows[i].target
        /\ stage = "verify" /\ stage' \in {"refused", "plan"}
    BY <1>18, Verified
  <2>2. \A i \in 1..Len(rows) : Id(rows'[i]) = Id(rows[i])
    BY <2>1 DEF Id
  <2>3. DistinctIds(rows) => DistinctIds(rows')
    BY <2>1, <2>2, SameIds
  <2>4. Project /\ ~Setup /\ ~Ordinary
    BY <1>0, <2>1 DEF FlowInv, Way, Project, Requesting, Setup, Ordinary
  <2>5. CASE stage' = "plan"
    <3>1. DistinctIds(rows) /\ Len(rows) = Len(Requirements) /\ \A k \in 1..Len(rows) : Id(rows[k]) = Requirements[k]
      BY <2>1, <2>4 DEF SelectInv
    <3> QED BY <1>0, <2>1, <2>2, <2>3, <2>4, <2>5, <3>1 DEF SelectInv
  <2> QED BY <1>2, <2>1, <2>5 DEF Requesting
<1>19. CASE BeginPlan
  BY <1>4, <1>19, PlanBegan DEF Requesting
<1>20. CASE EndPlan \/ Confirm \/ Justify
  <2>1. /\ UNCHANGED <<rows, opt>> /\ stage \in {"looking", "justify", "confirm"}
        /\ stage' \in {"justify", "confirm", "submit", "refused"}
    BY <1>20 DEF EndPlan, Confirm, Justify, Go, Refused
  <2>2. consent'.selected = consent.selected
    <3>1. \/ consent' = consent \/ (\E c : consent' = [consent EXCEPT !.confirmed = c])
          \/ (\E c : consent' = [consent EXCEPT !.reason = c])
          \/ (\E c : consent' = [consent EXCEPT !.reason = c, !.prompted = TRUE])
      BY <1>20 DEF EndPlan, Confirm, Justify
    <3> QED BY <1>1, <3>1 DEF ConsentType
  <2> QED BY <1>4, <2>1, <2>2 DEF Requesting
<1>21. CASE Remember
  <2>1. UNCHANGED <<rows, opt, consent>> /\ stage = "submit" /\ stage' = "done"
    BY <1>21, Remembered
  <2> QED BY <1>4, <2>1 DEF Requesting
<1>22. ASSUME NEW i \in Items, LookUp(i) \/ Submit(i) PROVE SelectInv'
  <2>1. UNCHANGED <<rows, opt, consent, stage>> /\ stage \in {"looking", "submit"}
    BY <1>22 DEF LookUp, Submit
  <2> QED BY <1>4, <2>1 DEF Requesting
<1>23. CASE ReadScope \/ FilterRows \/ CheckPicked \/ Another \/ Write
  <2>1. /\ stage \in {"scope", "offer", "check", "another", "write"} /\ (stage = "offer" => Setup)
        /\ stage' \in {"offer", "refused", "check", "another", "browse", "write", "done"}
    BY <1>23, ScopeRead, Filtered, Written DEF CheckPicked, Another, Go, Refused
  <2>2. Setup
    BY <1>0, <2>1 DEF FlowInv, Way, Setup, Requesting
  <2> QED BY <1>3, <2>1, <2>2
<1>24. CASE Tick \/ Regrant \/ Interrupt \/ Finished \/ UNCHANGED vars
  <2>1. UNCHANGED <<stage, opt, rows, todo, consent>>
    BY <1>24 DEF Tick, Regrant, Interrupt, Finished, vars
  <2>2. Wanted' = Wanted
    BY <2>1 DEF Wanted, Narrows
  <2> QED BY <1>0, <2>1, <2>2 DEF SelectInv
<1> QED BY <1>5, <1>6, <1>7, <1>8, <1>9, <1>10, <1>11, <1>12, <1>13, <1>14, <1>15, <1>16, <1>17, <1>18, <1>19,
           <1>20, <1>21, <1>22, <1>23, <1>24 DEF Next

\* A row that is narrowed keeps its schedule.
LEMMA NarrowedSource ==
  ASSUME Types, Narrow, ~(todo.next > Len(rows)), stage' # "refused", SelectInv
  PROVE  /\ todo'.found[Len(todo.found) + 1].sched = rows[todo.next].sched
         /\ Len(todo'.found) = Len(todo.found) + 1
         /\ \A k \in 1..Len(todo.found) : todo'.found[k] = todo.found[k]
         /\ todo.next \in 1..Len(rows)
<1> DEFINE r == rows[todo.next]
           chosen == Choose(Told(opt.at), GrantOf[r.sched].role, opt.at, r.sched)
           new == Row(Sole(chosen), opt.at)
<1>1. /\ todo.next \in 1..Len(rows) /\ r \in RowSet /\ Cardinality(chosen) = 1
      /\ Sole(chosen) \in Grants /\ new \in RowSet /\ todo'.found = Append(todo.found, new)
  BY NarrowedOne
<1>2. r.sched \in Grants /\ r.sched # AnySchedule
  BY <1>1, TenantAssumption DEF RowSet, Grants
<1>3. Told(opt.at) \in SUBSET Grants /\ env.now \in Int
  <2>1. EnvType /\ FilesType /\ opt.at \in Scopes
    BY DEF Types, AtType, Narrow
  <2> QED BY <2>1, ToldType, PlanningAssumption DEF EnvType
<1>4. Sole(chosen) = r.sched
  <2> HIDE DEF r
  <2>1. r.sched \in {AnySchedule, Sole(chosen)}
    BY <1>1, <1>3, SoleChoice
  <2> QED BY <1>2, <2>1
<1>5. new.sched = r.sched
  BY <1>4 DEF Row
<1>6. todo.found \in Seq(RowSet) /\ Len(todo.found) \in Nat
  BY LenProperties DEF Types, TodoType
<1> HIDE DEF new, r
<1>7. /\ Len(todo'.found) = Len(todo.found) + 1
      /\ \A k \in 1..Len(todo.found) : todo'.found[k] = todo.found[k]
      /\ todo'.found[Len(todo.found) + 1] = new
  BY <1>1, <1>6, AppendProperties
<1> QED BY <1>1, <1>5, <1>7 DEF r

\* Every step of an ordinary command keeps it to the schedules that were selected.
LEMMA SourceStep ==
  ASSUME Types, Types', FlowInv, FlowInv', SelectInv, SourceInv, [Next]_vars
  PROVE  SourceInv'
<1>0. /\ Ordinary' = Ordinary /\ Setup' = Setup /\ Project' = Project /\ opt.mode \in Modes
      /\ opt'.mode = opt.mode /\ ConsentType /\ TodoType /\ rows \in Seq(RowSet)
  BY OptStep DEF Types, OptType
<1> DEFINE Kept == {"target", "narrow"} \union Requesting
<1>1. ASSUME stage' \notin Kept PROVE SourceInv'
  BY <1>1 DEF SourceInv
<1>2. ASSUME ~Ordinary, stage' # "narrow" PROVE SourceInv'
  BY <1>0, <1>2 DEF SourceInv
<1>3. ASSUME UNCHANGED rows, consent'.sources = consent.sources, stage \in Kept, stage' # "narrow"
      PROVE  SourceInv'
  BY <1>0, <1>3 DEF SourceInv
<1>4. CASE ChooseRows
  <2>1. CASE stage' = "refused"
    BY <1>1, <2>1 DEF Requesting
  <2>2. ASSUME NEW chosen \in Seq(RowSet), Selects(chosen) PROVE SourceInv'
    <3>0. /\ rows' = chosen /\ stage' \in {"refused", "target"}
          /\ consent' = [consent EXCEPT !.selected = Ids(chosen), !.sources = Scheds(chosen)]
      BY <1>0, <2>2, Selecting
    <3>1. rows' = chosen /\ stage' \in {"refused", "target"} /\ consent'.sources = Scheds(chosen)
      BY <1>0, <3>0 DEF ConsentType
    <3>2. \A k \in 1..Len(rows') : rows'[k].sched \in Scheds(rows')
      BY DEF Scheds, AllOf
    <3> QED BY <3>1, <3>2 DEF SourceInv
  <2> QED BY <1>4, <2>1, <2>2, Choosing
<1>5. CASE Take
  <2>1. \/ stage' \in {"refused", "scope", "check"}
        \/ stage' = "target" /\ consent' = [consent EXCEPT !.selected = Ids(rows'), !.sources = Scheds(rows')]
    BY <1>5, Taking
  <2>2. CASE stage' = "target" /\ consent' = [consent EXCEPT !.selected = Ids(rows'), !.sources = Scheds(rows')]
    <3>1. consent'.sources = Scheds(rows')
      BY <1>0, <2>2 DEF ConsentType
    <3> QED BY <2>2, <3>1 DEF SourceInv, Scheds
  <2> QED BY <1>1, <2>1, <2>2 DEF Requesting
<1>6. CASE ChooseTarget
  <2>1. stage = "target" /\ UNCHANGED <<todo, rows, consent>> /\ stage' \in {"plan", "narrow", "refused"}
    BY <1>6 DEF ChooseTarget, Go, Refused
  <2>2. todo.found = <<>> /\ Len(<<>>) = 0
    BY <2>1 DEF FlowInv, Untouched
  <2> QED BY <1>0, <2>1, <2>2 DEF SourceInv
<1>7. CASE Narrow
  <2>1. stage = "narrow" /\ UNCHANGED <<opt, consent>>
    BY <1>7 DEF Narrow
  <2>2. Ordinary
    BY <1>0, <2>1 DEF FlowInv, Way, Setup, Project, Requesting, Ordinary
  <2>3. CASE todo.next > Len(rows)
    <3>1. rows' = Dedupe(todo.found) /\ stage' = "plan"
      BY <1>7, <2>3 DEF Narrow, Narrowed, Go
    <3>2. \A k \in 1..Len(rows') : \E i \in 1..Len(todo.found) : rows'[k] = todo.found[i]
      BY <1>0, <3>1, Deduped DEF TodoType
    <3> QED BY <2>1, <3>1, <3>2 DEF SourceInv
  <2>4. CASE ~(todo.next > Len(rows)) /\ stage' # "refused"
    <3>1. /\ todo'.found[Len(todo.found) + 1].sched = rows[todo.next].sched
          /\ Len(todo'.found) = Len(todo.found) + 1 /\ todo.next \in 1..Len(rows)
          /\ \A k \in 1..Len(todo.found) : todo'.found[k] = todo.found[k]
      BY <1>7, <2>4, NarrowedSource
    <3>2. UNCHANGED <<rows, stage>>
      BY <1>7, <2>4, NarrowedOne
    <3>3. \A k \in 1..Len(rows) : rows[k].sched \in consent.sources
      BY <2>1, <2>2 DEF SourceInv
    <3>4. Len(todo.found) \in Nat
      BY <1>0, LenProperties DEF TodoType
    <3>5. ASSUME NEW k \in 1..Len(todo'.found) PROVE todo'.found[k].sched \in consent.sources
      <4>1. k \in 1..Len(todo.found) \/ k = Len(todo.found) + 1
        BY <3>1, <3>4
      <4> QED BY <2>1, <3>1, <3>3, <4>1 DEF SourceInv
    <3> QED BY <2>1, <3>2, <3>3, <3>5 DEF SourceInv
  <2>5. CASE stage' = "refused"
    BY <1>1, <2>5 DEF Requesting
  <2> QED BY <2>3, <2>4, <2>5
<1>8. CASE CheckFlags \/ Open \/ ReadEligibilities \/ ResolveSaved \/ Offer \/ Browse \/ Press \/ ResolveNeed
  <2>1. stage' \notin Kept
    BY <1>8, Listed, SavedType DEF CheckFlags, Open, Offer, Browse, Press, ResolveNeed, Go, Refused, Requesting
  <2> QED BY <1>1, <2>1
<1>9. CASE Resolved \/ Verify
  <2>1. stage \in {"resolve", "verify"} /\ stage' # "narrow"
    BY <1>9 DEF Resolved, Verify, Go, Refused
  <2>2. ~Ordinary
    BY <1>0, <2>1 DEF FlowInv, Way, Setup, Project, Requesting, Ordinary
  <2> QED BY <1>2, <2>1, <2>2
<1>10. CASE BeginPlan
  <2>1. consent'.sources = consent.sources /\ UNCHANGED rows /\ stage = "plan" /\ stage' = "looking"
    <3>1. PICK asked \in Asked : consent' = [consent EXCEPT !.hours = asked.hours, !.ticket = asked.ticket]
      BY <1>10 DEF BeginPlan
    <3> QED BY <1>0, <1>10, <3>1, PlanBegan DEF ConsentType
  <2> QED BY <1>3, <2>1 DEF Requesting
<1>11. CASE EndPlan \/ Confirm \/ Justify
  <2>1. UNCHANGED rows /\ stage \in {"looking", "justify", "confirm"} /\ stage' # "narrow"
    BY <1>11 DEF EndPlan, Confirm, Justify, Go, Refused
  <2>2. consent'.sources = consent.sources
    <3>1. \/ consent' = consent \/ (\E c : consent' = [consent EXCEPT !.confirmed = c])
          \/ (\E c : consent' = [consent EXCEPT !.reason = c])
          \/ (\E c : consent' = [consent EXCEPT !.reason = c, !.prompted = TRUE])
      BY <1>11 DEF EndPlan, Confirm, Justify
    <3> QED BY <1>0, <3>1 DEF ConsentType
  <2> QED BY <1>3, <2>1, <2>2 DEF Requesting
<1>12. CASE Remember
  <2>1. UNCHANGED <<rows, consent>> /\ stage = "submit" /\ stage' = "done"
    BY <1>12, Remembered
  <2> QED BY <1>3, <2>1 DEF Requesting
<1>13. ASSUME NEW i \in Items, LookUp(i) \/ Submit(i) PROVE SourceInv'
  <2>1. UNCHANGED <<rows, consent, stage>> /\ stage \in {"looking", "submit"}
    BY <1>13 DEF LookUp, Submit
  <2> QED BY <1>3, <2>1 DEF Requesting
<1>14. CASE ReadScope \/ FilterRows \/ CheckPicked \/ Another \/ Write
  <2>1. /\ stage \in {"scope", "offer", "check", "another", "write"} /\ (stage = "offer" => Setup)
        /\ stage' \in {"offer", "refused", "check", "another", "browse", "write", "done"}
    BY <1>14, ScopeRead, Filtered, Written DEF CheckPicked, Another, Go, Refused
  <2>2. Setup
    BY <1>0, <2>1 DEF FlowInv, Way, Setup, Requesting
  <2> QED BY <1>2, <2>1, <2>2 DEF Ordinary
<1>15. CASE Tick \/ Regrant \/ Interrupt \/ Finished \/ UNCHANGED vars
  <2>1. UNCHANGED <<stage, opt, rows, todo, consent>>
    BY <1>15 DEF Tick, Regrant, Interrupt, Finished, vars
  <2> QED BY <1>0, <2>1 DEF SourceInv
<1> QED BY <1>4, <1>5, <1>6, <1>7, <1>8, <1>9, <1>10, <1>11, <1>12, <1>13, <1>14, <1>15 DEF Next

ConsentInv == FlowInv /\ PlanInv /\ SelectInv /\ SourceInv /\ PromptInv

\* Nothing is agreed to at the start.
LEMMA ConsentInit == Init => ConsentInv
<1> SUFFICES ASSUME Init PROVE SelectInv /\ SourceInv /\ PromptInv
  BY FlowInit DEF ConsentInv
<1>1. stage = "flags" /\ consent.reason = "none"
  BY DEF Init, NoConsent
<1>2. SelectInv
  BY <1>1 DEF SelectInv, Requesting
<1>3. SourceInv
  BY <1>1 DEF SourceInv, Requesting
<1> QED BY <1>1, <1>2, <1>3 DEF PromptInv

\* Every step keeps what was agreed to.
LEMMA ConsentStep == Types /\ ConsentInv /\ [Next]_vars => ConsentInv'
<1> SUFFICES ASSUME Types, ConsentInv, [Next]_vars PROVE ConsentInv'
  OBVIOUS
<1>1. Types'
  BY TypeStep
<1>2. FlowInv /\ PlanInv /\ SelectInv /\ SourceInv /\ PromptInv
  BY DEF ConsentInv
<1>3. FlowInv'
  BY <1>1, <1>2, FlowStep
<1>4. PlanInv'
  BY <1>1, <1>2, PlanStep
<1>5. SelectInv'
  BY <1>1, <1>2, <1>3, SelectStep
<1>6. PromptInv'
  BY <1>1, <1>2, PromptStep
<1>7. SourceInv'
  BY <1>1, <1>2, <1>3, SourceStep
<1> QED BY <1>3, <1>4, <1>5, <1>6, <1>7 DEF ConsentInv

\* What was agreed to is what is in hand, always.
LEMMA ConsentInvariant == Spec => [](Types /\ ConsentInv)
<1>1. Init => Types /\ ConsentInv
  BY TypeInit, ConsentInit
<1>2. Types /\ ConsentInv /\ [Next]_vars => Types' /\ ConsentInv'
  BY TypeStep, ConsentStep
<1> QED BY <1>1, <1>2, PTL DEF Spec

\* What has been sent are rows in hand.
LEMMA SentRows ==
  ASSUME Types, ConsentInv, NEW i \in Sent
  PROVE  /\ stage \in {"submit", "done"} /\ ~Setup /\ plan # <<>>
         /\ i \in Items /\ i \in 1..Len(rows) /\ Len(plan) = Len(rows) /\ plan[i].row = rows[i] /\ DistinctIds(rows)
<1>1. i \in Items /\ stage \in {"submit", "done"}
  BY DEF ConsentInv, PlanInv, Sent
<1>2. plan # <<>>
  BY <1>1 DEF Items
<1>3. ~Setup
  BY <1>2 DEF ConsentInv, PlanInv
<1>4. Len(plan) = Len(rows) /\ plan[i].row = rows[i]
  BY <1>1, <1>3 DEF ConsentInv, PlanInv, Reported
<1>5. DistinctIds(rows)
  BY <1>1, <1>3 DEF ConsentInv, SelectInv, Requesting
<1> QED BY <1>1, <1>2, <1>3, <1>4, <1>5 DEF Items

\* What is in hand and agreed to is all that ConsentCovers asks of what is sent.
LEMMA Agreed ==
  ASSUME Types, ConsentInv
  PROVE  ConsentCovers
<1>1. ASSUME NEW i \in Sent, NEW j \in Sent, Id(plan[i].row) = Id(plan[j].row) PROVE i = j
  <2>1. i \in 1..Len(rows) /\ j \in 1..Len(rows) /\ plan[i].row = rows[i] /\ plan[j].row = rows[j] /\ DistinctIds(rows)
    BY SentRows
  <2> QED BY <1>1, <2>1 DEF DistinctIds
<1>2. ASSUME NEW i \in Sent, opt.mode = "pick"
      PROVE  \E id \in consent.selected : id[1] = Id(plan[i].row)[1] /\ plan[i].row.target \in {id[2], opt.at}
  <2>1. i \in 1..Len(rows) /\ plan[i].row = rows[i] /\ stage \in {"submit", "done"}
    BY SentRows
  <2>2. Ids(rows) = Wanted
    BY <1>2, <2>1 DEF ConsentInv, SelectInv, Ordinary, Project, Setup, Requesting
  <2>3. Id(rows[i]) \in Wanted
    BY <2>1, <2>2 DEF Ids
  <2>4. Id(rows[i])[2] = rows[i].target
    BY DEF Id
  <2>5. CASE Narrows
    <3>1. PICK id \in consent.selected : Id(rows[i]) = <<id[1], opt.at>>
      BY <2>3, <2>5 DEF Wanted
    <3>2. Id(rows[i])[1] = id[1] /\ rows[i].target = opt.at
      BY <2>4, <3>1
    <3> QED BY <2>1, <3>2
  <2>6. CASE ~Narrows
    <3>1. Id(rows[i]) \in consent.selected
      BY <2>3, <2>6 DEF Wanted
    <3> QED BY <2>1, <2>4, <3>1
  <2> QED BY <2>5, <2>6
<1>3. ASSUME Sent # {}
      PROVE  /\ opt.tty \/ (opt.yes /\ opt.reason)
             /\ \/ opt.yes \/ opt.mode = "pick" \/ (opt.mode # "all" /\ Submissions <= Bulk)
                \/ consent.confirmed = Submissions
             /\ consent.reason = "earlier" => consent.prompted
  <2>1. stage \in {"submit", "done"} /\ ~Setup
    BY <1>3, SentRows
  <2> QED BY <2>1 DEF ConsentInv, FlowInv, PromptInv
<1> QED BY <1>1, <1>2, <1>3 DEF ConsentCovers

\* What is sent was agreed to: no role at one scope twice, what the picker drew as selected,
\* a bulk at the size that was confirmed, an earlier reason only if it was shown, and
\* without a terminal only what the flags said (checkActivateFlags, confirmPlanWith,
\* resolveJustification, dedupeRows, narrowRows, runModel).
THEOREM ConsentCovered == Spec => []ConsentCovers
<1>1. Types /\ ConsentInv => ConsentCovers
  BY Agreed
<1> QED BY <1>1, ConsentInvariant, PTL

\* What is read at a scope is an answer, if it was not one before.
LEMMA ReadAnswered ==
  ASSUME Types, ListsInv, UNCHANGED opt, NEW s \in Scopes, Reads(s) \/ ReadFails(s)
  PROVE  /\ ListsInv' /\ answers \subseteq answers'
         /\ Reads(s) => <<s, Told(s)>> \in answers'
<1>0. FilesType /\ EnvType /\ AnswersType
  BY DEF Types
<1>1. CASE Cached(s)
  <2>1. UNCHANGED <<files, answers>>
    BY <1>1 DEF Reads, ReadFails
  <2>2. <<s, Told(s)>> \in answers
    BY <1>1 DEF Cached, Usable, Told, ListsInv
  <2> QED BY <2>1, <2>2 DEF ListsInv
<1>2. CASE ~Cached(s) /\ Reads(s)
  <2>1. /\ Told(s) = EligibilitiesAtScope(s) /\ answers' = answers \union {<<s, Told(s)>>}
        /\ files' = [files EXCEPT !.scoped[s] = Listing(Told(s))]
    BY <1>2 DEF Reads, Told
  <2>2. \A g \in Told(s) : Mine(g) /\ GrantOf[g].scope \in Above[s]
    BY <2>1 DEF EligibilitiesAtScope
  <2>3. PICK roles : roles = Told(s)
    OBVIOUS
  <2>4. /\ files'.listing = files.listing /\ files'.scoped[s] = Listing(roles)
        /\ \A t \in Scopes : t # s => files'.scoped[t] = files.scoped[t]
    BY <1>0, <2>1, <2>3 DEF FilesType
  <2>5. files'.scoped[s].roles = roles
    BY <2>4 DEF Listing
  <2>6. \A a \in answers' : \A g \in a[2] : Mine(g) /\ (a[1] # "all" => GrantOf[g].scope \in Above[a[1]])
    BY <2>1, <2>2 DEF ListsInv
  <2>7. ~opt'.refresh =>
          /\ files'.listing.there => <<"all", files'.listing.roles>> \in answers'
          /\ \A t \in Scopes : files'.scoped[t].there => <<t, files'.scoped[t].roles>> \in answers'
    BY <2>1, <2>3, <2>4, <2>5 DEF ListsInv
  <2> QED BY <2>1, <2>6, <2>7 DEF ListsInv
<1>3. CASE ~Cached(s) /\ ReadFails(s) /\ ~Reads(s)
  BY <1>3 DEF ReadFails, ListsInv
<1> QED BY <1>1, <1>2, <1>3 DEF ReadFails

\* What is offered was listed: by the cache, and so by an answer, or by an answer now.
LEMMA ListAnswered ==
  ASSUME Types, ListsInv, ReadEligibilities
  PROVE  /\ ListsInv' /\ answers \subseteq answers'
         /\ \/ stage' = "refused"
            \/ \E set \in SUBSET Grants : Offers(set) /\ <<"all", set>> \in answers'
<1>0. FilesType /\ EnvType /\ AnswersType /\ opt' = opt
  BY DEF Types, ReadEligibilities
<1> DEFINE live == {s \in env.grants : Mine(s)}
<1>1. live \in SUBSET Grants /\ files.listing.roles \in SUBSET Grants
  BY <1>0, GrantsSubsets DEF FilesType, File
<1>2. CASE UNCHANGED <<files, answers>> /\ Refused
  BY <1>0, <1>2 DEF ListsInv, Refused
<1>3. CASE Usable(files.listing, ListingTTL) /\ Offers(files.listing.roles) /\ UNCHANGED <<files, answers>>
  <2>1. <<"all", files.listing.roles>> \in answers
    BY <1>3 DEF Usable, ListsInv
  <2> QED BY <1>0, <1>1, <1>3, <2>1 DEF ListsInv
<1>4. CASE Offers(live) /\ files' = [files EXCEPT !.listing = Listing(live)] /\ answers' = answers \union {<<"all", live>>}
  <2>0. \A g \in live : Mine(g)
    OBVIOUS
  <2> HIDE DEF live
  <2>1. files'.listing = Listing(live) /\ files'.scoped = files.scoped
    BY <1>0, <1>4 DEF FilesType
  <2>2. files'.listing.roles = live
    BY <2>1 DEF Listing
  <2>3. \A a \in answers' : \A g \in a[2] : Mine(g) /\ (a[1] # "all" => GrantOf[g].scope \in Above[a[1]])
    BY <1>4, <2>0 DEF ListsInv
  <2>4. ~opt'.refresh =>
          /\ files'.listing.there => <<"all", files'.listing.roles>> \in answers'
          /\ \A t \in Scopes : files'.scoped[t].there => <<t, files'.scoped[t].roles>> \in answers'
    BY <1>0, <1>4, <2>1, <2>2 DEF ListsInv
  <2> QED BY <1>1, <1>4, <2>3, <2>4 DEF ListsInv
<1> QED BY <1>2, <1>3, <1>4 DEF ReadEligibilities

\* Only a look-up and setup keep what they read, and only a choice forgets it.
LEMMA ReadStep ==
  ASSUME Types, [Next]_vars
  PROVE  ChooseRows \/ ResolveNeed \/ ReadScope \/ todo'.read = todo.read
<1>1. TodoType
  BY DEF Types
<1>2. \/ ChooseRows \/ ResolveNeed \/ ReadScope \/ todo' = todo
      \/ (\E x : todo' = [todo EXCEPT !.failed = x])
      \/ (\E n : todo' = [todo EXCEPT !.next = n])
      \/ (\E n, x : todo' = [todo EXCEPT !.next = n, !.found = x])
  <2>1. Open => \E x : todo' = [todo EXCEPT !.failed = x]
    BY DEF Open
  <2>2. ResolveSaved => todo' = todo \/ \E n : todo' = [todo EXCEPT !.next = n]
    BY DEF ResolveSaved
  <2>3. Narrow => todo' = todo \/ \E n, x : todo' = [todo EXCEPT !.next = n, !.found = x]
    BY DEF Narrow
  <2>4. CheckPicked => \E n, x : todo' = [todo EXCEPT !.next = n, !.found = x]
    <3>1. CheckPicked => todo' = [todo EXCEPT !.next = todo.next + 1, !.found = todo.found \o rows]
      BY DEF CheckPicked
    <3> QED BY <3>1
  <2> QED BY <2>1, <2>2, <2>3, <2>4
       DEF Next, vars, CheckFlags, ReadEligibilities, ChooseTarget, Offer, Browse,
       Press, Take, Resolved, Verify, BeginPlan, EndPlan, Justify, Confirm, Remember, LookUp, Submit,
       FilterRows, Another, Write, Tick, Regrant, Interrupt, Finished
<1> QED BY <1>1, <1>2 DEF TodoType

\* Only reading the caches or ARM changes the answers and the listings.
LEMMA AnswersStep ==
  ASSUME Types, Types', FlowInv, AnswersInv, [Next]_vars
  PROVE  AnswersInv' /\ answers \subseteq answers'
<1>0. opt'.refresh = opt.refresh
  BY OptStep
<1>1. ListsInv /\ \A s \in DOMAIN todo.read : <<s, todo.read[s]>> \in answers
  BY DEF AnswersInv
<1>2. ASSUME UNCHANGED answers, files'.listing = files.listing, files'.scoped = files.scoped
      PROVE  ListsInv' /\ answers \subseteq answers'
  BY <1>0, <1>1, <1>2 DEF ListsInv
<1>3. ASSUME ListsInv', answers \subseteq answers', todo'.read = todo.read
      PROVE  AnswersInv' /\ answers \subseteq answers'
  BY <1>1, <1>3 DEF AnswersInv
<1>4. CASE ReadEligibilities
  <2>1. todo' = todo
    BY <1>4 DEF ReadEligibilities
  <2> QED BY <1>1, <1>3, <1>4, <2>1, ListAnswered
<1>5. CASE ResolveSaved
  <2>1. opt' = opt /\ todo.next \in 1..Len(memory.preset) /\ memory.preset \in Seq(SavedSet)
    BY <1>5 DEF ResolveSaved, Types, TodoType, MemoryType
  <2>2. memory.preset[todo.next].target \in Scopes
    <3>1. memory.preset[todo.next] \in SavedSet
      BY <2>1, ElementOfSeq
    <3> QED BY <3>1 DEF SavedSet
  <2>3. ASSUME UNCHANGED <<files, answers>> PROVE ListsInv' /\ answers \subseteq answers'
    BY <1>2, <2>3
  <2>4. ASSUME Reads(memory.preset[todo.next].target) \/ ReadFails(memory.preset[todo.next].target)
        PROVE  ListsInv' /\ answers \subseteq answers'
    BY <1>1, <2>1, <2>2, <2>4, ReadAnswered
  <2>5. ListsInv' /\ answers \subseteq answers'
    BY <1>5, <2>3, <2>4 DEF ResolveSaved
  <2>6. todo'.read = todo.read
    <3>1. todo' = todo \/ todo' = [todo EXCEPT !.next = todo.next + 1]
      BY <1>5 DEF ResolveSaved
    <3> QED BY <3>1 DEF Types, TodoType
  <2> QED BY <1>3, <2>5, <2>6
<1>6. CASE Narrow
  <2>1. opt' = opt /\ opt.at \in Scopes
    BY <1>6 DEF Narrow, Types, AtType
  <2>2. (UNCHANGED <<files, answers>> /\ todo' = todo) \/ Reads(opt.at) \/ ReadFails(opt.at)
    BY <1>6 DEF Narrow
  <2>3. ListsInv' /\ answers \subseteq answers'
    BY <1>1, <1>2, <2>1, <2>2, ReadAnswered
  <2>4. todo'.read = todo.read
    <3>1. ~ChooseRows /\ ~ResolveNeed /\ ~ReadScope
      BY <1>6 DEF Narrow, ChooseRows, ResolveNeed, ReadScope
    <3> QED BY <3>1, ReadStep
  <2> QED BY <1>3, <2>3, <2>4
<1>7. CASE ChooseRows
  <2>1. todo'.read = [s \in {} |-> {}] /\ UNCHANGED <<opt, files, answers>>
    BY <1>7 DEF ChooseRows, Restart, NoTodo
  <2>2. ListsInv' /\ answers \subseteq answers'
    BY <1>2, <2>1
  <2>3. DOMAIN todo'.read = {}
    BY <2>1
  <2> QED BY <2>2, <2>3 DEF AnswersInv
<1>8. CASE ResolveNeed
  <2>0. opt' = opt
    BY <1>8 DEF ResolveNeed
  <2>1. PICK role \in Roles, scope \in Scopes, roles \in SUBSET Grants :
               \/ /\ \/ scope \in DOMAIN todo.read /\ roles = todo.read[scope] /\ UNCHANGED <<files, answers>>
                     \/ roles = Told(scope) /\ Reads(scope)
                  /\ todo'.read = [s \in DOMAIN todo.read \union {scope} |-> IF s = scope THEN roles ELSE todo.read[s]]
               \/ /\ UNCHANGED <<files, answers>>
                  /\ todo' = [todo EXCEPT !.next = todo.next + 1, !.failed = TRUE]
    BY <1>8, NeedResolved
  <2>2. CASE /\ UNCHANGED <<files, answers>>
             /\ todo' = [todo EXCEPT !.next = todo.next + 1, !.failed = TRUE]
    <3>1. todo'.read = todo.read
      BY <2>2 DEF Types, TodoType
    <3> QED BY <1>2, <1>3, <2>2, <3>1
  <2>3. CASE /\ \/ scope \in DOMAIN todo.read /\ roles = todo.read[scope] /\ UNCHANGED <<files, answers>>
                \/ roles = Told(scope) /\ Reads(scope)
             /\ todo'.read = [s \in DOMAIN todo.read \union {scope} |-> IF s = scope THEN roles ELSE todo.read[s]]
    <3>1. ListsInv' /\ answers \subseteq answers' /\ <<scope, roles>> \in answers'
      BY <1>1, <1>2, <2>0, <2>3, ReadAnswered
    <3>2. \A s \in DOMAIN todo'.read : <<s, todo'.read[s]>> \in answers'
      BY <1>1, <2>3, <3>1
    <3> QED BY <3>1, <3>2 DEF AnswersInv
  <2> QED BY <2>1, <2>2, <2>3
<1>9. CASE ReadScope
  <2>1. opt' = opt /\ opt.at \in Scopes /\ todo \in [next : Nat \ {0}, failed : BOOLEAN, read : Known, found : Seq(RowSet)]
    BY <1>9, ScopeRead DEF Types, TodoType
  <2>2. \/ Reads(opt.at) /\ todo' = [todo EXCEPT !.read = [s \in {opt.at} |-> Told(opt.at)]]
        \/ ReadFails(opt.at) /\ todo' = todo
    BY <1>9 DEF ReadScope
  <2>3. ListsInv' /\ answers \subseteq answers' /\ (Reads(opt.at) => <<opt.at, Told(opt.at)>> \in answers')
    BY <1>1, <2>1, <2>2, ReadAnswered
  <2>4. CASE todo' = todo
    BY <1>3, <2>3, <2>4
  <2>5. CASE Reads(opt.at) /\ todo' = [todo EXCEPT !.read = [s \in {opt.at} |-> Told(opt.at)]]
    <3>1. todo'.read = [s \in {opt.at} |-> Told(opt.at)]
      BY <2>1, <2>5
    <3> QED BY <2>3, <2>5, <3>1 DEF AnswersInv
  <2> QED BY <2>2, <2>4, <2>5
<1>10. CASE EndPlan
  BY <1>2, <1>3, <1>10, PlanEnded
<1>11. ASSUME NEW i \in Items, Submit(i) PROVE AnswersInv' /\ answers \subseteq answers'
  <2>1. /\ UNCHANGED <<todo, answers>>
        /\ files' = files \/ \E k : files' = [files EXCEPT !.policies[k].there = FALSE]
    BY <1>11, Submitted
  <2>2. files'.listing = files.listing /\ files'.scoped = files.scoped
    <3>1. ASSUME NEW k, files' = [files EXCEPT !.policies[k].there = FALSE] PROVE files'.listing = files.listing /\ files'.scoped = files.scoped
      <4>1. PICK p : files' = [files EXCEPT !.policies = p]
        BY <3>1
      <4> QED BY <4>1 DEF Types, FilesType
    <3> QED BY <2>1, <3>1
  <2> QED BY <1>2, <1>3, <2>1, <2>2
<1>12. ASSUME ~ReadEligibilities, ~ResolveSaved, ~Narrow, ~ChooseRows, ~ResolveNeed, ~ReadScope, ~EndPlan,
              \A i \in Items : ~Submit(i)
       PROVE  AnswersInv' /\ answers \subseteq answers'
  <2>1. UNCHANGED <<files, answers>>
    BY <1>12 DEF Next, vars, CheckFlags, Open, ChooseTarget, Offer, Browse,
       Press, Take, Resolved, Verify, BeginPlan, Justify, Confirm, Remember, LookUp,
       FilterRows, CheckPicked, Another, Write, Tick, Regrant, Interrupt, Finished
  <2>2. todo'.read = todo.read
    BY <1>12, ReadStep
  <2> QED BY <1>2, <1>3, <2>1, <2>2
<1> QED BY <1>4, <1>5, <1>6, <1>7, <1>8, <1>9, <1>10, <1>11, <1>12

-----------------------------------------------------------------------------
(* The policies.                                                            *)

\* What an earlier command left is what ARM had given it.
LEMMA PolicyInit == Init => PolicyInv
<1> SUFFICES ASSUME Init PROVE PolicyInv
  OBVIOUS
<1>1. plan = <<>> /\ stage = "flags"
  BY DEF Init
<1>2. Items = {}
  BY <1>1 DEF Items
<1>3. FilePolicies
  <2>1. ASSUME files = [listing |-> NoFile, scoped |-> [s \in Scopes |-> NoFile],
                        policies |-> [k \in Targets |-> [there |-> FALSE, fetched |-> 0, policy |-> NoPolicy]]]
        PROVE  FilePolicies
    <3>1. \A k \in Targets : files.policies[k].there = FALSE
      BY <2>1
    <3> QED BY <3>1 DEF FilePolicies
  <2>2. ASSUME NEW left \in Leftovers, Earlier(left[1], left[2]) PROVE FilePolicies
    <3>1. files.policies = [k \in Targets |-> [there |-> TRUE, fetched |-> left[2], policy |-> OldPolicyAt[k]]]
      BY <2>2 DEF Earlier
    <3> QED BY <3>1, PolicyType DEF FilePolicies
  <2>3. \/ files = [listing |-> NoFile, scoped |-> [s \in Scopes |-> NoFile],
                   policies |-> [k \in Targets |-> [there |-> FALSE, fetched |-> 0, policy |-> NoPolicy]]]
        \/ \E left \in Leftovers : Earlier(left[1], left[2])
    BY DEF Init
  <2> QED BY <2>1, <2>2, <2>3
<1> QED BY <1>1, <1>2, <1>3 DEF PolicyInv

\* Every step keeps the plan's items settled by a policy ARM gave.
LEMMA PolicyStep ==
  ASSUME Types, Types', FlowInv, PlanInv, PolicyInv, [Next]_vars
  PROVE  PolicyInv'
<1>0. opt'.refresh = opt.refresh /\ FilePolicies /\ PlanType /\ FilesType /\ ConsentType
      /\ \A i \in Items : Settles(plan[i], opt.refresh, consent.ticket)
  BY OptStep DEF PolicyInv, Types
<1>1. ASSUME files'.policies = files.policies PROVE FilePolicies'
  BY <1>0, <1>1 DEF FilePolicies
<1>2. ASSUME FilePolicies', plan' = plan, consent'.ticket = consent.ticket,
             stage' \in {"justify", "confirm", "submit"} =>
               stage \in {"justify", "confirm", "submit"} \/ \A i \in Items : plan[i].looked
      PROVE  PolicyInv'
  <2>1. Items' = Items
    BY <1>2 DEF Items
  <2> QED BY <1>0, <1>2, <2>1 DEF PolicyInv
<1>3. CASE BeginPlan
  <2>1. /\ Len(plan') = Len(rows) /\ stage' = "looking" /\ UNCHANGED files
        /\ \A i \in 1..Len(rows) : /\ plan'[i].out = "none" /\ plan'[i].looked = plan'[i].keep /\ ~plan'[i].fresh
    BY <1>3, PlanBegan
  <2>2. Items' = 1..Len(rows)
    BY <2>1 DEF Items
  <2>3. \A i \in Items' : Settles(plan'[i], opt'.refresh, consent'.ticket)
    BY <2>1, <2>2 DEF Settles
  <2> QED BY <1>1, <2>1, <2>3 DEF PolicyInv
<1>4. CASE EndPlan
  <2>1. /\ stage = "looking" /\ UNCHANGED <<plan, consent>> /\ \A i \in Items : plan[i].looked
        /\ \A k \in Targets :
              \/ files'.policies[k] = files.policies[k]
              \/ /\ files'.policies[k].policy = RoleSettings(k)
                 /\ \E i \in Items : plan[i].fresh /\ PolicyKey(plan[i].row) = k
    BY <1>4, PlanEnded
  <2>2. FilePolicies'
    <3>1. ASSUME NEW k \in Targets, NEW i \in Items, plan[i].fresh, PolicyKey(plan[i].row) = k
          PROVE  RoleSettings(k) # NoPolicy
      BY <1>0, <3>1 DEF Settles
    <3> QED BY <1>0, <2>1, <3>1 DEF FilePolicies
  <2> QED BY <1>2, <2>1, <2>2
<1>5. ASSUME NEW i \in Items, LookUp(i) PROVE PolicyInv'
  <2> DEFINE key == PolicyKey(plan[i].row)
  <2>1. /\ Len(plan') = Len(plan) /\ stage' = "looking" /\ UNCHANGED <<files, consent>>
        /\ \A j \in Items : j # i => plan'[j] = plan[j]
        /\ plan'[i].row = plan[i].row /\ plan'[i].keep = plan[i].keep /\ plan'[i].out = plan[i].out
        /\ plan'[i].looked /\ stage = "looking"
        /\ \/ plan'[i].error /\ plan'[i].fresh = plan[i].fresh
           \/ /\ \/ ~plan'[i].fresh /\ Usable(files.policies[key], PolicyTTL) /\ plan'[i].policy = files.policies[key].policy
                 \/ plan'[i].fresh /\ RoleSettings(key) # NoPolicy /\ plan'[i].policy = RoleSettings(key)
              /\ plan'[i].error = (plan'[i].policy.ticket /\ ~consent.ticket)
    BY <1>5, LookedUp
  <2>2. Items' = Items
    BY <2>1 DEF Items
  <2>3. key \in Targets /\ plan[i].out \notin {"sent", "rejected"}
    <3>1. key \in Targets
      BY <1>0, ItemType
    <3>2. Sent = {}
      BY <2>1 DEF PlanInv
    <3> QED BY <3>1, <3>2 DEF Sent
  <2>4. Settles(plan'[i], opt.refresh, consent.ticket)
    <3>1. PolicyKey(plan'[i].row) = key
      BY <2>1
    <3>2. CASE plan'[i].error /\ plan'[i].fresh = plan[i].fresh
      <4>1. plan[i].fresh => RoleSettings(key) # NoPolicy
        BY <1>0 DEF Settles
      <4> QED BY <2>1, <2>3, <3>1, <3>2, <4>1 DEF Settles
    <3>3. CASE /\ ~plan'[i].fresh /\ Usable(files.policies[key], PolicyTTL) /\ plan'[i].policy = files.policies[key].policy
               /\ plan'[i].error = (plan'[i].policy.ticket /\ ~consent.ticket)
      <4>1. ~opt.refresh /\ files.policies[key].there
        BY <3>3 DEF Usable
      <4>2. plan'[i].policy # NoPolicy /\ plan'[i].policy \in {RoleSettings(key), OldPolicyAt[key]}
        BY <1>0, <2>3, <3>3, <4>1 DEF FilePolicies
      <4> QED BY <2>1, <2>3, <3>1, <3>3, <4>1, <4>2 DEF Settles
    <3>4. CASE /\ plan'[i].fresh /\ RoleSettings(key) # NoPolicy /\ plan'[i].policy = RoleSettings(key)
               /\ plan'[i].error = (plan'[i].policy.ticket /\ ~consent.ticket)
      BY <2>1, <2>3, <3>1, <3>4 DEF Settles
    <3> QED BY <2>1, <3>2, <3>3, <3>4
  <2>5. \A j \in Items : Settles(plan'[j], opt.refresh, consent.ticket)
    BY <1>0, <2>1, <2>4
  <2> HIDE DEF key
  <2> QED BY <1>0, <1>1, <2>1, <2>2, <2>5 DEF PolicyInv
<1>6. ASSUME NEW i \in Items, Submit(i) PROVE PolicyInv'
  <2>1. /\ Len(plan') = Len(plan) /\ stage = "submit" /\ stage' = stage /\ UNCHANGED consent
        /\ \A j \in Items : j # i => plan'[j] = plan[j]
        /\ plan'[i].row = plan[i].row /\ plan'[i].keep = plan[i].keep /\ plan'[i].looked = plan[i].looked
        /\ plan'[i].error = plan[i].error /\ plan'[i].policy = plan[i].policy
        /\ plan'[i].fresh = plan[i].fresh
        /\ plan'[i].out \in {"sent", "rejected"} => ~plan[i].keep /\ ~plan[i].error
        /\ \/ files' = files
           \/ files' = [files EXCEPT !.policies[PolicyKey(plan[i].row)].there = FALSE]
    BY <1>6, Submitted
  <2>2. Items' = Items /\ \A j \in Items : plan[j].looked
    BY <2>1 DEF Items, PolicyInv
  <2>3. Settles(plan'[i], opt.refresh, consent.ticket)
    <3>1. Settles(plan[i], opt.refresh, consent.ticket) /\ plan[i].looked
      BY <1>0, <2>2
    <3> QED BY <2>1, <3>1 DEF Settles
  <2>4. \A j \in Items : Settles(plan'[j], opt.refresh, consent.ticket) /\ plan'[j].looked
    BY <1>0, <2>1, <2>2, <2>3
  <2>5. FilePolicies'
    <3>1. CASE files' = files
      BY <1>1, <3>1
    <3>2. CASE files' = [files EXCEPT !.policies[PolicyKey(plan[i].row)].there = FALSE]
      <4>1. PICK key : key = PolicyKey(plan[i].row) /\ key \in Targets
        BY <1>0, ItemType
      <4>2. files' = [files EXCEPT !.policies = [files.policies EXCEPT ![key] = [files.policies[key] EXCEPT !.there = FALSE]]]
        BY <1>0, <3>2, <4>1 DEF FilesType
      <4>3. files'.policies = [files.policies EXCEPT ![key] = [files.policies[key] EXCEPT !.there = FALSE]]
        BY <1>0, <4>2 DEF FilesType
      <4>4. files.policies \in [Targets -> PolicyFile]
        BY <1>0 DEF FilesType
      <4>5. files.policies[key] \in PolicyFile
        BY <4>1, <4>4
      <4>6. files'.policies[key] = [files.policies[key] EXCEPT !.there = FALSE]
            /\ \A k \in Targets : k # key => files'.policies[k] = files.policies[k]
        BY <4>1, <4>3, <4>4
      <4>7. ~files'.policies[key].there
        BY <4>5, <4>6 DEF PolicyFile
      <4> QED BY <1>0, <4>6, <4>7 DEF FilePolicies
    <3> QED BY <2>1, <3>1, <3>2
  <2> QED BY <1>0, <2>1, <2>2, <2>4, <2>5 DEF PolicyInv
<1>7. ASSUME ~BeginPlan, ~EndPlan, \A i \in Items : ~LookUp(i) /\ ~Submit(i) PROVE PolicyInv'
  <2>1. plan' = plan
    BY <1>7 DEF Next, vars, CheckFlags, Open, ReadEligibilities, ResolveSaved, ChooseRows, ChooseTarget, Narrow,
       Offer, Browse, Press, Take, ResolveNeed, Resolved, Verify, Justify, Confirm, Remember,
       ReadScope, FilterRows, CheckPicked, Another, Write, Tick, Regrant, Interrupt, Finished
  <2>2. files'.policies = files.policies
    <3>1. ASSUME NEW s, Reads(s) \/ ReadFails(s) PROVE files'.policies = files.policies
      <4>1. files' = files \/ \E f : files' = [files EXCEPT !.scoped = f]
        <5>1. Reads(s) => files' = files \/ files' = [files EXCEPT !.scoped = [files.scoped EXCEPT ![s] = Listing(Told(s))]]
          BY DEF Reads
        <5> QED BY <3>1, <5>1 DEF ReadFails
      <4> QED BY <1>0, <4>1 DEF FilesType
    <3>2. ASSUME ReadEligibilities PROVE files'.policies = files.policies
      <4>1. files' = files \/ \E f : files' = [files EXCEPT !.listing = f]
        BY <3>2 DEF ReadEligibilities
      <4> QED BY <1>0, <4>1 DEF FilesType
    <3>3. ASSUME ResolveSaved \/ Narrow \/ ResolveNeed \/ ReadScope
          PROVE  files' = files \/ \E s : Reads(s) \/ ReadFails(s)
      BY <3>3 DEF ResolveSaved, Narrow, ResolveNeed, ReadScope
    <3>4. ASSUME ~ReadEligibilities, ~ResolveSaved, ~Narrow, ~ResolveNeed, ~ReadScope PROVE files' = files
      BY <1>7, <3>4 DEF Next, vars, CheckFlags, Open, ChooseRows, ChooseTarget,
         Offer, Browse, Press, Take, Resolved, Verify, Justify, Confirm, Remember,
         FilterRows, CheckPicked, Another, Write, Tick, Regrant, Interrupt, Finished
    <3> QED BY <3>1, <3>2, <3>3, <3>4
  <2>3. consent'.ticket = consent.ticket
    <3>1. \/ UNCHANGED consent \/ (\E x, y : consent' = [consent EXCEPT !.selected = x, !.sources = y])
          \/ (\E x : consent' = [consent EXCEPT !.reason = x])
          \/ (\E x : consent' = [consent EXCEPT !.reason = x, !.prompted = TRUE])
          \/ (\E x : consent' = [consent EXCEPT !.confirmed = x])
      <4>1. Take => UNCHANGED consent \/ \E x, y : consent' = [consent EXCEPT !.selected = x, !.sources = y]
        BY DEF Take
      <4>2. ChooseRows => UNCHANGED consent \/ \E x, y : consent' = [consent EXCEPT !.selected = x, !.sources = y]
        BY DEF ChooseRows, Selects
      <4>3. Justify => \/ UNCHANGED consent \/ (\E x : consent' = [consent EXCEPT !.reason = x])
                       \/ (\E x : consent' = [consent EXCEPT !.reason = x, !.prompted = TRUE])
        BY DEF Justify
      <4>4. Confirm => UNCHANGED consent \/ \E x : consent' = [consent EXCEPT !.confirmed = x]
        BY DEF Confirm
      <4>5. FilterRows => UNCHANGED consent
        BY DEF FilterRows
      <4> QED BY <1>7, <4>1, <4>2, <4>3, <4>4, <4>5 DEF Next, vars, CheckFlags, Open, ReadEligibilities, ResolveSaved,
         ChooseTarget, Narrow, Offer, Browse, Press, ResolveNeed, Resolved, Verify, Remember,
         ReadScope, CheckPicked, Another, Write, Tick, Regrant, Interrupt, Finished
    <3> QED BY <1>0, <3>1 DEF ConsentType
  <2>4. stage' \in {"justify", "confirm", "submit"} => stage \in {"justify", "confirm", "submit"}
    <3>1. CASE Take \/ Browse \/ Offer \/ Press
      BY <3>1, Taking DEF Browse, Offer, Press, Go
    <3>2. CASE ReadEligibilities \/ ResolveSaved \/ ChooseRows \/ ChooseTarget \/ Narrow \/ CheckFlags \/ Open
      BY <3>2 DEF ReadEligibilities, ResolveSaved, ChooseRows, ChooseTarget, Narrow, CheckFlags, Open, Offers, Selects, Go, Refused
    <3>3. CASE ResolveNeed \/ Resolved \/ Verify \/ Justify \/ Confirm \/ Remember
      BY <3>3 DEF ResolveNeed, Resolved, Verify, Justify, Confirm, Remember, Go, Refused
    <3>4. CASE ReadScope \/ FilterRows \/ CheckPicked \/ Another \/ Write \/ Tick \/ Regrant \/ Interrupt \/ Finished \/ UNCHANGED vars
      BY <3>4 DEF ReadScope, FilterRows, CheckPicked, Another, Write, Tick, Regrant, Interrupt, Finished, vars, Go, Refused
    <3> QED BY <1>7, <3>1, <3>2, <3>3, <3>4 DEF Next
  <2> QED BY <1>1, <1>2, <2>1, <2>2, <2>3, <2>4
<1> QED BY <1>3, <1>4, <1>5, <1>6, <1>7

-----------------------------------------------------------------------------
(* What ARM has answered.                                                   *)

\* What was clear stays clear: more is said, and eligibilities only end.
LEMMA StillSaid ==
  ASSUME NEW said, NEW more, said \subseteq more, more \subseteq (Scopes \union {"all"}) \X SUBSET Grants,
         NEW now \in Int, NEW later \in Int, now <= later
  PROVE  /\ \A r : AnsweredBy(said, r) => AnsweredBy(more, r)
         /\ \A r, project, narrows : VouchedBy(said, now, project, narrows, r) => VouchedBy(more, later, project, narrows, r)
         /\ \A r : SureBy(said, now, r) => SureBy(more, later, r)
         /\ \A id : SolvedBy(said, now, id) => SolvedBy(more, later, id)
<1>1. ASSUME NEW roles \in SUBSET Grants, NEW s, NEW role, NEW target, Clear(roles, s, role, target, now)
      PROVE  Clear(roles, s, role, target, later)
  <2>1. \A o \in roles \ {s} : GrantOf[o].until <= now => GrantOf[o].until <= later
    <3>1. \A o \in Grants : GrantOf[o].until \in Int
      BY TenantAssumption DEF Grants
    <3> QED BY <3>1
  <2> QED BY <1>1, <2>1 DEF Clear
<1>2. \A a \in said : a \in more /\ a[2] \in SUBSET Grants
  OBVIOUS
<1>3. \A r : AnsweredBy(said, r) => AnsweredBy(more, r)
  BY DEF AnsweredBy
<1>4. ASSUME NEW r, NEW project, NEW narrows, VouchedBy(said, now, project, narrows, r)
      PROVE  VouchedBy(more, later, project, narrows, r)
  BY <1>1, <1>2, <1>4 DEF VouchedBy
<1>5. ASSUME NEW r, SureBy(said, now, r) PROVE SureBy(more, later, r)
  BY <1>1, <1>2, <1>5 DEF SureBy
<1>6. ASSUME NEW id, SolvedBy(said, now, id) PROVE SolvedBy(more, later, id)
  BY <1>1, <1>2, <1>6 DEF SolvedBy
<1> QED BY <1>3, <1>4, <1>5, <1>6

\* A row reads the same whatever is known of its window.
LEMMA SameRow ==
  ASSUME NEW r, NEW q, q.sched = r.sched, q.target = r.target,
         NEW said, NEW now, NEW project, NEW narrows, VouchedBy(said, now, project, narrows, r)
  PROVE  VouchedBy(said, now, project, narrows, q)
<1>1. Id(q) = Id(r) /\ SourceScope(q) = SourceScope(r)
  BY DEF Id, SourceScope
<1> QED BY <1>1 DEF VouchedBy

\* The only answer there is vouches for the row, and can be had again.
LEMMA SureRow ==
  ASSUME NEW said, NEW now, NEW r \in RowSet, SureBy(said, now, r)
  PROVE  /\ \A project, narrows : VouchedBy(said, now, project, narrows, r)
         /\ SolvedBy(said, now, Id(r))
<1>1. PICK a \in said : a[1] = r.target /\ Clear(a[2], r.sched, Id(r)[1], r.target, now)
  BY DEF SureBy
<1>2. Id(r)[1] = GrantOf[r.sched].role /\ Id(r)[2] = r.target /\ r.sched \in Grants
  BY IdType
<1>3. r.sched \in a[2] /\ Mine(r.sched) /\ SourceScope(r) \in Above[r.target]
  BY <1>1 DEF Clear, SourceScope
<1>4. \A project, narrows : VouchedBy(said, now, project, narrows, r)
  BY <1>1, <1>3 DEF VouchedBy
<1>5. SolvedBy(said, now, Id(r))
  BY <1>1, <1>2 DEF SolvedBy
<1> QED BY <1>4, <1>5

\* One source left of what ARM answered at a scope is the only one it could be.
LEMMA OneIsSure ==
  ASSUME Types, NEW said, NEW scope \in Scopes, NEW roles \in SUBSET Grants, <<scope, roles>> \in said,
         \A g \in roles : Mine(g) /\ GrantOf[g].scope \in Above[scope],
         NEW role \in Roles, Cardinality(Choose(roles, role, scope, AnySchedule)) = 1
  PROVE  LET s == Sole(Choose(roles, role, scope, AnySchedule))
         IN  /\ s \in Grants /\ GrantOf[s].role = role
             /\ SureBy(said, env.now, Row(s, scope)) /\ SolvedBy(said, env.now, <<role, scope>>)
<1> DEFINE s == Sole(Choose(roles, role, scope, AnySchedule))
<1>1. env.now \in Int
  BY DEF Types, EnvType
<1>2. Singles(roles, s, role, scope)
  BY <1>1, SoleIsSingle
<1> HIDE DEF s
<1>3. Clear(roles, s, role, scope, env.now) /\ s \in Grants /\ GrantOf[s].role = role
  BY <1>2 DEF Singles, Clear
<1>4. Row(s, scope).sched = s /\ Row(s, scope).target = scope /\ Row(s, scope) \in RowSet
  BY <1>3, RowType
<1>5. Id(Row(s, scope))[1] = role
  BY <1>3, <1>4, IdType
<1>6. <<scope, roles>>[1] = scope /\ <<scope, roles>>[2] = roles /\ <<role, scope>>[1] = role /\ <<role, scope>>[2] = scope
  OBVIOUS
<1>7. SureBy(said, env.now, Row(s, scope))
  BY <1>3, <1>4, <1>5, <1>6 DEF SureBy
<1>8. SolvedBy(said, env.now, <<role, scope>>)
  BY <1>3, <1>6 DEF SolvedBy
<1> QED BY <1>3, <1>7, <1>8 DEF s

\* Every step keeps what was said of rows, roles and requirements.
LEMMA SaidStep ==
  ASSUME Types, Types', FlowInv, AnswersInv, [Next]_vars
  PROVE  /\ \A r : AnsweredBy(answers, r) => AnsweredBy(answers', r)
         /\ \A r, project, narrows : VouchedBy(answers, env.now, project, narrows, r)
                                       => VouchedBy(answers', env'.now, project, narrows, r)
         /\ \A r : SureBy(answers, env.now, r) => SureBy(answers', env'.now, r)
         /\ \A id : SolvedBy(answers, env.now, id) => SolvedBy(answers', env'.now, id)
<1>1. answers \subseteq answers'
  BY AnswersStep
<1>2. env.now \in Int /\ env'.now \in Int /\ env.now <= env'.now
  BY OptStep
<1>3. answers' \subseteq (Scopes \union {"all"}) \X SUBSET Grants
  BY DEF Types, AnswersType
<1> QED BY <1>1, <1>2, <1>3, StillSaid

\* The caches that an earlier command left hold what it was answered.
LEMMA AnswersInit == Init => AnswersInv
<1> SUFFICES ASSUME Init PROVE AnswersInv
  OBVIOUS
<1>1. todo = NoTodo
  BY DEF Init
<1>2. \A s \in DOMAIN todo.read : <<s, todo.read[s]>> \in answers
  BY <1>1 DEF NoTodo
<1>3. ASSUME answers = {}, files = [listing |-> NoFile, scoped |-> [s \in Scopes |-> NoFile],
                   policies |-> [k \in Targets |-> [there |-> FALSE, fetched |-> 0, policy |-> NoPolicy]]]
      PROVE  ListsInv
  <2>1. files.listing.there = FALSE /\ \A s \in Scopes : files.scoped[s].there = FALSE
    BY <1>3 DEF NoFile
  <2> QED BY <1>3, <2>1 DEF ListsInv
<1>4. ASSUME NEW left \in Leftovers, Earlier(left[1], left[2]) PROVE ListsInv
  <2> DEFINE granted(s) == {g \in left[1] : GrantOf[g].scope \in Above[s] /\ Mine(g)}
             own == {g \in left[1] : Mine(g)}
  <2>1. /\ files = [listing  |-> [there |-> TRUE, fetched |-> left[2], roles |-> own],
                  scoped   |-> [s \in Scopes |-> [there |-> TRUE, fetched |-> left[2], roles |-> granted(s)]],
                  policies |-> [k \in Targets |-> [there |-> TRUE, fetched |-> left[2], policy |-> OldPolicyAt[k]]]]
        /\ answers = IF opt.refresh THEN {} ELSE {<<"all", own>>} \union {<<s, granted(s)>> : s \in Scopes}
    BY <1>4 DEF Earlier
  <2>2. \A s : \A g \in granted(s) : Mine(g) /\ GrantOf[g].scope \in Above[s]
    OBVIOUS
  <2>3. \A g \in own : Mine(g)
    OBVIOUS
  <2> HIDE DEF granted, own
  <2>4. files.listing.roles = own /\ \A s \in Scopes : files.scoped[s].roles = granted(s)
    BY <2>1
  <2>5. \A a \in answers : a = <<"all", own>> \/ \E s \in Scopes : a = <<s, granted(s)>>
    BY <2>1
  <2>6. \A a \in answers : \A g \in a[2] : Mine(g) /\ (a[1] # "all" => GrantOf[g].scope \in Above[a[1]])
    BY <2>2, <2>3, <2>5
  <2>7. ~opt.refresh => <<"all", own>> \in answers /\ \A s \in Scopes : <<s, granted(s)>> \in answers
    BY <2>1
  <2> QED BY <2>4, <2>6, <2>7 DEF ListsInv
<1>5. \/ /\ answers = {}
         /\ files = [listing |-> NoFile, scoped |-> [s \in Scopes |-> NoFile],
                   policies |-> [k \in Targets |-> [there |-> FALSE, fetched |-> 0, policy |-> NoPolicy]]]
      \/ \E left \in Leftovers : Earlier(left[1], left[2])
  BY DEF Init
<1>6. ListsInv
  BY <1>3, <1>4, <1>5
<1> QED BY <1>2, <1>6 DEF AnswersInv

\* Nothing is resolved at the start, and nothing claimed.
LEMMA ResolveInit == Init => ResolveInv
<1> SUFFICES ASSUME Init PROVE ResolveInv
  OBVIOUS
<1>1. stage = "flags" /\ todo.found = <<>> /\ ~memory.created
  BY DEF Init, NoTodo
<1> QED BY <1>1 DEF ResolveInv, Requesting

-----------------------------------------------------------------------------
(* Every step keeps the rows what ARM answered.                             *)

\* Reading, choosing and narrowing.
LEMMA OrdinaryStep ==
  ASSUME Types, Types', FlowInv, AnswersInv, AnswersInv', SelectInv, ResolveInv, [Next]_vars,
         ReadEligibilities \/ ResolveSaved \/ ChooseRows \/ ChooseTarget \/ Narrow
  PROVE  ResolveInv'
<1>0. /\ Project' = Project /\ Setup' = Setup /\ Ordinary' = Ordinary /\ opt.mode \in Modes
      /\ ListsInv /\ ListsInv' /\ FilesType /\ EnvType /\ TodoType /\ TodoType' /\ OptType
  BY OptStep DEF Types, OptType, AnswersInv
<1>1. /\ \A r : AnsweredBy(answers, r) => AnsweredBy(answers', r)
      /\ \A r, project, narrows : VouchedBy(answers, env.now, project, narrows, r)
                                    => VouchedBy(answers', env'.now, project, narrows, r)
      /\ \A id : SolvedBy(answers, env.now, id) => SolvedBy(answers', env'.now, id)
  BY SaidStep
<1>2. Ordinary
  <2>1. stage \in {"read", "saved", "choose", "target", "narrow"}
    BY DEF ReadEligibilities, ResolveSaved, ChooseRows, ChooseTarget, Narrow
  <2> QED BY <1>0, <2>1 DEF FlowInv, Way, Setup, Project, Requesting, Ordinary
<1>3. memory' = memory /\ (memory.created => \A id \in AllOf(memory.project) : SolvedBy(answers, env.now, id))
  BY DEF ReadEligibilities, ResolveSaved, ChooseRows, ChooseTarget, Narrow, ResolveInv
<1>4. memory'.created => \A id \in AllOf(memory'.project) : SolvedBy(answers', env'.now, id)
  BY <1>1, <1>3
<1>5. ASSUME stage' \in {"saved", "choose", "offer", "target", "refused"}, \A k \in 1..Len(rows') : AnsweredBy(answers', rows'[k])
      PROVE  ResolveInv'
  BY <1>0, <1>2, <1>4, <1>5 DEF ResolveInv, Ordinary, Requesting
<1>6. stage \in {"saved", "choose", "target", "narrow"} => \A k \in 1..Len(rows) : AnsweredBy(answers, rows[k])
  BY <1>2 DEF ResolveInv
<1>6a. ASSUME stage' = "refused" PROVE ResolveInv'
  BY <1>4, <1>6a DEF ResolveInv, Requesting
<1>7. CASE ReadEligibilities
  <2>1. \/ stage' = "refused"
        \/ \E set \in SUBSET Grants : Offers(set) /\ <<"all", set>> \in answers'
    BY <1>0, <1>7, ListAnswered
  <2>2. ASSUME NEW set \in SUBSET Grants, Offers(set), <<"all", set>> \in answers' PROVE ResolveInv'
    <3>1. /\ \A k \in 1..Len(rows') : rows'[k].sched \in set /\ rows'[k].target = SourceScope(rows'[k])
          /\ stage' \in {"saved", "offer", "choose", "refused"}
      BY <2>2, Offering
    <3>2. <<"all", set>>[1] = "all" /\ <<"all", set>>[2] = set
      OBVIOUS
    <3>3. \A k \in 1..Len(rows') : AnsweredBy(answers', rows'[k])
      BY <2>2, <3>1, <3>2 DEF AnsweredBy
    <3> QED BY <1>5, <3>1, <3>3
  <2> QED BY <1>6a, <2>1, <2>2
<1>8. CASE ResolveSaved
  <2> DEFINE e == memory.preset[todo.next]
             sources == {s \in Told(e.target) : GrantOf[s].scope = e.source}
             chosen  == Choose(sources, e.role, e.target, AnySchedule)
  <2>1. stage = "saved" /\ stage' \in {"saved", "refused"} /\ rows \in Seq(RowSet)
    BY <1>8, SavedType DEF Types, ResolveSaved
  <2>2. CASE rows' = rows
    BY <1>1, <1>5, <1>6, <2>1, <2>2
  <2>3. CASE Reads(e.target) /\ Cardinality(chosen) = 1 /\ rows' = Append(rows, Row(Sole(chosen), e.target))
    <3>1. e \in SavedSet
      <4>1. memory.preset \in Seq(SavedSet) /\ todo.next \in 1..Len(memory.preset)
        BY <1>8 DEF Types, MemoryType, TodoType, ResolveSaved
      <4> QED BY <4>1, ElementOfSeq
    <3>2. e.target \in Scopes
      BY <3>1 DEF SavedSet
    <3>3. opt' = opt
      BY <1>8 DEF ResolveSaved
    <3>4. <<e.target, Told(e.target)>> \in answers'
      BY <1>0, <2>3, <3>2, <3>3, ReadAnswered
    <3>5. sources \in SUBSET Grants /\ sources \subseteq Told(e.target)
      BY <1>0, <3>2, ToldType
    <3>6. Sole(chosen) \in Told(e.target)
      <4>1. Cardinality(chosen) = 1
        BY <2>3
      <4>2. env.now \in Int
        BY <1>0 DEF EnvType
      <4>3. Sole(chosen) \in sources
        BY <3>5, <4>1, <4>2, SoleChoice
      <4> QED BY <3>5, <4>3
    <3> HIDE DEF chosen, sources, e
    <3>7. AnsweredBy(answers', Row(Sole(chosen), e.target))
      <4>1. <<e.target, Told(e.target)>>[1] = e.target /\ <<e.target, Told(e.target)>>[2] = Told(e.target)
        OBVIOUS
      <4>2. Row(Sole(chosen), e.target).sched = Sole(chosen) /\ Row(Sole(chosen), e.target).target = e.target
        BY DEF Row
      <4> QED BY <3>4, <3>6, <4>1, <4>2 DEF AnsweredBy
    <3>8. \A k \in 1..Len(rows') : AnsweredBy(answers', rows'[k])
      <4>1. \A k \in 1..Len(rows') : (k \in 1..Len(rows) /\ rows'[k] = rows[k]) \/ rows'[k] = Row(Sole(chosen), e.target)
        <5>1. PICK r : r = Row(Sole(chosen), e.target)
          OBVIOUS
        <5> QED BY <2>1, <2>3, <5>1, AppendProperties
      <4> QED BY <1>1, <1>6, <2>1, <3>7, <4>1
    <3> QED BY <1>5, <2>1, <3>8
  <2> QED BY <1>8, <2>2, <2>3 DEF ResolveSaved
<1>9. CASE ChooseRows
  <2>1. answers' = answers /\ stage \in {"choose", "saved"}
    BY <1>9 DEF ChooseRows
  <2>2. \/ stage' = "refused"
        \/ \E chosen \in Seq(RowSet) : Selects(chosen) /\ AllOf(chosen) \subseteq AllOf(rows)
    BY <1>9, Choosing
  <2>3. ASSUME NEW chosen \in Seq(RowSet), Selects(chosen), AllOf(chosen) \subseteq AllOf(rows) PROVE ResolveInv'
    <3>1. rows' = chosen /\ stage' \in {"refused", "target"}
      BY <2>3 DEF Selects, Go, Refused
    <3>2. \A k \in 1..Len(rows') : \E i \in 1..Len(rows) : rows'[k] = rows[i]
      BY <2>3, <3>1 DEF AllOf
    <3> QED BY <1>1, <1>5, <1>6, <2>1, <3>1, <3>2
  <2> QED BY <1>6a, <2>2, <2>3
<1>10. CASE ChooseTarget
  <2>1. UNCHANGED <<env, todo, rows, answers>> /\ stage = "target" /\ stage' \in {"plan", "narrow", "refused"}
    BY <1>10 DEF ChooseTarget, Go, Refused
  <2>2. todo.found = <<>>
    BY <2>1 DEF FlowInv, Untouched
  <2>3. stage' = "plan" => ~Narrows'
    <3>1. PICK at \in {Nowhere} \union Scopes :
            opt' = [opt EXCEPT !.at = at] /\ (stage' = "plan" => at = Nowhere)
      BY <1>10 DEF ChooseTarget, Go, Refused
    <3>2. opt'.at = at
      BY <1>0, <3>1 DEF OptType
    <3> QED BY <3>1, <3>2 DEF Narrows
  <2>4. ASSUME stage' = "plan", NEW k \in 1..Len(rows) PROVE VouchedBy(answers', env'.now, Project', Narrows', rows[k])
    <3>1. AnsweredBy(answers, rows[k]) /\ rows[k] \in RowSet
      BY <1>6, <2>1, ElementOfSeq DEF Types
    <3>2. PICK a \in answers : (a[1] = rows[k].target \/ (a[1] = "all" /\ rows[k].target = SourceScope(rows[k]))) /\ rows[k].sched \in a[2]
      BY <3>1 DEF AnsweredBy
    <3>3. Mine(rows[k].sched) /\ (a[1] # "all" => SourceScope(rows[k]) \in Above[a[1]])
      BY <1>0, <3>2 DEF ListsInv, SourceScope
    <3>4. rows[k].target \in Scopes /\ SourceScope(rows[k]) \in Scopes
      BY <3>1, IdType
    <3>5. SourceScope(rows[k]) \in Above[rows[k].target]
      BY <3>2, <3>3, <3>4, TenantAssumption
    <3>6. ~Project' /\ ~Narrows'
      BY <1>0, <1>2, <2>3, <2>4 DEF Ordinary
    <3> QED BY <2>1, <3>2, <3>3, <3>5, <3>6 DEF VouchedBy
  <2> QED BY <1>0, <1>1, <1>2, <1>4, <1>6, <2>1, <2>2, <2>4 DEF ResolveInv, Ordinary, Requesting
<1>11. CASE Narrow
  <2>1. opt' = opt /\ stage = "narrow" /\ todo.found \in Seq(RowSet)
    BY <1>0, <1>11 DEF Narrow, TodoType
  <2>2. Narrows' = Narrows
    BY <2>1 DEF Narrows
  <2>3. \A k \in 1..Len(todo.found) : VouchedBy(answers, env.now, Project, Narrows, todo.found[k])
    BY <2>1 DEF ResolveInv
  <2>4. CASE todo.next > Len(rows)
    <3>1. rows' = Dedupe(todo.found) /\ stage' = "plan"
      BY <1>11, <2>4 DEF Narrow, Narrowed, Go
    <3>2. \A k \in 1..Len(rows') : \E i \in 1..Len(todo.found) : rows'[k] = todo.found[i]
      BY <2>1, <3>1, Deduped
    <3>3. \A k \in 1..Len(rows') : VouchedBy(answers', env'.now, Project', Narrows', rows'[k])
      BY <1>0, <1>1, <2>2, <2>3, <3>2
    <3> QED BY <1>0, <1>2, <1>4, <3>1, <3>3 DEF ResolveInv, Ordinary, Requesting
  <2>5. CASE ~(todo.next > Len(rows)) /\ stage' # "refused"
    <3> DEFINE r == rows[todo.next]
               chosen == Choose(Told(opt.at), GrantOf[r.sched].role, opt.at, r.sched)
               new == Row(Sole(chosen), opt.at)
    <3>1. /\ UNCHANGED <<rows, stage, opt>> /\ Reads(opt.at) /\ Sole(chosen) \in Told(opt.at)
          /\ todo'.found = Append(todo.found, new)
      BY <1>11, <2>5, NarrowedOne
    <3>2. opt.at \in Scopes
      BY <2>1 DEF Types, AtType
    <3>3. <<opt.at, Told(opt.at)>> \in answers'
      BY <1>0, <3>1, <3>2, ReadAnswered
    <3>4. new.sched = Sole(chosen) /\ new.target = opt.at
      BY DEF Row
    <3> HIDE DEF new, chosen
    <3>5. Mine(new.sched) /\ SourceScope(new) \in Above[new.target]
      <4>1. <<opt.at, Told(opt.at)>>[1] = opt.at /\ <<opt.at, Told(opt.at)>>[2] = Told(opt.at) /\ opt.at # "all"
        BY <3>2, TenantAssumption
      <4> QED BY <1>0, <3>1, <3>3, <3>4, <4>1 DEF ListsInv, SourceScope
    <3>6. VouchedBy(answers', env'.now, Project', Narrows', new)
      <4>1. <<opt.at, Told(opt.at)>>[1] = opt.at /\ <<opt.at, Told(opt.at)>>[2] = Told(opt.at)
        OBVIOUS
      <4>2. ~Project'
        BY <1>0, <1>2 DEF Ordinary
      <4> QED BY <3>1, <3>3, <3>4, <3>5, <4>1, <4>2 DEF VouchedBy
    <3>7. \A k \in 1..Len(todo'.found) : (k \in 1..Len(todo.found) /\ todo'.found[k] = todo.found[k]) \/ todo'.found[k] = new
      BY <2>1, <3>1, AppendProperties
    <3>8. \A k \in 1..Len(todo'.found) : VouchedBy(answers', env'.now, Project', Narrows', todo'.found[k])
      BY <1>0, <1>1, <2>2, <2>3, <3>6, <3>7
    <3> QED BY <1>0, <1>1, <1>2, <1>4, <1>6, <2>1, <3>1, <3>8 DEF ResolveInv, Ordinary, Requesting
  <2> QED BY <1>6a, <2>4, <2>5
<1> QED BY <1>7, <1>8, <1>9, <1>10, <1>11

\* Starting, and the picker.
LEMMA PickingStep ==
  ASSUME Types, Types', FlowInv, AnswersInv, ResolveInv, [Next]_vars,
         CheckFlags \/ Open \/ Offer \/ Browse \/ Press \/ Take
  PROVE  ResolveInv'
<1>0. /\ Project' = Project /\ Setup' = Setup /\ Ordinary' = Ordinary /\ opt.mode \in Modes
      /\ UNCHANGED <<memory, answers>> /\ todo'.found = todo.found /\ todo'.read = todo.read
  <2>1. todo'.found = todo.found /\ todo'.read = todo.read
    <3>1. todo' = todo \/ \E x : todo' = [todo EXCEPT !.failed = x]
      BY DEF CheckFlags, Open, Offer, Browse, Press, Take
    <3> QED BY <3>1 DEF Types, TodoType
  <2> QED BY <2>1, OptStep DEF Types, OptType, CheckFlags, Open, Offer, Browse, Press, Take
<1>1. /\ \A r : AnsweredBy(answers, r) => AnsweredBy(answers', r)
      /\ \A r : SureBy(answers, env.now, r) => SureBy(answers', env'.now, r)
      /\ \A id : SolvedBy(answers, env.now, id) => SolvedBy(answers', env'.now, id)
  BY SaidStep
<1>2. /\ memory'.created => \A id \in AllOf(memory'.project) : SolvedBy(answers', env'.now, id)
      /\ Setup => (stage # "refused" => \A k \in 1..Len(todo'.found) : SolvedBy(answers', env'.now, Id(todo'.found[k])))
  BY <1>0, <1>1 DEF ResolveInv
<1>3. CASE CheckFlags \/ Open
  <2>1. stage \in {"flags", "open"} /\ stage' \in {"open", "refused", "browse", "resolve", "read"}
    BY <1>3 DEF CheckFlags, Open, Go, Refused
  <2>2. todo'.found = <<>>
    BY <1>0, <2>1 DEF FlowInv, Untouched
  <2>3. \A k \in 1..Len(todo'.found) : SureBy(answers', env'.now, todo'.found[k])
    BY <2>2
  <2> QED BY <1>0, <1>2, <2>1, <2>3 DEF ResolveInv, Requesting
<1>4. CASE Offer
  <2>1. stage = "offer" /\ stage' = "picking" /\ UNCHANGED <<opt, rows>>
    BY <1>4 DEF Offer, Go
  <2> QED BY <1>0, <1>1, <1>2, <2>1 DEF ResolveInv, Requesting
<1>5. CASE Browse
  <2>1. stage = "browse" /\ (stage' = "scope" \/ (stage' = "picking" /\ model'.single))
    BY <1>5, Browsed DEF Browse
  <2>2. Setup
    BY <1>0, <2>1 DEF FlowInv, Way, Setup, Requesting
  <2> QED BY <1>0, <1>1, <1>2, <2>1, <2>2 DEF ResolveInv, Ordinary, Requesting
<1>6. CASE Press
  <2>1. stage = "picking" /\ stage' = "picking" /\ UNCHANGED <<opt, rows>> /\ model'.single = model.single
    BY <1>6, PressedOn DEF Press
  <2> QED BY <1>0, <1>1, <1>2, <2>1 DEF ResolveInv, Requesting
<1>7. CASE Take
  <2>1. /\ stage = "picking"
        /\ \/ stage' = "refused"
           \/ model.single /\ stage' = "scope"
           \/ /\ ~model.single /\ AllOf(rows') \subseteq AllOf(rows) /\ UNCHANGED opt
              /\ stage' \in {"refused", IF Setup THEN "check" ELSE "target"}
    BY <1>7, Taking
  <2>2. CASE stage' = "refused"
    BY <1>0, <1>2, <2>1, <2>2 DEF ResolveInv, Requesting
  <2>3. CASE model.single /\ stage' = "scope"
    BY <1>0, <1>2, <2>1, <2>3 DEF ResolveInv, Requesting
  <2>4. CASE ~model.single /\ AllOf(rows') \subseteq AllOf(rows) /\ UNCHANGED opt /\ stage' = IF Setup THEN "check" ELSE "target"
    <3>1. \A k \in 1..Len(rows') : \E i \in 1..Len(rows) : rows'[k] = rows[i]
      BY <2>4 DEF AllOf
    <3>2. CASE Setup
      <4>1. opt'.at \in DOMAIN todo'.read /\ \A k \in 1..Len(rows') : rows'[k].target = opt'.at
        BY <1>0, <2>1, <2>4, <3>1, <3>2 DEF ResolveInv
      <4> QED BY <1>0, <1>2, <2>1, <2>4, <3>2, <4>1 DEF ResolveInv, Ordinary, Requesting
    <3>3. CASE ~Setup
      <4>1. Ordinary => \A k \in 1..Len(rows') : AnsweredBy(answers', rows'[k])
        BY <1>1, <2>1, <3>1 DEF ResolveInv
      <4> QED BY <1>0, <1>2, <2>4, <3>3, <4>1 DEF ResolveInv, Requesting
    <3> QED BY <3>2, <3>3
  <2> QED BY <2>1, <2>2, <2>3, <2>4
<1> QED BY <1>3, <1>4, <1>5, <1>6, <1>7

\* Projects, and a preset that is written to one.
LEMMA NeedStep ==
  ASSUME Types, Types', FlowInv, AnswersInv, AnswersInv', ResolveInv, [Next]_vars,
         ResolveNeed \/ Resolved \/ Verify
  PROVE  ResolveInv'
<1>0. /\ Project' = Project /\ Setup' = Setup /\ opt.mode \in Modes /\ UNCHANGED <<opt, memory>>
      /\ ListsInv /\ ListsInv' /\ FilesType /\ EnvType /\ TodoType /\ AnswersType' /\ rows \in Seq(RowSet)
      /\ env.now \in Int
  BY OptStep DEF Types, OptType, AnswersInv, ResolveNeed, Resolved, Verify
<1>1. /\ \A r, project, narrows : VouchedBy(answers, env.now, project, narrows, r)
                                    => VouchedBy(answers', env'.now, project, narrows, r)
      /\ \A r : SureBy(answers, env.now, r) => SureBy(answers', env'.now, r)
      /\ \A id : SolvedBy(answers, env.now, id) => SolvedBy(answers', env'.now, id)
  BY SaidStep
<1>2. memory'.created => \A id \in AllOf(memory'.project) : SolvedBy(answers', env'.now, id)
  BY <1>0, <1>1 DEF ResolveInv
<1>3. CASE ResolveNeed
  <2>1. stage = "resolve" /\ stage' = "resolve" /\ env' = env /\ todo.found \in Seq(RowSet)
    BY <1>0, <1>3 DEF ResolveNeed, TodoType
  <2>2. \A k \in 1..Len(todo.found) : SureBy(answers', env'.now, todo.found[k])
    BY <1>1, <2>1 DEF ResolveInv
  <2>3. Setup => \A k \in 1..Len(todo.found) : SolvedBy(answers', env'.now, Id(todo.found[k]))
    BY <1>1, <2>1 DEF ResolveInv
  <2>4. ASSUME \A k \in 1..Len(todo'.found) : SureBy(answers', env'.now, todo'.found[k]) PROVE ResolveInv'
    <3>1. \A k \in 1..Len(todo'.found) : SolvedBy(answers', env'.now, Id(todo'.found[k]))
      <4>1. todo'.found \in Seq(RowSet)
        BY DEF Types, TodoType
      <4>2. \A k \in 1..Len(todo'.found) : todo'.found[k] \in RowSet
        BY <4>1, ElementOfSeq
      <4> QED BY <2>4, <4>2, SureRow
    <3> QED BY <1>0, <1>2, <2>1, <2>4, <3>1 DEF ResolveInv, Requesting
  <2>5. PICK role \in Roles, scope \in Scopes, roles \in SUBSET Grants :
           LET chosen == Choose(roles, role, scope, AnySchedule)
           IN  \/ /\ \/ scope \in DOMAIN todo.read /\ roles = todo.read[scope] /\ UNCHANGED <<files, answers>>
                     \/ roles = Told(scope) /\ Reads(scope)
                  /\ todo'.found = IF Cardinality(chosen) # 1 THEN todo.found
                                   ELSE Append(todo.found, Row(Sole(chosen), scope))
               \/ todo' = [todo EXCEPT !.next = todo.next + 1, !.failed = TRUE]
    BY <1>3, NeedResolved
  <2>6. CASE todo'.found = todo.found
    BY <2>2, <2>4, <2>6
  <2>7. CASE todo' = [todo EXCEPT !.next = todo.next + 1, !.failed = TRUE]
    BY <1>0, <2>6, <2>7 DEF TodoType
  <2> DEFINE chosen == Choose(roles, role, scope, AnySchedule)
  <2>8. CASE /\ \/ scope \in DOMAIN todo.read /\ roles = todo.read[scope] /\ UNCHANGED <<files, answers>>
                \/ roles = Told(scope) /\ Reads(scope)
             /\ Cardinality(chosen) = 1 /\ todo'.found = Append(todo.found, Row(Sole(chosen), scope))
    <3>1. <<scope, roles>> \in answers'
      <4>1. scope \in DOMAIN todo.read /\ roles = todo.read[scope] /\ UNCHANGED answers => <<scope, roles>> \in answers'
        BY DEF AnswersInv
      <4>2. roles = Told(scope) /\ Reads(scope) => <<scope, roles>> \in answers'
        BY <1>0, ReadAnswered
      <4> QED BY <2>8, <4>1, <4>2
    <3>2. \A g \in roles : Mine(g) /\ GrantOf[g].scope \in Above[scope]
      <4>1. <<scope, roles>>[1] = scope /\ <<scope, roles>>[2] = roles /\ scope # "all"
        BY TenantAssumption
      <4> QED BY <1>0, <3>1, <4>1 DEF ListsInv
    <3>3. Cardinality(Choose(roles, role, scope, AnySchedule)) = 1
      BY <2>8
    <3>4. SureBy(answers', env.now, Row(Sole(chosen), scope))
      <4>1. PICK said : said = answers'
        OBVIOUS
      <4>2. <<scope, roles>> \in said
        BY <3>1, <4>1
      <4>3. SureBy(said, env.now, Row(Sole(chosen), scope))
        BY <3>2, <3>3, <4>2, OneIsSure
      <4> QED BY <4>1, <4>3
    <3> HIDE DEF chosen
    <3>5. \A k \in 1..Len(todo'.found) :
            (k \in 1..Len(todo.found) /\ todo'.found[k] = todo.found[k]) \/ todo'.found[k] = Row(Sole(chosen), scope)
      <4>1. PICK r : r = Row(Sole(chosen), scope)
        OBVIOUS
      <4> QED BY <2>1, <2>8, <4>1, AppendProperties
    <3> QED BY <2>1, <2>2, <2>4, <3>4, <3>5
  <2> QED BY <2>5, <2>6, <2>7, <2>8
<1>4. CASE Resolved
  <2>1. /\ stage = "resolve" /\ rows' = todo.found /\ UNCHANGED <<todo, env, answers>>
        /\ stage' \in {"refused", IF Project THEN "verify" ELSE "write"} /\ todo.found \in Seq(RowSet)
    BY <1>0, <1>4 DEF Resolved, TodoType, Go, Refused
  <2>2. \A k \in 1..Len(todo.found) : SureBy(answers, env.now, todo.found[k]) /\ todo.found[k] \in RowSet
    BY <2>1, ElementOfSeq DEF ResolveInv
  <2>3. \A k \in 1..Len(rows') : /\ VouchedBy(answers', env'.now, Project', Narrows', rows'[k])
                                 /\ SolvedBy(answers', env'.now, Id(rows'[k]))
    BY <2>1, <2>2, SureRow
  <2>4. \A k \in 1..Len(todo'.found) : SolvedBy(answers', env'.now, Id(todo'.found[k]))
    BY <2>1, <2>3
  <2>5. stage' \in {"refused", "verify", "write"}
    BY <2>1
  <2> QED BY <1>2, <2>3, <2>4, <2>5 DEF ResolveInv, Requesting
<1>5. CASE Verify
  <2>1. /\ Len(rows') = Len(rows) /\ UNCHANGED <<todo, env, answers>>
        /\ \A i \in 1..Len(rows) : rows'[i].sched = rows[i].sched /\ rows'[i].target = rows[i].target
        /\ stage = "verify" /\ stage' \in {"refused", "plan"}
    BY <1>5, Verified
  <2>2. ~Setup
    BY <1>0, <2>1 DEF FlowInv, Way, Setup, Project, Requesting
  <2>3. Narrows' = Narrows
    BY <1>0 DEF Narrows
  <2>4. ASSUME NEW k \in 1..Len(rows') PROVE VouchedBy(answers', env'.now, Project', Narrows', rows'[k])
    <3>1. VouchedBy(answers, env.now, Project, Narrows, rows[k])
      BY <2>1, <2>2 DEF ResolveInv
    <3>2. PICK r, q : r = rows[k] /\ q = rows'[k]
      OBVIOUS
    <3>3. PICK said, now : said = answers /\ now = env.now
      OBVIOUS
    <3>4. q.sched = r.sched /\ q.target = r.target
      BY <2>1, <3>2
    <3>5. PICK project, narrows : project = Project /\ narrows = Narrows
      OBVIOUS
    <3>6. VouchedBy(said, now, project, narrows, r)
      BY <3>1, <3>2, <3>3, <3>5
    <3>7. VouchedBy(said, now, project, narrows, q)
      BY <3>4, <3>6, SameRow
    <3> QED BY <1>0, <2>1, <2>3, <3>2, <3>3, <3>5, <3>7
  <2> QED BY <1>0, <1>2, <2>1, <2>2, <2>4 DEF ResolveInv, Ordinary, Requesting
<1> QED BY <1>3, <1>4, <1>5

\* Setup, from a scope to the file.
LEMMA SetupStep ==
  ASSUME Types, Types', FlowInv, AnswersInv, AnswersInv', ResolveInv, [Next]_vars,
         ReadScope \/ FilterRows \/ CheckPicked \/ Another \/ Write
  PROVE  ResolveInv'
<1>0. /\ Project' = Project /\ Setup' = Setup /\ opt.mode \in Modes /\ UNCHANGED <<opt, env>>
      /\ ListsInv /\ ListsInv' /\ TodoType /\ env.now \in Int
  BY OptStep DEF Types, OptType, AnswersInv, ReadScope, FilterRows, CheckPicked, Another, Write
<1>1. \A id : SolvedBy(answers, env.now, id) => SolvedBy(answers', env'.now, id)
  BY SaidStep
<1>2. Setup
  <2>1. stage \in {"scope", "check", "another", "write"} \/ FilterRows
    BY DEF ReadScope, CheckPicked, Another, Write
  <2> QED BY <1>0, <2>1 DEF FilterRows, FlowInv, Way, Setup, Requesting
<1>3. /\ stage # "refused" => \A k \in 1..Len(todo.found) : SolvedBy(answers', env'.now, Id(todo.found[k]))
      /\ memory.created => \A id \in AllOf(memory.project) : SolvedBy(answers', env'.now, id)
  BY <1>1, <1>2 DEF ResolveInv
<1>4. CASE ReadScope
  <2>1. /\ stage = "scope" /\ opt.at \in Scopes /\ stage' \in {"offer", "refused"} /\ todo'.found = todo.found
        /\ stage' = "offer" =>
             /\ todo' = [todo EXCEPT !.read = [s \in {opt.at} |-> Told(opt.at)]]
             /\ \A k \in 1..Len(rows') : rows'[k].target = opt.at
        /\ memory' = memory
    BY <1>4, ScopeRead
  <2>2. stage' = "offer" => opt.at \in DOMAIN todo'.read
    <3>1. PICK f : f = [s \in {opt.at} |-> Told(opt.at)]
      OBVIOUS
    <3>2. stage' = "offer" => todo'.read = f
      BY <1>0, <2>1, <3>1 DEF TodoType
    <3> QED BY <3>1, <3>2
  <2> QED BY <1>0, <1>2, <1>3, <2>1, <2>2 DEF ResolveInv, Ordinary, Requesting
<1>5. CASE FilterRows
  <2>1. /\ stage = "offer" /\ stage' \in {"check", "refused"} /\ UNCHANGED <<todo, memory>>
        /\ \A k \in 1..Len(rows') : \E i \in 1..Len(rows) : rows'[k] = rows[i]
    BY <1>5, Filtered
  <2>2. opt.at \in DOMAIN todo.read /\ \A k \in 1..Len(rows') : rows'[k].target = opt.at
    BY <1>2, <2>1 DEF ResolveInv
  <2> QED BY <1>0, <1>2, <1>3, <2>1, <2>2 DEF ResolveInv, Ordinary, Requesting
<1>6. CASE CheckPicked
  <2>1. stage = "check" /\ UNCHANGED <<rows, memory, answers>> /\ stage' \in {"another", "refused"}
    BY <1>6 DEF CheckPicked, Go, Refused
  <2>2. todo'.found = todo.found \o rows
    <3>1. PICK n, f : n = todo.next + 1 /\ f = todo.found \o rows
      OBVIOUS
    <3>2. todo' = [todo EXCEPT !.next = n, !.found = f]
      BY <1>6, <3>1 DEF CheckPicked
    <3> QED BY <1>0, <3>1, <3>2 DEF TodoType
  <2>3. opt.at \in DOMAIN todo.read /\ \A k \in 1..Len(rows) : rows[k].target = opt.at
    BY <1>2, <2>1 DEF ResolveInv
  <2>4. todo.found \in Seq(RowSet) /\ rows \in Seq(RowSet)
    BY <1>0 DEF TodoType, Types
  <2>5. ASSUME stage' = "another", NEW k \in 1..Len(rows) PROVE SolvedBy(answers', env'.now, Id(rows[k]))
    <3>1. Replayable(rows[k])
      BY <1>6, <2>5 DEF CheckPicked, Refused, AllOf
    <3>2. PICK role, scope, roles : role = Id(rows[k])[1] /\ scope = opt.at /\ roles = todo.read[opt.at]
      OBVIOUS
    <3>3. rows[k] \in RowSet /\ rows[k].target = scope
      BY <2>3, <2>4, <3>2, ElementOfSeq
    <3>4. scope \in Scopes /\ role \in Roles /\ Id(rows[k]) = <<role, scope>>
      <4>1. Id(rows[k]) \in Targets /\ Id(rows[k])[2] = rows[k].target /\ rows[k].target \in Scopes
        BY <3>3, IdType
      <4>2. Id(rows[k]) = <<Id(rows[k])[1], Id(rows[k])[2]>>
        BY <4>1 DEF Targets
      <4> QED BY <3>2, <3>3, <4>1, <4>2 DEF Targets
    <3>5. roles \in SUBSET Grants /\ <<scope, roles>> \in answers
      <4>1. todo.read \in Known
        BY <1>0 DEF TodoType
      <4>2. roles \in SUBSET Grants
        BY <2>3, <3>2, <4>1 DEF Known
      <4> QED BY <2>3, <3>2, <4>2 DEF AnswersInv
    <3>6. \A g \in roles : Mine(g) /\ GrantOf[g].scope \in Above[scope]
      <4>1. <<scope, roles>>[1] = scope /\ <<scope, roles>>[2] = roles /\ scope # "all"
        BY <3>4, TenantAssumption
      <4> QED BY <1>0, <3>5, <4>1 DEF ListsInv
    <3>7. Cardinality(Choose(roles, role, scope, AnySchedule)) = 1
      BY <3>1, <3>2 DEF Replayable
    <3>8. PICK said : said = answers
      OBVIOUS
    <3>9. <<scope, roles>> \in said
      BY <3>5, <3>8
    <3>10. SolvedBy(said, env.now, <<role, scope>>)
      BY <3>4, <3>5, <3>6, <3>7, <3>9, OneIsSure
    <3> QED BY <1>1, <3>4, <3>8, <3>10
  <2>6. stage' = "another" => \A k \in 1..Len(todo'.found) : SolvedBy(answers', env'.now, Id(todo'.found[k]))
    <3>1. \A k \in 1..Len(todo'.found) : (k \in 1..Len(todo.found) /\ todo'.found[k] = todo.found[k])
                                         \/ \E i \in 1..Len(rows) : todo'.found[k] = rows[i]
      <4>1. PICK f, g : f = todo.found /\ g = rows
        OBVIOUS
      <4>2. f \in Seq(RowSet) /\ g \in Seq(RowSet)
        BY <2>4, <4>1
      <4>3. \A k \in 1..Len(f \o g) : (k \in 1..Len(f) /\ (f \o g)[k] = f[k]) \/ \E i \in 1..Len(g) : (f \o g)[k] = g[i]
        <5>1. Len(f) \in Nat /\ Len(g) \in Nat /\ Len(f \o g) = Len(f) + Len(g)
          BY <4>2, LenProperties, ConcatProperties
        <5> SUFFICES ASSUME NEW k \in 1..Len(f \o g)
                     PROVE (k \in 1..Len(f) /\ (f \o g)[k] = f[k]) \/ \E i \in 1..Len(g) : (f \o g)[k] = g[i]
          OBVIOUS
        <5>2. (f \o g)[k] = IF k <= Len(f) THEN f[k] ELSE g[k - Len(f)]
          BY <4>2, <5>1, ConcatProperties
        <5>3. k <= Len(f) => k \in 1..Len(f)
          BY <5>1
        <5>4. ~(k <= Len(f)) => k - Len(f) \in 1..Len(g)
          BY <5>1
        <5> QED BY <5>2, <5>3, <5>4
      <4> QED BY <2>2, <4>1, <4>3
    <3> QED BY <1>3, <2>1, <2>5, <3>1
  <2> QED BY <1>0, <1>2, <1>3, <2>1, <2>6 DEF ResolveInv, Ordinary, Requesting
<1>7. CASE Another
  <2>1. /\ stage = "another" /\ UNCHANGED <<todo, memory>>
        /\ stage' = "browse" \/ (stage' = "write" /\ rows' = todo.found)
    BY <1>7 DEF Another, Go
  <2>2. stage' = "write" => \A k \in 1..Len(rows') : SolvedBy(answers', env'.now, Id(rows'[k]))
    BY <1>3, <2>1
  <2> QED BY <1>0, <1>2, <1>3, <2>1, <2>2 DEF ResolveInv, Ordinary, Requesting
<1>8. CASE Write
  <2>1. /\ stage = "write" /\ UNCHANGED <<todo, rows>>
        /\ \/ stage' = "refused" /\ UNCHANGED memory
           \/ stage' = "done" /\ AllOf(memory'.project) \subseteq Ids(rows)
    BY <1>8, Written
  <2>2. \A k \in 1..Len(rows) : SolvedBy(answers', env'.now, Id(rows[k]))
    BY <1>1, <2>1 DEF ResolveInv
  <2>3. memory'.created => \A id \in AllOf(memory'.project) : SolvedBy(answers', env'.now, id)
    BY <1>3, <2>1, <2>2 DEF Ids
  <2> QED BY <1>0, <1>2, <1>3, <2>1, <2>3 DEF ResolveInv, Ordinary, Requesting
<1> QED BY <1>4, <1>5, <1>6, <1>7, <1>8

\* Planning and sending, and the world: no row changes.
LEMMA RequestStep ==
  ASSUME Types, Types', FlowInv, AnswersInv, ResolveInv, [Next]_vars,
         UNCHANGED <<opt, todo, rows>>, memory'.project = memory.project, memory'.created = memory.created,
         \/ UNCHANGED <<stage, model>>
         \/ stage \in {"plan", "looking", "justify", "confirm", "submit"} /\ stage' \in Requesting \union {"refused"}
  PROVE  ResolveInv'
<1>0. /\ Project' = Project /\ Setup' = Setup /\ Ordinary' = Ordinary /\ Narrows' = Narrows /\ opt.mode \in Modes
  BY OptStep DEF Types, OptType, Narrows
<1>1. /\ \A r : AnsweredBy(answers, r) => AnsweredBy(answers', r)
      /\ \A r, project, narrows : VouchedBy(answers, env.now, project, narrows, r)
                                    => VouchedBy(answers', env'.now, project, narrows, r)
      /\ \A r : SureBy(answers, env.now, r) => SureBy(answers', env'.now, r)
      /\ \A id : SolvedBy(answers, env.now, id) => SolvedBy(answers', env'.now, id)
  BY SaidStep
<1>2. CASE UNCHANGED <<stage, model>>
  BY <1>0, <1>1, <1>2 DEF ResolveInv
<1>3. CASE stage \in {"plan", "looking", "justify", "confirm", "submit"} /\ stage' \in Requesting \union {"refused"}
  <2>1. ~Setup
    BY <1>0, <1>3 DEF FlowInv, Way, Setup, Project, Requesting
  <2> QED BY <1>0, <1>1, <1>3, <2>1 DEF ResolveInv, Requesting
<1> QED BY <1>2, <1>3

\* Every step keeps the rows what ARM answered.
LEMMA ResolveStep ==
  ASSUME Types, Types', FlowInv, AnswersInv, AnswersInv', SelectInv, ResolveInv, [Next]_vars
  PROVE  ResolveInv'
<1>1. CASE CheckFlags \/ Open \/ Offer \/ Browse \/ Press \/ Take
  BY <1>1, PickingStep
<1>2. CASE ReadEligibilities \/ ResolveSaved \/ ChooseRows \/ ChooseTarget \/ Narrow
  BY <1>2, OrdinaryStep
<1>3. CASE ResolveNeed \/ Resolved \/ Verify
  BY <1>3, NeedStep
<1>4. CASE ReadScope \/ FilterRows \/ CheckPicked \/ Another \/ Write
  BY <1>4, SetupStep
<1>5. CASE BeginPlan \/ EndPlan \/ Justify \/ Confirm
  <2>1. /\ UNCHANGED <<opt, todo, rows, memory>>
        /\ stage \in {"plan", "looking", "justify", "confirm", "submit"} /\ stage' \in Requesting \union {"refused"}
    BY <1>5 DEF BeginPlan, EndPlan, Justify, Confirm, Go, Refused, Requesting
  <2> QED BY <2>1, RequestStep
<1>6. CASE Remember
  <2>1. /\ UNCHANGED <<opt, todo, rows>> /\ memory'.project = memory.project /\ memory'.created = memory.created
        /\ stage = "submit" /\ stage' \in Requesting
    BY <1>6, Remembered DEF Requesting
  <2> QED BY <2>1, RequestStep
<1>7. CASE (\E i \in Items : LookUp(i) \/ Submit(i)) \/ Tick \/ Regrant \/ Interrupt \/ Finished \/ UNCHANGED vars
  <2>1. UNCHANGED <<opt, todo, rows, memory, stage, model>>
    BY <1>7 DEF LookUp, Submit, Tick, Regrant, Interrupt, Finished, vars
  <2> QED BY <2>1, RequestStep
<1> QED BY <1>1, <1>2, <1>3, <1>4, <1>5, <1>6, <1>7 DEF Next

-----------------------------------------------------------------------------
(* Nothing is requested or written that ARM has not resolved.               *)

ResolvedInv == AnswersInv /\ PolicyInv /\ ResolveInv

\* The command starts with what an earlier one was answered.
LEMMA ResolvedInit == Init => ResolvedInv
BY AnswersInit, PolicyInit, ResolveInit DEF ResolvedInv

\* Every step keeps the caches, the policies and the rows what ARM answered.
LEMMA ResolvedStep == Types /\ ConsentInv /\ ResolvedInv /\ [Next]_vars => ResolvedInv'
<1> SUFFICES ASSUME Types, ConsentInv, ResolvedInv, [Next]_vars PROVE ResolvedInv'
  OBVIOUS
<1>1. Types'
  BY TypeStep
<1>2. FlowInv /\ PlanInv /\ SelectInv /\ AnswersInv /\ PolicyInv /\ ResolveInv
  BY DEF ConsentInv, ResolvedInv
<1>3. AnswersInv'
  BY <1>1, <1>2, AnswersStep
<1>4. PolicyInv'
  BY <1>1, <1>2, PolicyStep
<1>5. ResolveInv'
  BY <1>1, <1>2, <1>3, ResolveStep
<1> QED BY <1>3, <1>4, <1>5 DEF ResolvedInv

\* So nothing that was sent or written is unresolved.
LEMMA AllResolved ==
  ASSUME Types, ConsentInv, ResolvedInv
  PROVE  NothingUnresolved
<1> SUFFICES ASSUME stage = "done"
             PROVE  LET sent == Sent
                        ids  == {Id(plan[i].row) : i \in Items}
                    IN  /\ \A i \in sent :
                             LET item == plan[i]
                                 key  == PolicyKey(item.row)
                             IN  /\ Vouched(item.row)
                                 /\ item.policy # RoleSettings(key) => ~opt.refresh /\ item.policy = OldPolicyAt[key]
                                 /\ item.hours <= item.policy.max /\ (item.policy.ticket => consent.ticket)
                        /\ sent # {} =>
                             /\ Project => ids = AllOf(Requirements)
                             /\ Narrows => /\ ids = {<<id[1], opt.at>> : id \in consent.selected}
                                           /\ \A i \in Items : plan[i].row.sched \in consent.sources
                        /\ memory.created => \A id \in AllOf(memory.project) :
                             \E a \in answers, s \in AllOf(Schedules) : a[1] = id[2] /\ Singles(a[2], s, id[1], id[2])
  BY DEF NothingUnresolved
<1>1. ASSUME NEW i \in Sent
      PROVE  /\ Vouched(plan[i].row)
             /\ plan[i].policy # RoleSettings(PolicyKey(plan[i].row)) =>
                  ~opt.refresh /\ plan[i].policy = OldPolicyAt[PolicyKey(plan[i].row)]
             /\ plan[i].hours <= plan[i].policy.max /\ (plan[i].policy.ticket => consent.ticket)
  <2>1. ~Setup /\ i \in Items /\ i \in 1..Len(rows) /\ plan[i].row = rows[i]
    BY SentRows
  <2>2. Settles(plan[i], opt.refresh, consent.ticket)
    BY <2>1 DEF ResolvedInv, PolicyInv
  <2>3. /\ plan[i].policy # NoPolicy /\ (plan[i].policy.ticket => consent.ticket)
        /\ plan[i].policy # RoleSettings(PolicyKey(plan[i].row)) =>
             ~opt.refresh /\ plan[i].policy = OldPolicyAt[PolicyKey(plan[i].row)]
    BY <2>2 DEF Settles, Sent
  <2>4. plan[i].hours <= plan[i].policy.max
    <3>1. plan[i].hours \in 1..plan[i].policy.max
      BY <2>1, <2>3 DEF Types, PlanType, Items
    <3>2. plan[i].policy \in Policies
      BY <2>1, ItemType DEF Types, ItemSet
    <3> QED BY <3>1, <3>2 DEF Policies, NoPolicy
  <2>5. VouchedBy(answers, env.now, Project, Narrows, rows[i])
    BY <2>1 DEF ResolvedInv, ResolveInv, Requesting
  <2>6. Vouched(rows[i])
    BY <2>5 DEF VouchedBy, Vouched, Clear, Singles
  <2> QED BY <2>1, <2>3, <2>4, <2>6
<1>2. ASSUME Sent # {}
      PROVE  /\ Project => {Id(plan[i].row) : i \in Items} = AllOf(Requirements)
             /\ Narrows => /\ {Id(plan[i].row) : i \in Items} = {<<id[1], opt.at>> : id \in consent.selected}
                           /\ \A i \in Items : plan[i].row.sched \in consent.sources
  <2>1. PICK i : i \in Sent
    BY <1>2
  <2>2. ~Setup /\ Len(plan) = Len(rows)
    BY <2>1, SentRows
  <2>3. \A k \in Items : plan[k].row = rows[k]
    BY <2>2 DEF ConsentInv, PlanInv, Reported
  <2>4. {Id(plan[k].row) : k \in Items} = Ids(rows)
    BY <2>2, <2>3 DEF Items, Ids
  <2>5. Project => Ids(rows) = AllOf(Requirements)
    <3>1. Project => Len(rows) = Len(Requirements) /\ \A k \in 1..Len(rows) : Id(rows[k]) = Requirements[k]
      BY DEF ConsentInv, SelectInv, Requesting
    <3> QED BY <3>1 DEF Ids, AllOf
  <2>6. Narrows => Ids(rows) = {<<id[1], opt.at>> : id \in consent.selected}
    <3>1. Narrows => Ordinary
      BY <2>2 DEF ConsentInv, FlowInv, Ordinary
    <3>2. Ordinary => Ids(rows) = Wanted
      BY DEF ConsentInv, SelectInv, Requesting
    <3> QED BY <3>1, <3>2 DEF Wanted
  <2>7. Narrows => \A k \in Items : plan[k].row.sched \in consent.sources
    <3>1. Narrows => Ordinary
      BY <2>2 DEF ConsentInv, FlowInv, Ordinary
    <3>2. Ordinary => \A k \in 1..Len(rows) : rows[k].sched \in consent.sources
      BY DEF ConsentInv, SourceInv, Requesting
    <3> QED BY <2>2, <2>3, <3>1, <3>2 DEF Items
  <2> QED BY <2>4, <2>5, <2>6, <2>7
<1>3. ASSUME memory.created, NEW id \in AllOf(memory.project)
      PROVE  \E a \in answers, s \in AllOf(Schedules) : a[1] = id[2] /\ Singles(a[2], s, id[1], id[2])
  <2>1. SolvedBy(answers, env.now, id)
    BY <1>3 DEF ResolvedInv, ResolveInv
  <2> QED BY <2>1 DEF SolvedBy, Grants, Clear, Singles
<1> QED BY <1>1, <1>2, <1>3

\* Whatever ARM holds and changes meanwhile, and whatever an earlier command left in
\* the caches, a request goes through a schedule ARM vouched for, under the policy of
\* the scope that grants it; a project and a narrowed selection are requested whole or
\* not at all, the latter through schedules that were selected; and a project file holds only what can be resolved (readProjectRows,
\* narrowRows, chooseScopedEligibility, buildPlan, initScopeRows).
THEOREM NothingIsUnresolved == Spec => []NothingUnresolved
<1>1. Types /\ ConsentInv /\ ResolvedInv => NothingUnresolved
  BY AllResolved
<1>2. Types /\ ConsentInv /\ ResolvedInv /\ [Next]_vars => ResolvedInv'
  BY ResolvedStep
<1> QED BY <1>1, <1>2, ResolvedInit, ConsentInvariant, PTL DEF Spec

=============================================================================
