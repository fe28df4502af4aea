------------------------------ MODULE Planning ------------------------------
(***************************************************************************)
(* What `pimctl up` asks ARM for, and what `pimctl init` writes: from the  *)
(* flags to the last request (internal/cli: activate.go, plan.go, row.go,  *)
(* scoped.go, select.go, project_up.go, init.go, init_scope.go,            *)
(* confirm.go, justification.go; internal/armclient/eligible_scope.go;     *)
(* internal/cache).  The command reads eligibilities, chooses rows from    *)
(* them by one of the selections, verifies narrower targets, plans each    *)
(* row under the policy of the scope that grants it, asks, and sends.      *)
(*                                                                         *)
(* One command, in one context; a second context may have failed.  What    *)
(* becomes of a request is Submission.tla's, and the listing of active     *)
(* roles Listing.tla's.  A definition marked MUTATION is the one below it  *)
(* with a mistake in it.                                                   *)
(***************************************************************************)
EXTENDS Picker

CONSTANTS
  Schedules,      \* eligibility schedules of the tenant, in the order ARM lists them
  GrantOf,        \* a schedule's role, scope, membership, condition, holder and end
  ScopeList,      \* the scopes of the tenant, as the setup browser offers them
  Above,          \* a scope and those that contain it
  NameOf,         \* a role's or a scope's name, in the picker's characters
  Worlds,         \* bound: sets of schedules there are at one time
  PolicyAt,       \* ARM's policy for a role at a granting scope: its effective rules and its document
  OldPolicyAt,    \* what an earlier command may have read from it
  Requirements,   \* the project file's roles and scopes
  TypedKeys,      \* bound: keys given, each the roles at scopes whose keys begin with it
  Presets,        \* saved selections
  Evidence,       \* bound: what a listing and a verification may say of a row
  Flags,          \* bound: a terminal or not, and the flags that stand for its questions
  Asked,          \* bound: durations, 0 when --for is not given, and whether there is a ticket
  ListingTTL, PolicyTTL,
  Leftovers,      \* bound: what was granted, and the time, when an earlier command wrote the caches
  Bulk,           \* confirmBulkThreshold
  MaxUnattended,  \* maxNonInteractive
  MaxTime, MaxChanges, MaxScopes  \* bounds: the clock, changes of grants, scopes browsed

VARIABLES
  opt,        \* the command and its flags
  stage,
  env,        \* the clock, what is granted, an interrupt
  files,      \* the caches
  todo,       \* the loop a stage runs: its position and what it has read and refused
  rows,       \* rows offered, then the rows selected
  plan,
  model,      \* the picker on screen
  memory,     \* the last justification, the saved preset, the project file
  consent,    \* the duration and ticket asked for, what was selected, justified and confirmed
  \* History, read by properties only:
  answers     \* for each scope, the eligibilities ARM returned there that the user lets pass

vars == <<opt, stage, env, files, todo, rows, plan, model, memory, consent, answers>>

Scopes == {ScopeList[i] : i \in 1..Len(ScopeList)}
AllOf(seq) == {seq[i] : i \in 1..Len(seq)}
Roles == {GrantOf[s].role : s \in AllOf(Schedules)}
Targets == Roles \X Scopes
NoPolicy == [max |-> 0, ticket |-> FALSE, reason |-> FALSE]
NoFile   == [there |-> FALSE, fetched |-> 0, roles |-> {}]
NoModel  == [end |-> "none"]
AnySchedule == "any"  \* no schedule is asked for
Nowhere     == "none" \* --at is not given

\* Of the tenant: a schedule has a name, every grant is at a scope, which reaches itself, and a policy has
\* a maximum of more than nothing, if any.
Policies == {p \in [max : Nat, ticket : BOOLEAN, reason : BOOLEAN] : p = NoPolicy \/ p.max > 0}
ASSUME TenantAssumption ==
  /\ Schedules \in Seq(AllOf(Schedules)) /\ AnySchedule \notin AllOf(Schedules)
  /\ ScopeList \in Seq(Scopes)
  /\ {"all", Nowhere} \intersect Scopes = {}
  /\ \A s \in AllOf(Schedules) :
       GrantOf[s].scope \in Scopes /\ GrantOf[s].direct \in BOOLEAN /\ GrantOf[s].until \in Int
  /\ \A s \in Scopes : s \in Above[s]
  /\ \A x \in Roles \union Scopes : NameOf[x] \in Seq(Chars)
  /\ \A k \in Targets :
       /\ OldPolicyAt[k] \in Policies \ {NoPolicy}
       /\ \A rules \in {PolicyAt[k].effective, PolicyAt[k].document} :
            "expiration" \in DOMAIN rules => rules.expiration \in Nat \ {0}

\* Of the input: the project file names no role twice at one scope (Validate), and
\* neither does a selection that pimctl saved.
ASSUME PlanningAssumption ==
  /\ Requirements \in Seq(Targets)
  /\ \A i, j \in 1..Len(Requirements) : Requirements[i] = Requirements[j] => i = j
  /\ Presets \subseteq Seq([role : Roles, target : Scopes, source : Scopes])
  /\ \A p \in Presets : \A i, j \in 1..Len(p) :
       <<p[i].role, p[i].target>> = <<p[j].role, p[j].target>> => i = j
  /\ TypedKeys \subseteq Seq(SUBSET Targets)
  /\ Worlds \subseteq SUBSET AllOf(Schedules)
  /\ \A left \in Leftovers : left[1] \subseteq AllOf(Schedules) /\ left[2] \in Int
  /\ Flags \subseteq [tty : BOOLEAN, yes : BOOLEAN, reason : BOOLEAN]
  /\ Asked \subseteq [hours : Nat, ticket : BOOLEAN]
  /\ Evidence \subseteq [active : BOOLEAN, confirmed : BOOLEAN, verified : BOOLEAN, from : Nat, until : Nat]
  /\ {ListingTTL, PolicyTTL, Bulk, MaxTime, MaxChanges, MaxScopes} \subseteq Nat

Modes == {"all", "names", "keys", "preset", "pick", "project", "init", "initPreset"}
Project == opt.mode = "project"
Setup   == opt.mode \in {"init", "initPreset"}
Narrows == opt.at # Nowhere

-----------------------------------------------------------------------------
(* Rows.                                                                   *)

\* targetedRow: the schedule that authorizes it, and the scope it is for.
NotHeld == [active |-> FALSE, confirmed |-> FALSE, verified |-> FALSE, from |-> 0, until |-> 0]
Row(s, target) == [sched |-> s, target |-> target, held |-> NotHeld]
Id(r) == <<GrantOf[r.sched].role, r.target>>
SourceScope(r) == GrantOf[r.sched].scope
PolicyKey(r) == <<GrantOf[r.sched].role, SourceScope(r)>>
Direct(r) == GrantOf[r.sched].direct

\* dedupeRows: one row per role and target, the first of a direct membership.
Dedupe(seq) ==
  LET firsts == InOrder({i \in 1..Len(seq) : \A j \in 1..(i - 1) : Id(seq[j]) # Id(seq[i])})
      same(i) == {j \in 1..Len(seq) : Id(seq[j]) = Id(seq[i])}
      best(i) == LET direct == {j \in same(i) : Direct(seq[j])}
                 IN  At(seq, IF direct # {} THEN direct ELSE same(i))[1]
  IN  [k \in 1..Len(firsts) |-> best(firsts[k])]

\* sortRows: rows of a set of schedules, each at its own scope or all at one.
RowsOf(set, at) ==
  LET listed == At(Schedules, {i \in 1..Len(Schedules) : Schedules[i] \in set})
  IN  [i \in 1..Len(listed) |-> Row(listed[i], IF at = Nowhere THEN GrantOf[listed[i]].scope ELSE at)]

Haystack(r) == NameOf[GrantOf[r.sched].role] \o NameOf[r.target]

\* selectByName: an exact role name wins over names that contain the filter.
SelectByName(seq, filter) ==
  LET name(i) == NameOf[GrantOf[seq[i].sched].role]
      exact   == {i \in 1..Len(seq) : name(i) = filter}
      within  == {i \in 1..Len(seq) : Contains(name(i), filter)}
  IN  At(seq, IF exact # {} THEN exact ELSE within)

\* selectByKeys: a typed key stands for the rows its characters begin the keys of.
Hits(seq, key) == {i \in 1..Len(seq) : Id(seq[i]) \in key}
SelectByKeys(seq, keys) ==
  LET hit(k) == CHOOSE i \in Hits(seq, keys[k]) : TRUE
      firsts == InOrder({k \in 1..Len(keys) : \A j \in 1..(k - 1) : hit(j) # hit(k)})
  IN  [n \in 1..Len(firsts) |-> seq[hit(firsts[n])]]

-----------------------------------------------------------------------------
(* Which eligibility a role at a scope is activated through.               *)

Mine(s) == GrantOf[s].mine

\* MUTATION: everybody's schedules at or above the scope.
EligibilitiesOfAnyone(scope) == {s \in env.grants : GrantOf[s].scope \in Above[scope]}

\* ListEligibilitiesAtScope: those at or above the scope that are also the caller's.
EligibilitiesAtScope(scope) ==
  {s \in env.grants : GrantOf[s].scope \in Above[scope] /\ Mine(s)}

EligibleAt(s, time) == GrantOf[s].until > time

\* MUTATION: conditions are not compared.
SameScope(s, o) == GrantOf[s].scope = GrantOf[o].scope
SameGrant(s, o) == GrantOf[s].scope = GrantOf[o].scope /\ GrantOf[s].condition = GrantOf[o].condition

\* preferSource: a direct membership, then the lower schedule id.
Rank(s) == CHOOSE i \in 1..Len(Schedules) : Schedules[i] = s
Preferred(s, o) == IF GrantOf[s].direct # GrantOf[o].direct THEN GrantOf[s].direct ELSE Rank(s) < Rank(o)

\* equivalentSources
Sources(cands) == {s \in cands : \A o \in cands \ {s} : SameGrant(s, o) => Preferred(s, o)}

\* MUTATION: the schedule asked for is not looked at.
ChooseAny(roles, role, target, schedule) ==
  LET cands == {s \in roles : GrantOf[s].role = role /\ EligibleAt(s, env.now)}
      exact == {s \in cands : GrantOf[s].scope = target}
  IN  Sources(IF exact # {} THEN exact ELSE cands)

\* chooseScopedEligibility: the sources left; one is an answer.
Choose(roles, role, target, schedule) ==
  LET cands == {s \in roles : /\ GrantOf[s].role = role /\ EligibleAt(s, env.now)
                              /\ schedule \in {AnySchedule, s}}
      exact == {s \in cands : GrantOf[s].scope = target}
  IN  Sources(IF exact # {} THEN exact ELSE cands)

Sole(set) == CHOOSE s \in set : TRUE

-----------------------------------------------------------------------------
(* The caches.                                                             *)

\* MUTATION: --refresh is forgotten.
UsableAnyway(f, life) == f.there /\ env.now - f.fetched \in 0..life

\* Read, ReadScoped, LookupPolicy: not under --refresh, not past its life, and
\* not stamped in the future.
Usable(f, life) == ~opt.refresh /\ f.there /\ env.now - f.fetched \in 0..life
Listing(roles) == [there |-> TRUE, fetched |-> env.now, roles |-> roles]

\* scopedEligibilities: from the cache or from ARM; a failure is neither an
\* empty answer nor a cached one.
Cached(scope) == Usable(files.scoped[scope], ListingTTL)
Told(scope) == IF Cached(scope) THEN files.scoped[scope].roles ELSE EligibilitiesAtScope(scope)
Reads(scope) ==
  IF Cached(scope) THEN UNCHANGED <<files, answers>>
  ELSE /\ ~env.interrupted
       /\ files' = [files EXCEPT !.scoped[scope] = Listing(Told(scope))]
       /\ answers' = answers \union {<<scope, Told(scope)>>}
ReadFails(scope) == ~Cached(scope) /\ UNCHANGED <<files, answers>>

-----------------------------------------------------------------------------
(* The command.                                                            *)

NoTodo    == [next |-> 1, failed |-> FALSE, read |-> [s \in {} |-> {}], found |-> <<>>]
NoConsent == [hours |-> 0, ticket |-> FALSE, reason |-> "none", prompted |-> FALSE,
              confirmed |-> 0, selected |-> {}, sources |-> {}]

\* What an earlier command left in the caches.
Earlier(before, at) ==
  LET granted(s) == {g \in before : GrantOf[g].scope \in Above[s] /\ Mine(g)}
      file(set)  == [there |-> TRUE, fetched |-> at, roles |-> set]
  IN  /\ files = [listing  |-> file({g \in before : Mine(g)}),
                  scoped   |-> [s \in Scopes |-> file(granted(s))],
                  policies |-> [k \in Targets |-> [there |-> TRUE, fetched |-> at, policy |-> OldPolicyAt[k]]]]
      /\ answers = IF opt.refresh THEN {}
                   ELSE {<<"all", {g \in before : Mine(g)}>>} \union {<<s, granted(s)>> : s \in Scopes}

Init ==
  /\ \E mode \in Modes, f \in Flags, refresh \in BOOLEAN :
       opt = [mode |-> mode, tty |-> f.tty, yes |-> f.yes, reason |-> f.reason, refresh |-> refresh, at |-> Nowhere]
  /\ Setup => ~opt.yes /\ ~opt.reason
  /\ stage = "flags"
  /\ \E grants \in Worlds : env = [now |-> 0, grants |-> grants, changes |-> 0, interrupted |-> FALSE]
  /\ \/ /\ ~opt.refresh /\ answers = {}
        /\ files = [listing |-> NoFile, scoped |-> [s \in Scopes |-> NoFile],
                    policies |-> [k \in Targets |-> [there |-> FALSE, fetched |-> 0, policy |-> NoPolicy]]]
     \/ \E left \in Leftovers : Earlier(left[1], left[2])
  /\ todo = NoTodo /\ rows = <<>> /\ plan = <<>> /\ model = NoModel /\ consent = NoConsent
  /\ \E preset \in IF opt.mode \in {"preset", "initPreset"} THEN Presets ELSE {<<>>} :
       memory = [reason |-> "earlier", preset |-> preset, project |-> Requirements, created |-> FALSE]

Go(next) == stage' = next
Refused  == stage' = "refused"
Restart(failed) == todo' = [NoTodo EXCEPT !.failed = failed]

\* checkActivateFlags, checkInit: what cannot work is refused before ARM is asked.
CheckFlags ==
  /\ stage = "flags"
  /\ IF ~opt.tty /\ ~Setup /\ (opt.mode = "pick" \/ ~opt.yes \/ ~opt.reason) THEN Refused ELSE Go("open")
  /\ UNCHANGED <<opt, env, files, todo, rows, plan, model, memory, consent, answers>>

\* prepare and projectSession: a project takes one login, in its own tenant.
Open ==
  /\ stage = "open"
  /\ \E failures, tenant \in BOOLEAN :
       /\ todo' = [todo EXCEPT !.failed = failures]
       /\ IF Project \/ Setup
            THEN IF failures \/ (Project /\ ~tenant) THEN Refused
                 ELSE Go(IF opt.mode = "init" THEN "browse" ELSE "resolve")
            ELSE tenant /\ Go("read")
  /\ UNCHANGED <<opt, env, files, rows, plan, model, memory, consent, answers>>

-----------------------------------------------------------------------------
(* Ordinary selection.                                                     *)

Offers(set) ==
  LET found == Dedupe(RowsOf(set, Nowhere))
  IN  /\ rows' = found
      /\ IF found = <<>> THEN Refused
         ELSE Go(CASE opt.mode = "preset" -> "saved" [] opt.mode = "pick" -> "offer" [] OTHER -> "choose")

\* readEligibilityRows
ReadEligibilities ==
  /\ stage = "read"
  /\ LET live == {s \in env.grants : Mine(s)}
     IN  IF Usable(files.listing, ListingTTL)
           THEN Offers(files.listing.roles) /\ UNCHANGED <<files, answers>>
         ELSE \/ /\ ~env.interrupted /\ Offers(live)
                 /\ files' = [files EXCEPT !.listing = Listing(live)]
                 /\ answers' = answers \union {<<"all", live>>}
              \/ Refused /\ UNCHANGED <<rows, files, answers>>
  /\ UNCHANGED <<opt, env, todo, plan, model, memory, consent>>

\* resolveNarrowedPreset: a saved target below its granting scope is verified again.
ResolveSaved ==
  /\ stage = "saved" /\ todo.next <= Len(memory.preset)
  /\ LET e == memory.preset[todo.next]
         sources == {s \in Told(e.target) : GrantOf[s].scope = e.source}
         chosen  == Choose(sources, e.role, e.target, AnySchedule)
     IN  \/ /\ e.source = e.target
            /\ todo' = [todo EXCEPT !.next = @ + 1]
            /\ UNCHANGED <<stage, rows, files, answers>>
         \/ /\ e.source # e.target /\ Reads(e.target)
            /\ IF Cardinality(chosen) = 1
                 THEN /\ rows' = Append(rows, Row(Sole(chosen), e.target))
                      /\ todo' = [todo EXCEPT !.next = @ + 1] /\ UNCHANGED stage
                 ELSE Refused /\ UNCHANGED <<rows, todo>>
         \/ /\ e.source # e.target /\ ReadFails(e.target)
            /\ Refused /\ UNCHANGED <<rows, todo>>
  /\ UNCHANGED <<opt, env, plan, model, memory, consent>>

\* The rows the user chose, by what they said they wanted.
Selects(chosen) ==
  /\ rows' = chosen
  /\ consent' = [consent EXCEPT !.selected = {Id(r) : r \in AllOf(chosen)},
                                !.sources = {r.sched : r \in AllOf(chosen)}]
  /\ IF chosen = <<>> THEN Refused ELSE Go("target")

\* applyPreset: an entry takes the last of the rows it names, if there is one.
SavedRows ==
  LET of(e) == {i \in 1..Len(rows) : Id(rows[i]) = <<e.role, e.target>>}
      left  == At(memory.preset, {k \in 1..Len(memory.preset) : of(memory.preset[k]) # {}})
  IN  [k \in 1..Len(left) |-> rows[CHOOSE i \in of(left[k]) : \A j \in of(left[k]) : j <= i]]

\* selectRows, chooseRows
ChooseRows ==
  /\ stage \in {"choose", "saved"} /\ (stage = "saved" => todo.next > Len(memory.preset))
  /\ \/ opt.mode = "all" /\ Selects(rows)
     \/ opt.mode = "preset" /\ Selects(SavedRows)
     \/ /\ opt.mode = "names"
        /\ \E role \in Roles, c \in Chars, force \in BOOLEAN :
             \E filter \in {NameOf[role], <<c>>} :
               LET named == SelectByName(rows, filter)
               IN  IF Len(named) > MaxUnattended /\ ~force
                     THEN Refused /\ UNCHANGED <<rows, consent>>
                     ELSE Selects(named)
     \/ /\ opt.mode = "keys"
        /\ \E keys \in TypedKeys :
             IF \E k \in 1..Len(keys) : Cardinality(Hits(rows, keys[k])) # 1
               THEN Refused /\ UNCHANGED <<rows, consent>>
               ELSE Selects(SelectByKeys(rows, keys))
  /\ Restart(todo.failed)
  /\ UNCHANGED <<opt, env, files, plan, model, memory, answers>>

\* --at
ChooseTarget ==
  /\ stage = "target"
  /\ \E at \in {Nowhere} \union Scopes :
       /\ at # Nowhere => opt.mode # "all"
       /\ opt' = [opt EXCEPT !.at = at]
       /\ IF at = Nowhere THEN Go("plan") ELSE IF todo.failed THEN Refused ELSE Go("narrow")
  /\ UNCHANGED <<env, files, todo, rows, plan, model, memory, consent, answers>>

\* MUTATION: a role selected twice stays twice.
NarrowedAll == todo.found
Narrowed == Dedupe(todo.found)

\* narrowRows: the schedule that was selected, if it reaches the target; one that
\* does not refuses the whole selection.
Narrow ==
  /\ stage = "narrow"
  /\ IF todo.next > Len(rows)
       THEN rows' = Narrowed /\ Go("plan") /\ UNCHANGED <<todo, files, answers>>
       ELSE LET r == rows[todo.next]
                chosen == Choose(Told(opt.at), GrantOf[r.sched].role, opt.at, r.sched)
            IN  /\ UNCHANGED rows
                /\ \/ /\ Reads(opt.at)
                      /\ IF Cardinality(chosen) = 1
                           THEN /\ todo' = [todo EXCEPT !.next = @ + 1,
                                                        !.found = Append(@, Row(Sole(chosen), opt.at))]
                                /\ UNCHANGED stage
                           ELSE Refused /\ UNCHANGED todo
                   \/ ReadFails(opt.at) /\ Refused /\ UNCHANGED todo
  /\ UNCHANGED <<opt, env, plan, model, memory, consent>>

-----------------------------------------------------------------------------
(* The picker.                                                             *)

Offer ==
  /\ stage = "offer" /\ opt.tty
  /\ model' = NewModel([i \in 1..Len(rows) |-> Haystack(rows[i])], FALSE) /\ Go("picking")
  /\ UNCHANGED <<opt, env, files, todo, rows, plan, memory, consent, answers>>

\* browseInitScope: the walk through the scopes ends at one of them.
Browse ==
  /\ stage = "browse"
  /\ IF opt.tty
       THEN model' = NewModel([i \in 1..Len(ScopeList) |-> NameOf[ScopeList[i]]], TRUE)
            /\ Go("picking") /\ rows' = <<>> /\ UNCHANGED opt
       ELSE \E scope \in Scopes :  \* --at
              opt' = [opt EXCEPT !.at = scope] /\ Go("scope") /\ UNCHANGED <<rows, model>>
  /\ UNCHANGED <<env, files, todo, plan, memory, consent, answers>>

Press ==
  /\ stage = "picking" /\ model.end = "open"
  /\ \/ \E key \in Keys : /\ key \in Chars => Len(model.filter) < MaxFilter
                          /\ model' = Update(model, key)
     \/ \E height \in Terminals : model' = Resize(model, height)
  /\ UNCHANGED <<opt, stage, env, files, todo, rows, plan, memory, consent, answers>>

\* The rows picked, and what the picker had drawn as selected.
Take ==
  /\ stage = "picking" /\ model.end # "open"
  /\ LET taken == At(rows, {i \in 1..Len(rows) : i \in Picked(model)})
     IN  CASE model.end = "aborted" -> Refused /\ UNCHANGED <<opt, rows, consent>>
           [] model.end = "confirmed" /\ model.single ->
                /\ opt' = [opt EXCEPT !.at = ScopeList[Sole(Picked(model))]]
                /\ Go("scope") /\ UNCHANGED <<rows, consent>>
           [] OTHER ->
                /\ rows' = taken
                /\ consent' = [consent EXCEPT !.selected = {Id(rows[i]) : i \in model.selected},
                                              !.sources = {rows[i].sched : i \in model.selected}]
                /\ IF taken = <<>> THEN Refused ELSE Go(IF Setup THEN "check" ELSE "target")
                /\ UNCHANGED opt
  /\ model' = NoModel
  /\ UNCHANGED <<env, files, todo, plan, memory, answers>>

-----------------------------------------------------------------------------
(* Projects.                                                               *)

Needs == IF Project THEN memory.project
         ELSE [i \in 1..Len(memory.preset) |-> <<memory.preset[i].role, memory.preset[i].target>>]

\* MUTATION: what cannot be resolved is left out.
PassedOver(failed) == FALSE
Noted(failed) == failed

\* readProjectRows: every requirement is looked at, each scope read once, and
\* one that cannot be resolved prevents all.
ResolveNeed ==
  /\ stage = "resolve" /\ todo.next <= Len(Needs)
  /\ LET role  == Needs[todo.next][1]
         scope == Needs[todo.next][2]
         known == scope \in DOMAIN todo.read
         roles == IF known THEN todo.read[scope] ELSE Told(scope)
         chosen == Choose(roles, role, scope, AnySchedule)
     IN  \/ /\ IF known THEN UNCHANGED <<files, answers>> ELSE Reads(scope)
            /\ todo' = [todo EXCEPT !.next = @ + 1,
                                    !.read = [s \in DOMAIN @ \union {scope} |-> IF s = scope THEN roles ELSE @[s]],
                                    !.failed = Noted(@ \/ Cardinality(chosen) # 1),
                                    !.found = IF Cardinality(chosen) # 1 THEN @
                                              ELSE Append(@, Row(Sole(chosen), scope))]
         \/ /\ ~known /\ ReadFails(scope)
            /\ todo' = [todo EXCEPT !.next = @ + 1, !.failed = Noted(TRUE)]
  /\ UNCHANGED <<opt, stage, env, rows, plan, model, memory, consent>>

Resolved ==
  /\ stage = "resolve" /\ todo.next > Len(Needs)
  /\ rows' = todo.found
  /\ IF todo.failed THEN Refused ELSE Go(IF Project THEN "verify" ELSE "write")
  /\ UNCHANGED <<opt, env, files, todo, plan, model, memory, consent, answers>>

\* runProjectActivation waits for the listing, and has the record's doubtful
\* entries verified.
Verify ==
  /\ stage = "verify"
  /\ \E said \in [1..Len(rows) -> Evidence] :
       rows' = [i \in 1..Len(rows) |-> [rows[i] EXCEPT !.held = said[i]]]
  /\ IF env.interrupted THEN Refused ELSE Go("plan")
  /\ UNCHANGED <<opt, env, files, todo, plan, model, memory, consent, answers>>

Current(held) == held.from <= env.now /\ held.until > env.now
ProjectAlreadyHeld(r) == r.held.active /\ (r.held.confirmed \/ r.held.verified) /\ Current(r.held)

-----------------------------------------------------------------------------
(* The plan.                                                               *)

\* MUTATION: the request as it is.
Unclamped(requested, max) == requested
ResolveDuration(requested, max) ==
  IF max <= 0 THEN requested ELSE IF requested <= 0 THEN max ELSE AtMost(requested, max)

\* buildProjectPlan: a window in force is kept; anything else is planned.
BeginPlan ==
  /\ stage = "plan"
  /\ \E asked \in Asked :
       consent' = [consent EXCEPT !.hours = asked.hours, !.ticket = asked.ticket]
  /\ plan' = [i \in 1..Len(rows) |->
                LET keep == Project /\ ProjectAlreadyHeld(rows[i])
                IN  [row |-> rows[i], keep |-> keep, looked |-> keep, fresh |-> FALSE,
                     policy |-> NoPolicy, hours |-> 0, error |-> FALSE, out |-> "none"]]
  /\ Go("looking")
  /\ UNCHANGED <<opt, env, files, todo, rows, model, memory, answers>>

\* parseRules: a policy without a maximum is none.
ParseRules(rules) ==
  IF "expiration" \notin DOMAIN rules THEN NoPolicy
  ELSE LET requires(rule) == "enablement" \in DOMAIN rules /\ rule \in rules.enablement
       IN  [max |-> rules.expiration, ticket |-> requires("Ticketing"), reason |-> requires("Justification")]

\* GetRoleSettings: the document is read when the listing's rules are no policy.
RoleSettings(key) ==
  LET effective == ParseRules(PolicyAt[key].effective)
  IN  IF effective # NoPolicy THEN effective ELSE ParseRules(PolicyAt[key].document)

Settled(item, policy, fresh) ==
  [item EXCEPT !.looked = TRUE, !.fresh = fresh, !.policy = policy,
               !.hours = ResolveDuration(consent.hours, policy.max),
               !.error = policy.ticket /\ ~consent.ticket]

\* buildPlan: the policy of the scope that grants the role, in any order.
LookUp(i) ==
  /\ stage = "looking" /\ ~plan[i].looked
  /\ LET key  == PolicyKey(plan[i].row)
         file == files.policies[key]
     IN  IF Usable(file, PolicyTTL) THEN plan' = [plan EXCEPT ![i] = Settled(@, file.policy, FALSE)]
         ELSE \/ /\ ~env.interrupted /\ RoleSettings(key) # NoPolicy
                 /\ plan' = [plan EXCEPT ![i] = Settled(@, RoleSettings(key), TRUE)]
              \/ plan' = [plan EXCEPT ![i] = [@ EXCEPT !.looked = TRUE, !.error = TRUE]]
  /\ UNCHANGED <<opt, stage, env, files, todo, rows, model, memory, consent, answers>>

Items == 1..Len(plan)

\* StorePolicies, and projectPlanError
EndPlan ==
  /\ stage = "looking" /\ \A i \in Items : plan[i].looked
  /\ files' = [files EXCEPT !.policies = [k \in Targets |->
                 IF \E i \in Items : plan[i].fresh /\ PolicyKey(plan[i].row) = k
                   THEN [there |-> TRUE, fetched |-> env.now, policy |-> RoleSettings(k)] ELSE @[k]]]
  /\ IF Project /\ \E i \in Items : plan[i].error THEN Refused ELSE Go("justify")
  /\ UNCHANGED <<opt, env, todo, rows, plan, model, memory, consent, answers>>

\* resolveJustification: the prompt is prefilled with the last one.
Justify ==
  /\ stage = "justify"
  /\ LET asked == /\ ~opt.reason /\ opt.tty /\ (opt.mode = "pick" \/ Project)
                  /\ \E i \in Items : plan[i].policy.reason
     IN  \/ /\ ~asked
            /\ consent' = [consent EXCEPT !.reason = IF opt.reason THEN "flag" ELSE "default"]
            /\ Go("confirm")
         \/ /\ asked
            /\ \E typed \in {memory.reason, "typed", "default"} :
                 consent' = [consent EXCEPT !.reason = typed, !.prompted = TRUE]
            /\ Go("confirm")
         \/ asked /\ Refused /\ UNCHANGED consent
  /\ UNCHANGED <<opt, env, files, todo, rows, plan, model, memory, answers>>

\* activationSubmissionCount
Submissions == Cardinality({i \in Items : ~plan[i].keep})

\* confirmPlanWith
Confirm ==
  /\ stage = "confirm"
  /\ IF opt.yes \/ opt.mode = "pick" \/ (opt.mode # "all" /\ Submissions <= Bulk)
       THEN Go("submit") /\ UNCHANGED consent
     ELSE IF ~opt.tty THEN Refused /\ UNCHANGED consent
     ELSE \/ Go("submit") /\ consent' = [consent EXCEPT !.confirmed = Submissions]
          \/ Refused /\ UNCHANGED consent
  /\ UNCHANGED <<opt, env, files, todo, rows, plan, model, memory, answers>>

\* MUTATION: what was current when it was planned.
PreservedUnchecked(i) == "kept"
\* preservedActivationResult: the window is looked at again.
Preserved(i) == IF Current(plan[i].row.held) THEN "kept" ELSE "expired"

\* activateOne: what was found wrong with the role comes before the interrupt.
\* A rejection by policy drops the cached one.
Submit(i) ==
  /\ stage = "submit" /\ plan[i].out = "none"
  /\ LET item == plan[i]
         key  == PolicyKey(item.row)
         Out(o) == plan' = [plan EXCEPT ![i].out = o]
     IN  IF item.keep THEN Out(Preserved(i)) /\ UNCHANGED files
         ELSE IF item.error THEN Out("failed") /\ UNCHANGED files
         ELSE IF env.interrupted THEN Out("skipped") /\ UNCHANGED files
         ELSE \/ Out("sent") /\ UNCHANGED files
              \/ Out("rejected") /\ files' = [files EXCEPT !.policies[key].there = FALSE]
  /\ UNCHANGED <<opt, stage, env, todo, rows, model, memory, consent, answers>>

\* rememberActivateRun, which warns when it cannot.
Remember ==
  /\ stage = "submit" /\ \A i \in Items : plan[i].out # "none"
  /\ memory' \in {memory,
       [memory EXCEPT !.reason = IF \A i \in Items : plan[i].keep THEN @ ELSE consent.reason],
       [memory EXCEPT !.reason = IF \A i \in Items : plan[i].keep THEN @ ELSE consent.reason,
                      !.preset = [i \in 1..Len(rows) |->
                        [role |-> Id(rows[i])[1], target |-> rows[i].target, source |-> SourceScope(rows[i])]]]}
  /\ Go("done")
  /\ UNCHANGED <<opt, env, files, todo, rows, plan, model, consent, answers>>

-----------------------------------------------------------------------------
(* `pimctl init`.                                                          *)

\* initScopeRows: what is eligible at the scope now, to pick from.
ReadScope ==
  /\ stage = "scope"
  /\ \/ /\ Reads(opt.at)
        /\ LET offered == Dedupe(RowsOf({s \in Told(opt.at) : EligibleAt(s, env.now)}, opt.at))
           IN  /\ rows' = offered
               /\ IF offered = <<>> THEN Refused ELSE Go("offer")
        /\ todo' = [todo EXCEPT !.read = [s \in {opt.at} |-> Told(opt.at)]]
     \/ ReadFails(opt.at) /\ Refused /\ UNCHANGED <<rows, todo>>
  /\ UNCHANGED <<opt, env, plan, model, memory, consent>>

\* filterInitRows, for --at with --role: a filter that matches nothing refuses.
FilterRows ==
  /\ stage = "offer" /\ Setup
  /\ \E filters \in (SUBSET Roles) \ {{}} :
       LET matched == {i \in 1..Len(rows) :
                         \E role \in filters : rows[i] \in AllOf(SelectByName(rows, NameOf[role]))}
       IN  IF \E role \in filters : SelectByName(rows, NameOf[role]) = <<>>
             THEN Refused /\ UNCHANGED <<rows, consent>>
             ELSE /\ rows' = Dedupe(At(rows, matched)) /\ Go("check")
                  /\ UNCHANGED consent
  /\ UNCHANGED <<opt, env, files, todo, plan, model, memory, answers>>

\* MUTATION: the row that was picked is the role.
PickedIsSole(r) == TRUE
\* A role is written only if anybody with the same grants could resolve it.
Replayable(r) == Cardinality(Choose(todo.read[opt.at], Id(r)[1], opt.at, AnySchedule)) = 1

CheckPicked ==
  /\ stage = "check"
  /\ todo' = [todo EXCEPT !.found = @ \o rows, !.next = @ + 1]
  /\ IF \A r \in AllOf(rows) : Replayable(r) THEN Go("another") ELSE Refused
  /\ UNCHANGED <<opt, env, files, rows, plan, model, memory, consent, answers>>

Another ==
  /\ stage = "another"
  /\ \/ todo.next <= MaxScopes /\ Go("browse") /\ UNCHANGED rows
     \/ Go("write") /\ rows' = todo.found
  /\ UNCHANGED <<opt, env, files, todo, plan, model, memory, consent, answers>>

\* createProjectExclusive: never over a file that is there.
Write ==
  /\ stage = "write"
  /\ \/ /\ LET roles == Dedupe(rows)
           IN  memory' = [memory EXCEPT !.project = [i \in 1..Len(roles) |-> Id(roles[i])], !.created = TRUE]
        /\ Go("done")
     \/ Refused /\ UNCHANGED memory
  /\ UNCHANGED <<opt, env, files, todo, rows, plan, model, consent, answers>>

-----------------------------------------------------------------------------
(* The world around it.                                                    *)

Over == stage \in {"done", "refused"}

\* The stages that look at the clock or at the interrupt.  What happens to either
\* in another stage, over a prompt as well, is what happens at the next of these.
Reading == {"read", "saved", "narrow", "resolve", "scope", "check", "verify", "looking", "submit"}

\* external: time passes
Tick ==
  /\ stage \in Reading /\ env.now < MaxTime
  /\ env' = [env EXCEPT !.now = @ + 1]
  /\ UNCHANGED <<opt, stage, files, todo, rows, plan, model, memory, consent, answers>>

\* external: an administrator changes what is granted, while it is being read
Regrant ==
  /\ stage \in {"saved", "narrow", "resolve", "scope"} /\ env.changes < MaxChanges
  /\ \E grants \in Worlds \ {env.grants} :
       env' = [env EXCEPT !.grants = grants, !.changes = @ + 1]
  /\ UNCHANGED <<opt, stage, files, todo, rows, plan, model, memory, consent, answers>>

Interrupt ==
  /\ stage \in Reading /\ ~env.interrupted
  /\ env' = [env EXCEPT !.interrupted = TRUE]
  /\ UNCHANGED <<opt, stage, files, todo, rows, plan, model, memory, consent, answers>>

Finished == Over /\ UNCHANGED vars

Next ==
  \/ CheckFlags \/ Open
  \/ ReadEligibilities \/ ResolveSaved \/ ChooseRows \/ ChooseTarget \/ Narrow
  \/ Offer \/ Browse \/ Press \/ Take
  \/ ResolveNeed \/ Resolved \/ Verify
  \/ BeginPlan \/ EndPlan \/ Justify \/ Confirm \/ Remember
  \/ \E i \in Items : LookUp(i) \/ Submit(i)
  \/ ReadScope \/ FilterRows \/ CheckPicked \/ Another \/ Write
  \/ Tick \/ Regrant \/ Interrupt \/ Finished

Spec == Init /\ [][Next]_vars

-----------------------------------------------------------------------------
Stages == {"flags", "open", "read", "saved", "choose", "target", "narrow", "offer", "browse", "picking",
           "resolve", "verify", "plan", "looking", "justify", "confirm", "submit",
           "scope", "check", "another", "write", "done", "refused"}

TypeOK ==
  /\ stage \in Stages /\ opt.mode \in Modes /\ opt.at \in Scopes \union {Nowhere}
  /\ env.now \in 0..MaxTime /\ env.grants \in Worlds /\ env.changes \in 0..MaxChanges
  /\ files.listing.roles \subseteq AllOf(Schedules)
  /\ \A s \in Scopes : files.scoped[s].roles \subseteq AllOf(Schedules)
  /\ \A r \in AllOf(rows) : r.sched \in AllOf(Schedules) /\ r.target \in Scopes
  /\ \A i \in Items : plan[i].policy # NoPolicy => plan[i].hours \in 1..plan[i].policy.max
  /\ AllOf(memory.project) \subseteq Targets
  /\ model.end = "none" \/ model.selected \subseteq 1..Len(model.items)

Sent == {i \in Items : plan[i].out \in {"sent", "rejected"}}

\* An answer of ARM about a target leaves no doubt that s is what role is
\* activated through there.
Singles(roles, s, role, target) ==
  /\ s \in roles /\ Mine(s) /\ GrantOf[s].role = role /\ GrantOf[s].scope \in Above[target]
  /\ \A o \in roles \ {s} :
       \/ GrantOf[o].role # role \/ GrantOf[o].until <= env.now
       \/ GrantOf[s].scope = target /\ GrantOf[o].scope # target
       \/ <<GrantOf[o].scope, GrantOf[o].condition>> = <<GrantOf[s].scope, GrantOf[s].condition>>

\* ARM has said that the row's schedule is the caller's and reaches its target,
\* and for a project that no other could have been meant.
Vouched(r) ==
  \E a \in answers :
    /\ a[1] = r.target \/ (a[1] = "all" /\ r.target = SourceScope(r) /\ ~Project /\ ~Narrows)
    /\ r.sched \in a[2] /\ Mine(r.sched) /\ SourceScope(r) \in Above[r.target]
    /\ Project => Singles(a[2], r.sched, Id(r)[1], r.target)

\* Nothing is requested or written that ARM has not resolved: each request goes
\* through a schedule it vouched for, under the policy of the scope that grants
\* it, and under --refresh by what it said since; a project and a narrowed
\* selection are requested whole or not at all, the latter through schedules that
\* were selected; and a project file holds only what a teammate's `up` could
\* resolve (readProjectRows, narrowRows,
\* chooseScopedEligibility, buildPlan, initScopeRows).
NothingUnresolved ==
  stage = "done" =>
    LET sent == Sent
        ids  == {Id(plan[i].row) : i \in Items}
    IN  /\ \A i \in sent :
             LET item == plan[i]
                 key  == PolicyKey(item.row)
             IN  /\ Vouched(item.row)
                 /\ item.policy # RoleSettings(key) => ~opt.refresh /\ item.policy = OldPolicyAt[key]
                 /\ item.hours <= item.policy.max /\ (item.policy.ticket => consent.ticket)
        /\ sent # {} =>
             /\ Project => ids = AllOf(Requirements)
             /\ Narrows => /\ ids = {<<id[1], opt.at>> : id \in consent.selected}
                           /\ \A i \in Items : plan[i].row.sched \in consent.sources
        /\ memory.created => \A id \in AllOf(memory.project) :
             \E a \in answers, s \in AllOf(Schedules) : a[1] = id[2] /\ Singles(a[2], s, id[1], id[2])

\* A window of a project role that ARM vouched for is left alone while it lasts,
\* and is claimed only if it still does once the prompts and the policy reads
\* are over (buildProjectPlan, preservedActivationResult).
WindowsAreKept ==
  [][\A i \in Items : Project =>
       LET held  == plan[i].row.held
           lasts == held.active /\ (held.confirmed \/ held.verified) /\ held.until > env.now
       IN  plan'[i].out # plan[i].out =>
             /\ plan'[i].out = "kept" => lasts /\ held.from <= env.now
             /\ plan'[i].out \in {"sent", "rejected"} => ~(lasts /\ held.from = 0)]_vars

\* What is sent is what was agreed to: no role twice; picked rows are those the
\* picker drew as selected; a bulk was confirmed at its size; a reason typed for
\* an earlier run was shown first; and without a terminal all of it was in the
\* flags (checkActivateFlags, confirmPlanWith, resolveJustification, dedupeRows,
\* runModel).
ConsentCovers ==
  /\ \A i, j \in Sent : Id(plan[i].row) = Id(plan[j].row) => i = j
  /\ \A i \in Sent : opt.mode = "pick" =>
       \E id \in consent.selected : id[1] = Id(plan[i].row)[1] /\ plan[i].row.target \in {id[2], opt.at}
  /\ Sent # {} =>
       /\ opt.tty \/ (opt.yes /\ opt.reason)
       /\ \/ opt.yes \/ opt.mode = "pick" \/ (opt.mode # "all" /\ Submissions <= Bulk)
          \/ consent.confirmed = Submissions
       /\ consent.reason = "earlier" => consent.prompted

\* Under every edit of the filter and every resize the cursor stays on its row
\* while the filter shows it, and is on screen; and a key selects or clears only
\* rows that are shown (refilter, clampWindow, toggleAllShown).
PickerKeepsItsPlace ==
  [][stage = "picking" /\ stage' = "picking" =>
       /\ CursorIsDrawn(model')
       /\ \A i \in 1..Len(model.items) :
            i \notin ShownItems(model) => (i \in model.selected <=> i \in model'.selected)
       /\ (model.filter # model'.filter \/ model.termRows # model'.termRows) /\ HasCursor(model)
            /\ UnderCursor(model) \in ShownItems(model')
          => HasCursor(model') /\ UnderCursor(model') = UnderCursor(model)]_vars

=============================================================================
