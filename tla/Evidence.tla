------------------------------ MODULE Evidence ------------------------------
(***************************************************************************)
(* A named `down`: the requests go out at once, on the strength of the     *)
(* record and the eligibility listing, while the activation listing is     *)
(* still being read; the listing is waited for only where it changes an    *)
(* answer (internal/cli/evidence.go, and the named half of deactivate.go). *)
(*                                                                         *)
(* The goroutines of the batch share one mutex, e.mu, and whoever waits    *)
(* for the listing holds it.  How one request is submitted and polled is   *)
(* Submission.tla; here a request is one question and one answer.  All     *)
(* roles match the selection.  A definition marked MUTATION is the one     *)
(* below it with a mistake in it.                                          *)
(***************************************************************************)
EXTENDS Integers, FiniteSets

CONSTANTS
  Roles,   \* every role that the record, the eligibilities or the listing may name
  Main,    \* the command's own goroutine
  None,    \* nobody
  Filters, \* whether the selection may be a filter (TRUE), a preset (FALSE) or either
  Entries, \* what the record may hold of a role
  Soft,    \* scopeSoftDeadline: what the widening pass waits for, at most
  Budget,  \* listingBudget: what a doubtful answer waits for, at most
  Horizon  \* bound: time stands still here

ASSUME EvidenceAssumption ==
  /\ Main \notin Roles /\ None \notin Roles /\ Main # None
  /\ Filters \subseteq BOOLEAN
  /\ Entries \subseteq {"none", "confirming", "listed"}
  /\ Soft \in Nat /\ Budget \in Nat /\ Horizon \in Nat
  /\ Soft <= Budget /\ Budget < Horizon

VARIABLES
  widens,      \* the selection is a filter, which the listing may add to
  named,       \* the roles the preset, or the eligibilities under the filter, name
  local,       \* the record as the run read it
  revoked,     \* the roles given up in the record since then
  held,        \* the roles ARM holds
  clock,       \* time since the listing was started; it stands still once that is in
  future,      \* the listing: "flying", "arrived" in its channel, or "taken" from it
  shown,       \* what the listing taken shows, tombstones applied
  landed,      \* e.landed
  rows,        \* e.rows
  mu,          \* who holds e.mu
  stage,       \* the holder is "blocking" on the listing, or "merging" it
  timer,       \* when the blocking holder gives up
  phase,       \* where the command is
  requested,   \* the targets submitted so far
  pc,          \* where each target's goroutine is
  seen,        \* the targets with SeenActive
  allowance,   \* the timeout each one calls wait with
  asks,        \* requests sent for each role
  outcome,     \* the result of each target
  interrupted  \* the context was cancelled

given  == <<widens, named, local>>   \* constant
taken  == <<landed, shown, rows>>
lock   == <<mu, stage, timer>>
batch  == <<requested, pc, seen, allowance, asks, outcome>>
vars   == <<given, revoked, held, clock, future, taken, lock, phase, batch, interrupted>>

Forever  == -1           \* wait's negative timeout
Outcomes == {"none", "DEACTIVATED", "NOT ACTIVE", "FAILED", "ABORTED", "SKIPPED"}

TypeOK ==
  /\ widens \in BOOLEAN /\ named \subseteq Roles /\ interrupted \in BOOLEAN
  /\ local \in [Roles -> Entries]
  /\ revoked \subseteq Roles /\ held \subseteq Roles
  /\ clock \in 0..Horizon
  /\ future \in {"flying", "arrived", "taken"}
  /\ landed \in BOOLEAN /\ shown \subseteq Roles /\ rows \subseteq Roles
  /\ mu \in Roles \union {Main, None}
  /\ stage \in {"free", "blocking", "merging"} /\ timer \in 0..Horizon
  /\ phase \in {"selecting", "searching", "planning", "confirming", "submitting", "widening", "adding",
                "reporting", "done"}
  /\ requested \subseteq Roles /\ seen \subseteq Roles
  /\ pc \in [Roles -> {"idle", "checking", "asking", "asked", "doubting", "landed", "done"}]
  /\ allowance \in [Roles \union {Main} -> Forever..Budget]
  /\ asks \in [Roles -> Nat]
  /\ outcome \in [Roles -> Outcomes]

\* startActiveEvidence
Recorded == {r \in Roles : local[r] # "none"}

Init ==
  /\ widens \in Filters /\ named \in SUBSET Roles
  /\ widens \/ named # {}
  /\ local \in [Roles -> Entries] /\ revoked = {}
  /\ held \in SUBSET Roles
  /\ clock = 0
  /\ future = "flying"
  /\ landed = FALSE /\ shown = {} /\ rows = Recorded
  /\ mu = None /\ stage = "free" /\ timer = 0
  /\ phase = "selecting"
  /\ requested = {} /\ seen = {}
  /\ pc = [r \in Roles |-> "idle"]
  /\ allowance = [p \in Roles \union {Main} |-> 0]
  /\ asks = [r \in Roles |-> 0]
  /\ outcome = [r \in Roles |-> "none"]
  /\ interrupted = FALSE

-----------------------------------------------------------------------------
(* Targets.                                                                *)

\* targetFromEvidence: which of the rows make a target SeenActive.
SeenIn(rs, listed) == {r \in rs : r \in listed \/ local[r] = "listed"}

\* selectNamedTargets: a filter also matches the rows, a preset does not.
Match(rs) == IF widens THEN named \union rs ELSE named

\* MUTATION: the targets already requested are not dropped.
EveryTarget(matched) == matched

unrequestedTargets(matched) == matched \ requested

\* MUTATION: without max, a late call would wait for ever.
RemainingUnbounded(budget) == budget - clock

\* MUTATION: the widening pass's part of the budget for everyone.
RemainingOfSoft(budget) == IF clock < Soft THEN Soft - clock ELSE 0

remainingOf(budget) == IF clock < budget THEN budget - clock ELSE 0

\* submitAll starts a goroutine for each target; activeEvidence.deactivate
\* looks at the evidence first, unless the target is known to be held.
Submit(targets, sure) ==
  /\ requested' = requested \union targets
  /\ seen' = seen \union (targets \intersect sure)
  /\ pc' = [r \in Roles |-> IF r \notin targets THEN pc[r]
                            ELSE IF r \in sure THEN "asking" ELSE "checking"]
  /\ allowance' = [p \in Roles \union {Main} |-> IF p \in targets THEN 0 ELSE allowance[p]]
  /\ UNCHANGED <<asks, outcome>>

-----------------------------------------------------------------------------
(* wait, and the callers it returns to.                                    *)

Wants(p) == IF p = Main THEN phase \in {"selecting", "searching", "planning", "widening",
                                          "reporting"}
                        ELSE pc[p] \in {"checking", "doubting"}

Land(r, o) ==
  /\ pc' = [pc EXCEPT ![r] = "landed"]
  /\ outcome' = [outcome EXCEPT ![r] = o]
  /\ allowance' = [allowance EXCEPT ![r] = 0]
  /\ UNCHANGED <<requested, seen, asks>>

\* activeEvidence.deactivate goes on to its request, with what held has shown.
Ask(r, known) ==
  /\ pc' = [pc EXCEPT ![r] = "asking"]
  /\ seen' = IF known THEN seen \union {r} ELSE seen
  /\ allowance' = [allowance EXCEPT ![r] = 0]
  /\ UNCHANGED <<requested, asks, outcome>>

\* selectNamedTargets: if nothing matches the record, the listing is waited for.
Selected(rs, listed) ==
  LET targets == Match(rs) IN
  IF interrupted /\ phase = "searching" THEN phase' = "done" /\ UNCHANGED batch
  ELSE IF targets # {} THEN
    /\ phase' = "planning"
    /\ requested' = targets /\ seen' = targets \intersect SeenIn(rs, listed)
    /\ allowance' = [allowance EXCEPT ![Main] = 0]
    /\ UNCHANGED <<pc, asks, outcome>>
  ELSE IF phase = "selecting" THEN
    /\ phase' = "searching"
    /\ allowance' = [allowance EXCEPT ![Main] = Forever]
    /\ UNCHANGED <<requested, pc, seen, asks, outcome>>
  ELSE phase' = "done" /\ UNCHANGED batch

\* namedRun.widened.  A --key that the listing makes ambiguous, which adds
\* nothing, is left out.
Widened(ok, rs, listed) ==
  LET extra == unrequestedTargets(Match(rs)) IN
  \/ /\ ok /\ ~interrupted /\ extra # {}
     /\ phase' = "adding" /\ Submit(extra, SeenIn(rs, listed))
  \/ /\ ~ok \/ interrupted \/ extra = {}
     /\ phase' = "reporting"
     /\ allowance' = [allowance EXCEPT ![Main] = 0]
     /\ UNCHANGED <<requested, pc, seen, asks, outcome>>

\* The caller p resumes: ok tells whether the listing, which shows listed, is in rs.
Return(p, ok, rs, listed) ==
  IF p = Main THEN
    \/ phase \in {"selecting", "searching"} /\ Selected(rs, listed)
    \/ phase = "planning" /\ phase' = "confirming" /\ UNCHANGED batch
    \/ phase = "widening" /\ Widened(ok, rs, listed)
    \/ phase = "reporting" /\ phase' = "done" /\ UNCHANGED batch
  ELSE
    /\ UNCHANGED phase
    /\ IF pc[p] = "checking" \/ (ok /\ p \in rs)
         THEN Ask(p, ok /\ p \in rs)
         ELSE Land(p, "NOT ACTIVE")

\* wait finds the listing taken, takes it, gives up, or holds the mutex while
\* it blocks for it.
Lock(p) ==
  /\ Wants(p) /\ mu = None
  /\ \/ /\ landed
        /\ Return(p, TRUE, rows, shown)
        /\ UNCHANGED <<future, lock>>
     \/ /\ ~landed /\ future = "arrived"
        /\ future' = "taken" /\ mu' = p /\ stage' = "merging"
        /\ UNCHANGED <<timer, phase, batch>>
     \/ /\ ~landed /\ future = "flying" /\ allowance[p] = 0
        /\ Return(p, FALSE, rows, shown)
        /\ UNCHANGED <<future, lock>>
     \/ /\ ~landed /\ future = "flying" /\ allowance[p] # 0
        /\ mu' = p /\ stage' = "blocking"
        /\ timer' = IF allowance[p] = Forever \/ clock + allowance[p] > Horizon
                      THEN Horizon ELSE clock + allowance[p]
        /\ UNCHANGED <<future, phase, batch>>
  /\ UNCHANGED <<given, revoked, held, clock, taken, interrupted>>

\* MUTATION: the mutex stays locked.
TimeOutLocked ==
  /\ stage = "blocking" /\ allowance[mu] # Forever /\ clock >= timer
  /\ Return(mu, FALSE, rows, shown)
  /\ stage' = "free"
  /\ UNCHANGED <<given, revoked, held, clock, future, taken, mu, timer, interrupted>>

TimeOut ==
  /\ stage = "blocking" /\ allowance[mu] # Forever /\ clock >= timer
  /\ Return(mu, FALSE, rows, shown)
  /\ mu' = None /\ stage' = "free" /\ timer' = 0
  /\ UNCHANGED <<given, revoked, held, clock, future, taken, interrupted>>

\* MUTATION: an activation whose request could not be read is not counted.
CandidatesIfVerified(listed, gone) ==
  listed \union {r \in Recorded : local[r] # "confirming" /\ r \notin gone}

\* deactivationCandidates
Candidates(listed, gone) == listed \union (Recorded \ gone)

\* The roles verifyConfirming asks about: those the record, as it is now, has
\* unconfirmed and the listing does not show.
Asked(listed) == {r \in Roles : local[r] = "confirming"} \ (revoked \union listed)

\* merge.  The listing lags: it may miss what ARM holds and show what ARM held;
\* what it shows is looked at only here.  A question about a request
\* may go unanswered, and is not asked where the listing could not be read.
Merge ==
  /\ stage = "merging"
  /\ \E listed \in SUBSET Roles : \E gone \in SUBSET (Asked(listed) \ held) :
         /\ rows' = Candidates(listed, gone)
         /\ Return(mu, TRUE, rows', listed)
         /\ shown' = listed
  /\ landed' = TRUE
  /\ mu' = None /\ stage' = "free" /\ timer' = 0
  /\ UNCHANGED <<given, revoked, held, clock, future, interrupted>>

-----------------------------------------------------------------------------
(* One target's request.                                                   *)

\* deactivateOne looks at the context before it sends anything.
Send(r) ==
  /\ pc[r] = "asking"
  /\ IF interrupted THEN Land(r, "SKIPPED")
     ELSE /\ pc' = [pc EXCEPT ![r] = "asked"]
          /\ asks' = [asks EXCEPT ![r] = @ + 1]
          /\ UNCHANGED <<requested, seen, allowance, outcome>>
  /\ UNCHANGED <<given, revoked, held, clock, future, taken, lock, phase, interrupted>>

\* ARM grants it; an interrupt may end the poll that would have shown it.
Granted(r) ==
  /\ pc[r] = "asked" /\ r \in held
  /\ held' = held \ {r}
  /\ \E o \in {"DEACTIVATED"} \union (IF interrupted THEN {"ABORTED"} ELSE {}) : Land(r, o)
  /\ UNCHANGED <<given, revoked, clock, future, taken, lock, phase, interrupted>>

\* ARM knows no such assignment: it is gone, or held and not propagated yet.  A
\* target nothing has shown held waits for the listing.
NoSuchAssignment(r) ==
  /\ pc[r] = "asked" /\ ~interrupted
  /\ IF r \in seen THEN Land(r, "FAILED")
     ELSE /\ pc' = [pc EXCEPT ![r] = "doubting"]
          /\ allowance' = [allowance EXCEPT ![r] = remainingOf(Budget)]
          /\ UNCHANGED <<requested, seen, asks, outcome>>
  /\ UNCHANGED <<given, revoked, held, clock, future, taken, lock, phase, interrupted>>

\* ARM refuses it, or the interrupt comes before its answer is looked at.
Fails(r) ==
  /\ pc[r] = "asked"
  /\ Land(r, IF interrupted THEN "ABORTED" ELSE "FAILED")
  /\ UNCHANGED <<given, revoked, held, clock, future, taken, lock, phase, interrupted>>

\* The progress callback records the result: see ActivationRecord.tla.
Report(r) ==
  /\ pc[r] = "landed"
  /\ pc' = [pc EXCEPT ![r] = "done"]
  /\ revoked' = IF outcome[r] \in {"DEACTIVATED", "NOT ACTIVE"}
                  THEN revoked \union {r} ELSE revoked
  /\ UNCHANGED <<given, held, clock, future, taken, lock, phase, requested, seen, allowance, asks,
                 outcome, interrupted>>

-----------------------------------------------------------------------------
(* The command.                                                            *)

\* The user confirms the plan, or does not.
Confirm ==
  /\ phase = "confirming"
  /\ \/ phase' = "submitting" /\ Submit(requested, seen)
     \/ phase' = "done" /\ UNCHANGED batch
  /\ UNCHANGED <<given, revoked, held, clock, future, taken, lock, interrupted>>

\* MUTATION: the widening pass takes the listing only if it is there.
WidenWithoutWaiting ==
  /\ phase = "submitting" /\ \A r \in requested : pc[r] = "done"
  /\ phase' = IF widens /\ ~interrupted THEN "widening" ELSE "reporting"
  /\ allowance' = [allowance EXCEPT ![Main] = 0]
  /\ UNCHANGED <<given, revoked, held, clock, future, taken, lock, requested, pc, seen, asks, outcome,
                 interrupted>>

\* The first round is over: an interrupted run, or one without a filter, does
\* not widen.
Widen ==
  /\ phase = "submitting" /\ \A r \in requested : pc[r] = "done"
  /\ phase' = IF widens /\ ~interrupted THEN "widening" ELSE "reporting"
  /\ allowance' = [allowance EXCEPT ![Main] =
                     IF widens /\ ~interrupted THEN remainingOf(Soft) ELSE 0]
  /\ UNCHANGED <<given, revoked, held, clock, future, taken, lock, requested, pc, seen, asks, outcome,
                 interrupted>>

\* The second round is over; what is left is to report the listing's gaps.
Added ==
  /\ phase = "adding" /\ \A r \in requested : pc[r] = "done"
  /\ phase' = "reporting"
  /\ allowance' = [allowance EXCEPT ![Main] = 0]
  /\ UNCHANGED <<given, revoked, held, clock, future, taken, lock, requested, pc, seen, asks, outcome,
                 interrupted>>

-----------------------------------------------------------------------------
(* The listing, ARM, the other processes, the user and the time.           *)

\* A goroutine that blocks for the listing receives it as it is sent.
Arrive ==
  /\ phase # "done" /\ future = "flying"
  /\ IF stage = "blocking" THEN future' = "taken" /\ stage' = "merging"
                           ELSE future' = "arrived" /\ UNCHANGED stage
  /\ UNCHANGED <<given, revoked, held, clock, taken, mu, timer, phase, batch, interrupted>>

\* Somebody else gives the role up: another pimctl on this machine, which
\* records it, or anyone elsewhere.
OtherDown(r) ==
  /\ phase # "done" /\ r \in held
  /\ held' = held \ {r}
  /\ revoked' \in {revoked, revoked \union {r}}
  /\ UNCHANGED <<given, clock, future, taken, lock, phase, batch, interrupted>>

Interrupt ==
  /\ phase # "done" /\ ~interrupted
  /\ interrupted' = TRUE
  /\ UNCHANGED <<given, revoked, held, clock, future, taken, lock, phase, batch>>

\* Time is in seconds: a timer that is due fires, and a free mutex is taken,
\* before it goes on.  Nothing looks at it any more once the listing has arrived.
Tick ==
  /\ phase # "done" /\ future = "flying" /\ clock < Horizon
  /\ ~(stage = "blocking" /\ allowance[mu] # Forever /\ clock >= timer)
  /\ mu = None => \A p \in Roles \union {Main} : ~Wants(p)
  /\ clock' = clock + 1
  /\ UNCHANGED <<given, revoked, held, future, taken, lock, phase, batch, interrupted>>

\* The process is gone; without this, its end would look like a deadlock.
Ended == phase = "done" /\ UNCHANGED vars

-----------------------------------------------------------------------------
Target(r) == Send(r) \/ Granted(r) \/ NoSuchAssignment(r) \/ Fails(r) \/ Report(r)
Wait      == TimeOut \/ Merge
Command   == Confirm \/ Widen \/ Added

Next ==
  \/ \E p \in Roles \union {Main} : Lock(p)
  \/ \E r \in Roles : Target(r) \/ OtherDown(r)
  \/ Wait \/ Command \/ Arrive \/ Interrupt \/ Tick \/ Ended

Spec == Init /\ [][Next]_vars

\* Goroutines run, prompts are answered and time passes.  Nothing makes an answer
\* come, a merge end or the listing arrive: every call may turn into a refresh of
\* its session, which has no timeout (Submission.tla).
Fairness ==
  /\ \A p \in Roles \union {Main} : WF_vars(Lock(p))
  /\ \A r \in Roles : WF_vars(Send(r)) /\ WF_vars(Report(r))
  /\ WF_vars(TimeOut) /\ WF_vars(Command) /\ WF_vars(Tick)

FairSpec == Spec /\ Fairness

-----------------------------------------------------------------------------
(* Properties.                                                             *)

ArrivedBefore(t) == future # "flying" /\ clock < t

\* A role is not said to be not held if a listing that arrived within its
\* budget, merged with the record, shows it (activeEvidence.deactivate).
NotActiveIsUncontradicted ==
  \A r \in Roles :
    outcome[r] = "NOT ACTIVE" /\ landed /\ ArrivedBefore(Budget) => r \notin rows

\* Nor if this machine recorded its activation, or the listing shows it, and
\* ARM holds it still (merge, verifyConfirming, deactivationCandidates).
HeldIsNotDenied ==
  \A r \in held :
    outcome[r] = "NOT ACTIVE" /\ ArrivedBefore(Budget) =>
      local[r] = "none" /\ r \notin shown

\* A role is asked for once, and once more only after ARM denied it and the
\* listing then showed it; a role with a result is not asked for again.
NeverAskedAgain ==
  [][\A r \in Roles :
       asks'[r] # asks[r] =>
         /\ outcome[r] = "none" /\ asks[r] < 2
         /\ asks[r] = 1 => landed /\ r \in rows]_vars

\* If the listing arrives in time, every role the selection matches in it has a
\* result when the run ends (namedRun.widened).
WideningIsComplete ==
  phase = "done" /\ widens /\ ~interrupted /\ ArrivedBefore(Soft) /\ requested # {}
    /\ (\E r \in Roles : outcome[r] # "none")
  => landed /\ \A r \in rows : outcome[r] # "none"

\* The command waits for a call: for the answer to a request, for a verification,
\* or for the listing without which it has nothing to select.
Unanswered ==
  \/ \E r \in Roles : pc[r] = "asked"
  \/ stage = "merging"
  \/ phase = "searching" /\ future = "flying"

\* However the listing, the answers and the interrupt fall, the command ends,
\* unless it waits for a call that never does; a listing that never arrives keeps
\* it only where nothing is selected without it (wait, deactivate, widened).
Terminates == <>(phase = "done") \/ <>[]Unanswered

=============================================================================
