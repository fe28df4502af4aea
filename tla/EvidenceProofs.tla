--------------------------- MODULE EvidenceProofs ---------------------------
(***************************************************************************)
(* Theorems about Evidence, for every set of roles, every record and every *)
(* budget: types, that no role is said to be not held against the evidence *)
(* that arrived in time, that nothing is asked for again without a reason, *)
(* and that a widening pass leaves out none of the roles it matches.       *)
(***************************************************************************)
EXTENDS Evidence, TLAPS

-----------------------------------------------------------------------------
(* The inductive invariant.                                                *)

Players == Roles \union {Main}

\* No target's goroutine has started.
Untouched == \A r \in Roles : pc[r] = "idle"

\* Who holds e.mu is where it waits for the listing; that is taken from its
\* channel by the holder, and merged before the mutex is free again.
LockInv ==
  /\ mu = None <=> stage = "free"
  /\ mu # None => Wants(mu) /\ ~landed
  /\ stage = "blocking" => future = "flying"
  /\ stage = "merging" => future = "taken"
  /\ landed => future = "taken"

\* Which targets the command has started where it is, and which are over.
PhaseInv ==
  /\ phase \in {"selecting", "searching"} => requested = {}
  /\ phase \in {"selecting", "searching", "planning", "confirming"} => Untouched
  /\ phase \in {"submitting", "adding"} => \A r \in requested : pc[r] # "idle"
  /\ phase \in {"widening", "reporting"} => \A r \in requested : pc[r] = "done"
  /\ phase = "done" => Untouched \/ \A r \in requested : pc[r] = "done"
  /\ \A r \in Roles \ requested : pc[r] = "idle"

\* How often a target has asked, where it is; a second time only with the listing.
AskInv ==
  \A r \in Roles :
    /\ outcome[r] = "none" <=> pc[r] \notin {"landed", "done"}
    /\ pc[r] \in {"idle", "checking"} => asks[r] = 0
    /\ pc[r] = "asking" => asks[r] = 0 \/ (asks[r] = 1 /\ landed /\ r \in rows \cap seen)
    /\ pc[r] = "asked" => asks[r] = 1 \/ (asks[r] = 2 /\ r \in seen)
    /\ pc[r] = "doubting" => asks[r] = 1

\* Who waits on a budget waits until that budget is spent, at least.
DoubtInv ==
  /\ \A r \in Roles : pc[r] = "doubting" => allowance[r] # Forever /\ clock + allowance[r] >= Budget
  /\ phase = "widening" => allowance[Main] # Forever /\ clock + allowance[Main] >= Soft

TimerInv ==
  stage = "blocking" =>
    /\ mu \in Roles /\ pc[mu] = "doubting" => timer >= Budget
    /\ mu = Main /\ phase = "widening" => timer >= Soft

\* What the merged evidence holds: the listing, and what was recorded and is held.
RowsInv == landed => shown \subseteq rows /\ Recorded \cap held \subseteq rows

\* A role is denied on the evidence, or because no evidence came in time.
AnswerInv ==
  \A r \in Roles : outcome[r] = "NOT ACTIVE" => (landed /\ r \notin rows) \/ clock >= Budget

\* A command past its widening pass has requested all that the evidence matches,
\* unless there was nothing to widen or no evidence in time.
WidenedInv ==
  phase \in {"adding", "reporting"} \/ (phase = "done" /\ ~Untouched) =>
    ~widens \/ interrupted \/ clock >= Soft \/ (landed /\ rows \subseteq requested)

BatchInv == PhaseInv /\ AskInv /\ DoubtInv /\ AnswerInv /\ WidenedInv
EvidenceInv == TypeOK /\ LockInv /\ TimerInv /\ RowsInv /\ BatchInv

\* The conjuncts of TypeOK about what a goroutine changes when it resumes.
BatchType ==
  /\ phase \in {"selecting", "searching", "planning", "confirming", "submitting", "widening", "adding",
                "reporting", "done"}
  /\ requested \subseteq Roles /\ seen \subseteq Roles
  /\ pc \in [Roles -> {"idle", "checking", "asking", "asked", "doubting", "landed", "done"}]
  /\ allowance \in [Players -> Forever..Budget]
  /\ asks \in [Roles -> Nat]
  /\ outcome \in [Roles -> Outcomes]

\* ... and those about what it leaves alone.
WorldType ==
  /\ widens \in BOOLEAN /\ named \subseteq Roles /\ interrupted \in BOOLEAN
  /\ local \in [Roles -> Entries]
  /\ revoked \subseteq Roles /\ held \subseteq Roles
  /\ clock \in 0..Horizon
  /\ future \in {"flying", "arrived", "taken"}
  /\ landed \in BOOLEAN /\ shown \subseteq Roles /\ rows \subseteq Roles
  /\ mu \in Roles \union {Main, None}
  /\ stage \in {"free", "blocking", "merging"} /\ timer \in 0..Horizon

\* So the types may be looked at in these two parts, before and after a step.
LEMMA TypeSplits == (TypeOK <=> BatchType /\ WorldType) /\ (TypeOK' <=> BatchType' /\ WorldType')
BY DEF TypeOK, BatchType, WorldType, Players

\* At first nothing has been asked.
LEMMA EvidenceInit == Init => EvidenceInv
<1> SUFFICES ASSUME Init PROVE EvidenceInv
  OBVIOUS
<1> USE EvidenceAssumption
<1>1. WorldType
  <2>1. widens \in BOOLEAN /\ interrupted \in BOOLEAN /\ landed \in BOOLEAN
    BY DEF Init
  <2>2. named \subseteq Roles /\ held \subseteq Roles /\ revoked \subseteq Roles /\ shown \subseteq Roles
        /\ rows \subseteq Roles /\ local \in [Roles -> Entries]
    BY DEF Init, Recorded
  <2>3. clock \in 0..Horizon /\ timer \in 0..Horizon
    BY DEF Init
  <2>4. future \in {"flying", "arrived", "taken"} /\ stage \in {"free", "blocking", "merging"}
        /\ mu \in Roles \union {Main, None}
    BY DEF Init
  <2> QED BY <2>1, <2>2, <2>3, <2>4 DEF WorldType
<1>2. 0 \in Forever..Budget
  BY DEF Forever
<1>3. BatchType
  BY <1>2 DEF Init, BatchType, Players, Outcomes
<1>4. LockInv /\ TimerInv /\ RowsInv
  BY DEF Init, LockInv, TimerInv, RowsInv
<1>5. PhaseInv /\ AskInv /\ DoubtInv /\ AnswerInv /\ WidenedInv
  BY DEF Init, PhaseInv, AskInv, DoubtInv, AnswerInv, WidenedInv, Untouched
<1> QED BY <1>1, <1>3, <1>4, <1>5, TypeSplits DEF EvidenceInv, BatchInv

-----------------------------------------------------------------------------
(* The parts of a step.                                                    *)

\* No wait, and a wait without end, are timeouts like any other.
LEMMA Timeouts == 0 \in Forever..Budget /\ Forever \in Forever..Budget /\ Forever # 0
BY EvidenceAssumption DEF Forever

\* The time a budget leaves is a wait it is worth.
LEMMA Remaining ==
  ASSUME NEW b \in 0..Budget, clock \in Nat
  PROVE  remainingOf(b) \in 0..Budget /\ clock + remainingOf(b) >= b
BY EvidenceAssumption DEF remainingOf

\* The goroutines of a new round keep the types.
LEMMA SubmitType ==
  ASSUME BatchType, NEW targets \in SUBSET Roles, NEW sure, Submit(targets, sure), phase' \in {"submitting", "adding"}
  PROVE  BatchType'
<1>1. 0 \in Forever..Budget
  BY EvidenceAssumption DEF Forever
<1> QED BY <1>1, EvidenceAssumption DEF BatchType, Submit, Players

\* A new round starts goroutines that have nothing behind them.
LEMMA Submitted ==
  ASSUME BatchType, BatchInv, NEW targets \in SUBSET Roles, NEW sure, Submit(targets, sure),
         \A r \in targets : pc[r] = "idle",
         UNCHANGED <<clock, landed, rows>>, phase' \in {"submitting", "adding"}
  PROVE  AskInv' /\ DoubtInv' /\ AnswerInv'
<1> USE DEF BatchInv, BatchType, Submit
<1>1. AskInv'
  BY DEF AskInv
<1>2. DoubtInv'
  BY EvidenceAssumption DEF DoubtInv, Players
<1>3. AnswerInv'
  BY DEF AnswerInv
<1> QED BY <1>1, <1>2, <1>3

\* A result, or the next request, of one target.
LEMMA TargetResumes ==
  ASSUME BatchType, BatchInv, clock \in Nat, NEW p \in Roles, pc[p] \in {"checking", "doubting"},
         NEW ok \in BOOLEAN, NEW rs, NEW listed, Return(p, ok, rs, listed),
         UNCHANGED <<widens, clock, interrupted>>,
         landed => landed' /\ rows' = rows, ok => landed' /\ rows' = rs,
         ~ok /\ pc[p] = "doubting" => clock >= Budget
  PROVE  BatchType' /\ BatchInv' /\ phase' = phase
<1>0. p # Main /\ 0 \in Forever..Budget
  BY EvidenceAssumption DEF Forever
<1>1. phase' = phase /\ phase \in {"submitting", "adding"} /\ p \in requested
  BY <1>0 DEF Return, BatchInv, PhaseInv, BatchType, Untouched
<1>2. ASSUME NEW known, Ask(p, known), known \in BOOLEAN, known => landed' /\ p \in rows',
             pc[p] = "doubting" => known
      PROVE  BatchType' /\ BatchInv'
  <2> USE <1>2 DEF Ask
  <2>1. BatchType'
    BY <1>0, <1>1 DEF BatchType, Players
  <2>2. PhaseInv'
    BY <1>0, <1>1 DEF BatchInv, BatchType, PhaseInv
  <2>3. AskInv'
    BY DEF BatchInv, BatchType, AskInv
  <2>4. DoubtInv'
    BY <1>0, <1>1 DEF BatchInv, BatchType, DoubtInv, Players
  <2>5. AnswerInv'
    BY DEF BatchInv, BatchType, AnswerInv
  <2>6. WidenedInv'
    BY <1>1 DEF BatchInv, BatchType, WidenedInv
  <2> QED BY <2>1, <2>2, <2>3, <2>4, <2>5, <2>6 DEF BatchInv
<1>3. ASSUME Land(p, "NOT ACTIVE"), ~(ok /\ p \in rs), pc[p] = "doubting"
      PROVE  BatchType' /\ BatchInv'
  <2> USE <1>3 DEF Land
  <2>1. BatchType'
    BY <1>0, <1>1 DEF BatchType, Players, Outcomes
  <2>2. PhaseInv'
    BY <1>0, <1>1 DEF BatchInv, BatchType, PhaseInv
  <2>3. AskInv'
    BY DEF BatchInv, BatchType, AskInv
  <2>4. DoubtInv'
    BY <1>0, <1>1 DEF BatchInv, BatchType, DoubtInv, Players
  <2>5. AnswerInv'
    BY DEF BatchInv, BatchType, AnswerInv
  <2>6. WidenedInv'
    BY <1>1 DEF BatchInv, BatchType, WidenedInv
  <2> QED BY <2>1, <2>2, <2>3, <2>4, <2>5, <2>6 DEF BatchInv
<1> QED BY <1>0, <1>1, <1>2, <1>3 DEF Return

\* The command's own goroutine goes on, with the batch as it is.
LEMMA CommandGoesOn ==
  ASSUME BatchType, BatchInv, clock \in Nat, UNCHANGED <<widens, clock, interrupted, requested, pc, seen, asks, outcome>>,
         landed => landed' /\ rows' = rows,
         allowance' \in [Players -> Forever..Budget], \A r \in Roles : allowance'[r] = allowance[r],
         \/ phase = "selecting" /\ phase' = "searching"
         \/ phase \in {"selecting", "searching", "confirming"} /\ phase' = "done"
         \/ phase = "planning" /\ phase' = "confirming"
         \/ phase = "submitting" /\ phase' = "widening" /\ (\A r \in requested : pc[r] = "done")
              /\ allowance'[Main] # Forever /\ clock + allowance'[Main] >= Soft
         \/ phase \in {"submitting", "adding", "widening"} /\ phase' = "reporting"
              /\ (\A r \in requested : pc[r] = "done")
              /\ (phase # "adding" => ~widens \/ interrupted \/ clock >= Soft \/ (landed' /\ rows' \subseteq requested))
         \/ phase = "reporting" /\ phase' = "done"
  PROVE  BatchType' /\ BatchInv'
<1>1. BatchType'
  BY DEF BatchType
<1>2. PhaseInv'
  BY DEF BatchInv, PhaseInv, Untouched
<1>3. AskInv'
  BY DEF BatchInv, AskInv
<1>4. DoubtInv'
  BY DEF BatchInv, DoubtInv
<1>5. AnswerInv'
  BY DEF BatchInv, AnswerInv
<1>6. WidenedInv'
  BY DEF BatchInv, WidenedInv, PhaseInv, Untouched
<1> QED BY <1>1, <1>2, <1>3, <1>4, <1>5, <1>6 DEF BatchInv

\* The targets are selected, from the record or from the listing.
LEMMA CommandSelects ==
  ASSUME BatchType, BatchInv, clock \in Nat, named \subseteq Roles, phase \in {"selecting", "searching"},
         NEW rs \in SUBSET Roles, NEW listed, Selected(rs, listed),
         UNCHANGED <<widens, clock, interrupted>>, landed => landed' /\ rows' = rows
  PROVE  BatchType' /\ BatchInv'
<1>1. Main \in Players /\ Forever \in Forever..Budget /\ 0 \in Forever..Budget /\ Main \notin Roles
  BY EvidenceAssumption DEF Forever, Players
<1>2. CASE phase' = "planning" /\ requested' = Match(rs) /\ seen' = Match(rs) \cap SeenIn(rs, listed)
           /\ allowance' = [allowance EXCEPT ![Main] = 0] /\ UNCHANGED <<pc, asks, outcome>>
  <2>1. Match(rs) \subseteq Roles
    BY DEF Match
  <2>2. BatchType'
    BY <1>1, <1>2, <2>1 DEF BatchType
  <2>3. Untouched /\ requested = {}
    BY DEF BatchInv, PhaseInv
  <2>4. PhaseInv'
    BY <1>2, <2>3 DEF PhaseInv, Untouched
  <2>5. AskInv' /\ AnswerInv' /\ WidenedInv'
    BY <1>2, <2>3 DEF BatchInv, AskInv, AnswerInv, WidenedInv, Untouched
  <2>6. DoubtInv'
    BY <1>1, <1>2, <2>3 DEF DoubtInv, Untouched
  <2> QED BY <2>2, <2>4, <2>5, <2>6 DEF BatchInv
<1>3. CASE UNCHANGED <<requested, pc, seen, asks, outcome>>
           /\ ((phase = "selecting" /\ phase' = "searching") \/ phase' = "done")
           /\ allowance' \in {allowance, [allowance EXCEPT ![Main] = Forever]}
  <2>1. allowance' \in [Players -> Forever..Budget] /\ \A r \in Roles : allowance'[r] = allowance[r]
    <3>1. CASE allowance' = allowance
      BY <3>1 DEF BatchType, Players
    <3>2. CASE allowance' = [allowance EXCEPT ![Main] = Forever]
      BY <1>1, <3>2 DEF BatchType, Players
    <3> QED BY <1>3, <3>1, <3>2
  <2> QED BY <1>3, <2>1, CommandGoesOn
<1> QED BY <1>2, <1>3 DEF Selected, batch

\* The widening pass adds what is left, or has nothing to add.
LEMMA CommandWidens ==
  ASSUME BatchType, BatchInv, clock \in Nat, named \subseteq Roles, phase = "widening",
         NEW ok \in BOOLEAN, NEW rs \in SUBSET Roles, NEW listed, Widened(ok, rs, listed),
         UNCHANGED <<widens, clock, interrupted>>,
         landed => landed' /\ rows' = rows, ok => landed' /\ rows' = rs,
         ~ok => clock >= Soft
  PROVE  BatchType' /\ BatchInv'
<1> DEFINE extra == unrequestedTargets(Match(rs))
<1>1. Main \in Players /\ 0 \in Forever..Budget /\ Main \notin Roles
  BY EvidenceAssumption DEF Forever, Players
<1>2. extra \subseteq Roles \ requested /\ (widens => rs \subseteq requested \union extra)
  BY DEF unrequestedTargets, Match
<1>3. CASE ok /\ phase' = "adding" /\ Submit(extra, SeenIn(rs, listed))
  <2> HIDE DEF extra
  <2>1. \A r \in extra : pc[r] = "idle"
    BY <1>2 DEF BatchInv, PhaseInv
  <2>2. BatchType'
    BY <1>2, <1>3, SubmitType
  <2>3. AskInv' /\ DoubtInv' /\ AnswerInv'
    <3>1. CASE ~landed
      BY <1>2, <1>3, <2>1, <3>1 DEF BatchInv, BatchType, AskInv, DoubtInv, AnswerInv, Submit, Players
    <3>2. CASE landed
      BY <1>2, <1>3, <2>1, <3>2 DEF BatchInv, BatchType, AskInv, DoubtInv, AnswerInv, Submit, Players
    <3> QED BY <3>1, <3>2
  <2>4. PhaseInv'
    BY <1>2, <1>3 DEF BatchInv, BatchType, PhaseInv, Submit, Untouched
  <2>5. WidenedInv'
    BY <1>2, <1>3 DEF WidenedInv, Submit
  <2> QED BY <2>2, <2>3, <2>4, <2>5 DEF BatchInv
<1>4. CASE (~ok \/ interrupted \/ extra = {}) /\ phase' = "reporting"
           /\ allowance' = [allowance EXCEPT ![Main] = 0] /\ UNCHANGED <<requested, pc, seen, asks, outcome>>
  <2>1. allowance' \in [Players -> Forever..Budget] /\ \A r \in Roles : allowance'[r] = allowance[r]
    BY <1>1, <1>4 DEF BatchType
  <2>2. \A r \in requested : pc[r] = "done"
    BY DEF BatchInv, PhaseInv
  <2>3. ~widens \/ interrupted \/ clock >= Soft \/ (landed' /\ rows' \subseteq requested)
    BY <1>2, <1>4
  <2> QED BY <1>4, <2>1, <2>2, <2>3, CommandGoesOn
<1> QED BY <1>3, <1>4 DEF Widened

\* Whoever the wait returns to keeps the invariant of the batch.
LEMMA Resumed ==
  ASSUME BatchType, BatchInv, clock \in Nat, named \subseteq Roles, NEW p \in Players, Wants(p),
         NEW ok \in BOOLEAN, NEW rs \in SUBSET Roles, NEW listed, Return(p, ok, rs, listed),
         UNCHANGED <<widens, clock, interrupted>>,
         landed => landed' /\ rows' = rows, ok => landed' /\ rows' = rs,
         ~ok /\ p \in Roles /\ pc[p] = "doubting" => clock >= Budget,
         ~ok /\ p = Main /\ phase = "widening" => clock >= Soft
  PROVE  BatchType' /\ BatchInv'
<1>1. CASE p # Main
  <2>1. p \in Roles /\ pc[p] \in {"checking", "doubting"}
    BY <1>1 DEF Players, Wants
  <2> QED BY <2>1, TargetResumes
<1>2. CASE p = Main
  <2>1. CASE phase \in {"selecting", "searching"} /\ Selected(rs, listed)
    BY <2>1, CommandSelects
  <2>2. CASE phase = "widening" /\ Widened(ok, rs, listed)
    BY <1>2, <2>2, CommandWidens
  <2>3. CASE UNCHANGED batch /\ ((phase = "planning" /\ phase' = "confirming") \/ (phase = "reporting" /\ phase' = "done"))
    <3>1. allowance' \in [Players -> Forever..Budget] /\ \A r \in Roles : allowance'[r] = allowance[r]
      BY <2>3 DEF BatchType, batch
    <3> QED BY <2>3, <3>1, CommandGoesOn DEF batch
  <2>4. \/ phase \in {"selecting", "searching"} /\ Selected(rs, listed)
        \/ phase = "planning" /\ phase' = "confirming" /\ UNCHANGED batch
        \/ phase = "widening" /\ Widened(ok, rs, listed)
        \/ phase = "reporting" /\ phase' = "done" /\ UNCHANGED batch
    <3> HIDE DEF batch
    <3> QED BY <1>2, Zenon DEF Return
  <2> QED BY <2>1, <2>2, <2>3, <2>4
<1> QED BY <1>1, <1>2

-----------------------------------------------------------------------------
(* The steps.                                                              *)

\* A step that leaves the mutex alone, and where its holder waits, keeps the
\* holder waiting.
LEMMA HolderWaitsOn ==
  ASSUME LockInv, TimerInv, RowsInv, UNCHANGED <<future, taken, lock, local>>, held' \subseteq held,
         phase' = phase \/ phase \in {"confirming", "submitting", "adding"},
         \A r \in Roles : pc[r] \in {"checking", "doubting"} => pc'[r] = pc[r],
         mu \in Roles \union {Main, None}
  PROVE  LockInv' /\ TimerInv' /\ RowsInv'
<1> USE EvidenceAssumption DEF taken, lock
<1>1. mu # None => Wants(mu)'
  BY DEF LockInv, Wants
<1>2. LockInv'
  BY <1>1 DEF LockInv
<1>3. TimerInv'
  BY DEF LockInv, TimerInv, Wants
<1>4. RowsInv'
  BY DEF RowsInv, Recorded
<1> QED BY <1>2, <1>3, <1>4

\* A result that is not about the evidence.
LEMMA Lands ==
  ASSUME BatchType, BatchInv, clock \in Nat, NEW r \in Roles, pc[r] \in {"asking", "asked"},
         NEW o \in Outcomes \ {"none", "NOT ACTIVE"}, Land(r, o),
         UNCHANGED <<clock, landed, rows, phase, widens, interrupted>>
  PROVE  BatchType' /\ BatchInv'
<1>0. r # Main /\ r \in Players /\ 0 \in Forever..Budget
  BY Timeouts, EvidenceAssumption DEF Players
<1> USE DEF Land, BatchInv, BatchType
<1>1. BatchType'
  BY <1>0 DEF Players
<1>2. PhaseInv'
  BY DEF PhaseInv, Untouched
<1>3. AskInv'
  BY DEF AskInv
<1>4. DoubtInv'
  BY <1>0 DEF DoubtInv, Players
<1>5. AnswerInv'
  BY DEF AnswerInv
<1>6. WidenedInv'
  BY DEF WidenedInv, PhaseInv, Untouched
<1> QED BY <1>1, <1>2, <1>3, <1>4, <1>5, <1>6

\* A target's own steps.
LEMMA TargetStep ==
  ASSUME EvidenceInv, NEW r \in Roles, Target(r)
  PROVE  EvidenceInv'
<1> USE DEF EvidenceInv
<1>0. BatchType /\ WorldType /\ clock \in Nat
  BY TypeSplits, EvidenceAssumption DEF WorldType
<1>1. ASSUME BatchType', BatchInv', UNCHANGED <<given, clock, future, taken, lock, phase, interrupted>>,
             held' \subseteq held, revoked' \subseteq Roles, pc[r] \notin {"checking", "doubting"},
             \A s \in Roles : s # r => pc'[s] = pc[s]
      PROVE  EvidenceInv'
  <2>1. WorldType'
    BY <1>0, <1>1 DEF WorldType, given, taken, lock
  <2>2. LockInv' /\ TimerInv' /\ RowsInv'
    BY <1>0, <1>1, HolderWaitsOn DEF WorldType, given
  <2> QED BY <1>1, <2>1, <2>2, TypeSplits
<1>2. CASE Send(r)
  <2>1. /\ UNCHANGED <<given, revoked, held, clock, future, taken, lock, phase, interrupted>>
        /\ pc[r] = "asking" /\ \A s \in Roles : s # r => pc'[s] = pc[s]
    BY <1>0, <1>2 DEF Send, Land, BatchType
  <2>2. BatchType' /\ BatchInv'
    <3>1. CASE interrupted
      <4>1. Land(r, "SKIPPED")
        BY <1>2, <3>1 DEF Send
      <4> QED BY <1>0, <2>1, <4>1, Lands DEF Outcomes, given, taken
    <3>2. CASE ~interrupted
      <4>1. /\ UNCHANGED <<clock, landed, rows, interrupted, widens, phase, requested, seen, allowance, outcome>>
            /\ pc' = [pc EXCEPT ![r] = "asked"] /\ asks' = [asks EXCEPT ![r] = @ + 1]
        BY <1>2, <3>2 DEF Send, taken, given
      <4> USE DEF BatchInv
      <4>2. BatchType'
        BY <1>0, <4>1 DEF BatchType
      <4>3. PhaseInv'
        BY <1>0, <2>1, <4>1 DEF BatchType, PhaseInv, Untouched
      <4>4. DoubtInv'
        BY <1>0, <2>1, <4>1 DEF BatchType, DoubtInv
      <4>5. AnswerInv'
        BY <4>1 DEF AnswerInv
      <4>6. AskInv'
        BY <1>0, <2>1, <4>1 DEF BatchType, AskInv
      <4>7. WidenedInv'
        BY <1>0, <2>1, <4>1 DEF BatchType, PhaseInv, WidenedInv, Untouched
      <4> QED BY <4>2, <4>3, <4>4, <4>5, <4>6, <4>7
    <3> QED BY <3>1, <3>2
  <2> QED BY <1>0, <1>1, <2>1, <2>2 DEF WorldType
<1>3. ASSUME NEW o \in {"DEACTIVATED", "ABORTED", "FAILED"}, Land(r, o), pc[r] = "asked", held' \subseteq held,
             UNCHANGED <<given, revoked, clock, future, taken, lock, phase, interrupted>>
      PROVE  EvidenceInv'
  <2>1. \A s \in Roles : s # r => pc'[s] = pc[s]
    BY <1>0, <1>3 DEF Land, BatchType
  <2>2. BatchType' /\ BatchInv'
    BY <1>0, <1>3, Lands DEF Outcomes, given, taken
  <2> QED BY <1>0, <1>1, <1>3, <2>1, <2>2 DEF WorldType
<1>4. CASE Granted(r)
  BY <1>3, <1>4 DEF Granted
<1>5. CASE NoSuchAssignment(r)
  <2>1. CASE r \in seen
    BY <1>3, <1>5, <2>1 DEF NoSuchAssignment
  <2>2. CASE r \notin seen
    <3>1. /\ UNCHANGED <<given, revoked, held, clock, future, taken, lock, phase, interrupted, requested, seen, asks, outcome>>
          /\ pc[r] = "asked" /\ pc' = [pc EXCEPT ![r] = "doubting"]
          /\ allowance' = [allowance EXCEPT ![r] = remainingOf(Budget)]
      BY <1>5, <2>2 DEF NoSuchAssignment
    <3>2. /\ remainingOf(Budget) \in 0..Budget /\ clock + remainingOf(Budget) >= Budget
          /\ r \in Players /\ r # Main /\ 0..Budget \subseteq Forever..Budget /\ Forever \notin 0..Budget
      BY <1>0, Remaining, EvidenceAssumption DEF Forever, Players
    <3> HIDE DEF remainingOf
    <3> USE DEF BatchInv, given, taken
    <3>3. BatchType'
      BY <1>0, <3>1, <3>2 DEF BatchType
    <3>4. PhaseInv' /\ AnswerInv'
      BY <1>0, <3>1 DEF BatchType, PhaseInv, Untouched, AnswerInv
    <3>5. AskInv'
      BY <1>0, <2>2, <3>1 DEF BatchType, AskInv
    <3>6. DoubtInv'
      BY <1>0, <3>1, <3>2 DEF BatchType, DoubtInv, Players
    <3>7. WidenedInv'
      BY <1>0, <3>1 DEF BatchType, PhaseInv, WidenedInv, Untouched
    <3> QED BY <1>0, <1>1, <3>1, <3>3, <3>4, <3>5, <3>6, <3>7 DEF WorldType, BatchType
  <2> QED BY <2>1, <2>2
<1>6. CASE Fails(r)
  BY <1>3, <1>6 DEF Fails
<1>7. CASE Report(r)
  <2>1. /\ UNCHANGED <<given, held, clock, future, taken, lock, phase, interrupted, requested, seen, allowance, asks, outcome>>
        /\ pc[r] = "landed" /\ pc' = [pc EXCEPT ![r] = "done"] /\ revoked' \subseteq Roles
    BY <1>0, <1>7 DEF Report, WorldType
  <2> USE DEF BatchInv, given, taken
  <2>2. BatchType'
    BY <1>0, <2>1 DEF BatchType
  <2>3. PhaseInv' /\ DoubtInv' /\ AnswerInv'
    BY <1>0, <2>1 DEF BatchType, PhaseInv, Untouched, DoubtInv, AnswerInv
  <2>4. AskInv'
    BY <1>0, <2>1 DEF BatchType, AskInv
  <2>5. WidenedInv'
    BY <1>0, <2>1 DEF BatchType, PhaseInv, WidenedInv, Untouched
  <2> QED BY <1>0, <1>1, <2>1, <2>2, <2>3, <2>4, <2>5 DEF BatchType
<1> QED BY <1>2, <1>4, <1>5, <1>6, <1>7 DEF Target

\* A goroutine at the mutex: the evidence is there, or will not be waited for,
\* or it takes the mutex.
LEMMA LockStep ==
  ASSUME EvidenceInv, NEW p \in Players, Lock(p)
  PROVE  EvidenceInv'
<1> USE DEF EvidenceInv
<1>0. BatchType /\ WorldType /\ clock \in 0..Horizon
  BY TypeSplits DEF WorldType
<1>1. /\ Wants(p) /\ mu = None /\ stage = "free"
      /\ UNCHANGED <<given, revoked, held, clock, taken, interrupted>>
  BY DEF Lock, LockInv
<1>2. ASSUME UNCHANGED <<future, lock>>, BatchType', BatchInv'
      PROVE  EvidenceInv'
  <2>1. WorldType'
    BY <1>0, <1>1, <1>2 DEF WorldType, given, taken, lock
  <2>2. LockInv' /\ TimerInv' /\ RowsInv'
    BY <1>1, <1>2 DEF LockInv, TimerInv, RowsInv, Recorded, given, taken, lock
  <2> QED BY <1>2, <2>1, <2>2, TypeSplits
<1>3. ASSUME mu' = p, UNCHANGED <<phase, batch>>, ~landed,
             timer' \in 0..Horizon, future' \in {"flying", "taken"},
             stage' = IF future' = "taken" THEN "merging" ELSE "blocking", TimerInv'
      PROVE  EvidenceInv'
  <2>1. BatchType'
    BY <1>0, <1>3 DEF BatchType, batch
  <2>2. BatchInv'
    BY <1>1, <1>3 DEF BatchInv, PhaseInv, AskInv, DoubtInv, AnswerInv, WidenedInv, Untouched, batch, given, taken
  <2>3. WorldType'
    BY <1>0, <1>1, <1>3 DEF WorldType, given, taken, Players
  <2>4. Wants(p)' /\ p # None
    BY <1>1, <1>3, EvidenceAssumption DEF Wants, batch, Players
  <2>5. LockInv'
    BY <1>1, <1>3, <2>4 DEF LockInv, taken
  <2>6. RowsInv'
    BY <1>1 DEF RowsInv, Recorded, taken, given
  <2> QED BY <1>3, <2>1, <2>2, <2>3, <2>5, <2>6, TypeSplits
<1>4. ASSUME NEW ok \in BOOLEAN, Return(p, ok, rows, shown), UNCHANGED <<future, lock>>, ok => landed,
             ~ok => allowance[p] = 0
      PROVE  EvidenceInv'
  <2>1. /\ ~ok /\ p \in Roles /\ pc[p] = "doubting" => clock >= Budget
        /\ ~ok /\ p = Main /\ phase = "widening" => clock >= Soft
    BY <1>0, <1>4 DEF BatchInv, DoubtInv
  <2>2. rows \in SUBSET Roles /\ named \subseteq Roles /\ clock \in Nat
    BY <1>0 DEF WorldType
  <2>3. BatchType' /\ BatchInv'
    BY <1>0, <1>1, <1>4, <2>1, <2>2, Resumed DEF given, taken
  <2> QED BY <1>2, <1>4, <2>3
<1>5. CASE landed /\ Return(p, TRUE, rows, shown) /\ UNCHANGED <<future, lock>>
  BY <1>4, <1>5
<1>6. CASE ~landed /\ future' = "taken" /\ mu' = p /\ stage' = "merging" /\ UNCHANGED <<timer, phase, batch>>
  BY <1>0, <1>3, <1>6 DEF TimerInv, WorldType
<1>7. CASE Return(p, FALSE, rows, shown) /\ UNCHANGED <<future, lock>> /\ allowance[p] = 0
  BY <1>4, <1>7
<1>8. CASE /\ ~landed /\ future = "flying"
           /\ mu' = p /\ stage' = "blocking" /\ UNCHANGED <<future, phase, batch>>
           /\ timer' = IF allowance[p] = Forever \/ clock + allowance[p] > Horizon
                         THEN Horizon ELSE clock + allowance[p]
  <2>1. allowance[p] \in Forever..Budget
    BY <1>0 DEF BatchType
  <2>2. timer' \in 0..Horizon
    BY <1>0, <1>8, <2>1, EvidenceAssumption DEF Forever
  <2>3. \/ timer' = Horizon
        \/ allowance[p] # Forever /\ timer' = clock + allowance[p]
    BY <1>8
  <2>4. TimerInv'
    BY <1>1, <1>8, <2>3, EvidenceAssumption DEF TimerInv, BatchInv, DoubtInv, batch, Players
  <2> QED BY <1>3, <1>8, <2>2, <2>4
<1> QED BY <1>5, <1>6, <1>7, <1>8 DEF Lock

\* The holder gives the listing up, or merges it.
LEMMA WaitStep ==
  ASSUME EvidenceInv, Wait
  PROVE  EvidenceInv'
<1> USE DEF EvidenceInv
<1>0. BatchType /\ WorldType /\ clock \in Nat /\ named \subseteq Roles
  BY TypeSplits, EvidenceAssumption DEF WorldType
<1>1. stage # "free" => mu \in Players /\ Wants(mu) /\ ~landed
  BY <1>0 DEF LockInv, WorldType, Players
<1>2. ASSUME BatchType', BatchInv', mu' = None, stage' = "free", timer' = 0, UNCHANGED <<given, revoked, held, clock, future, interrupted>>,
             landed' \in BOOLEAN, rows' \subseteq Roles, shown' \subseteq Roles, RowsInv', landed' => future = "taken"
      PROVE  EvidenceInv'
  <2>1. WorldType'
    BY <1>0, <1>2, EvidenceAssumption DEF WorldType, given
  <2>2. LockInv' /\ TimerInv'
    BY <1>2 DEF LockInv, TimerInv
  <2> QED BY <1>2, <2>1, <2>2, TypeSplits
<1>3. CASE TimeOut
  <2>1. /\ stage = "blocking" /\ clock >= timer /\ Return(mu, FALSE, rows, shown)
        /\ mu' = None /\ stage' = "free" /\ timer' = 0
        /\ UNCHANGED <<given, revoked, held, clock, future, taken, interrupted>>
    BY <1>3, Zenon DEF TimeOut
  <2>2. /\ mu \in Roles /\ pc[mu] = "doubting" => clock >= Budget
        /\ mu = Main /\ phase = "widening" => clock >= Soft
    BY <1>0, <2>1, EvidenceAssumption DEF TimerInv, WorldType
  <2>3. BatchType' /\ BatchInv'
    BY <1>0, <1>1, <2>1, <2>2, Resumed DEF WorldType, taken, given
  <2>4. RowsInv' /\ landed' \in BOOLEAN /\ rows' \subseteq Roles /\ shown' \subseteq Roles /\ ~landed'
    BY <1>0, <1>1, <2>1 DEF WorldType, RowsInv, taken
  <2> QED BY <1>2, <2>1, <2>3, <2>4
<1>4. CASE Merge
  <2>1. PICK listed \in SUBSET Roles : \E gone \in SUBSET (Asked(listed) \ held) :
          rows' = Candidates(listed, gone) /\ Return(mu, TRUE, rows', listed) /\ shown' = listed
    BY <1>4 DEF Merge
  <2>2. PICK gone \in SUBSET (Asked(listed) \ held) :
          rows' = Candidates(listed, gone) /\ Return(mu, TRUE, rows', listed) /\ shown' = listed
    BY <2>1
  <2>3. /\ stage = "merging" /\ landed' = TRUE /\ mu' = None /\ stage' = "free" /\ timer' = 0
        /\ UNCHANGED <<given, revoked, held, clock, future, interrupted>>
    BY <1>4 DEF Merge
  <2>4. rows' \in SUBSET Roles /\ future = "taken"
    BY <2>2, <2>3 DEF Candidates, Recorded, LockInv
  <2>5. BatchType' /\ BatchInv'
    BY <1>0, <1>1, <2>2, <2>3, <2>4, Resumed DEF given
  <2>6. RowsInv'
    BY <2>2, <2>3 DEF RowsInv, Candidates, Recorded, given
  <2> QED BY <1>2, <2>2, <2>3, <2>4, <2>5, <2>6
<1> QED BY <1>3, <1>4 DEF Wait

\* The user's answer, and the end of a round.
LEMMA CommandStep ==
  ASSUME EvidenceInv, Command
  PROVE  EvidenceInv'
<1> USE DEF EvidenceInv
<1>0. BatchType /\ WorldType /\ clock \in Nat /\ Main \in Players /\ Main \notin Roles
  BY TypeSplits, EvidenceAssumption DEF WorldType, Players
<1>1. ASSUME BatchType', BatchInv', UNCHANGED <<given, revoked, held, clock, future, taken, lock, interrupted>>,
             phase \in {"confirming", "submitting", "adding"},
             \A r \in Roles : pc[r] \in {"checking", "doubting"} => pc'[r] = pc[r]
      PROVE  EvidenceInv'
  <2>1. WorldType'
    BY <1>0, <1>1 DEF WorldType, given, taken, lock
  <2>2. LockInv' /\ TimerInv' /\ RowsInv'
    BY <1>0, <1>1, HolderWaitsOn DEF WorldType, given
  <2> QED BY <1>1, <2>1, <2>2, TypeSplits
<1>2. ASSUME UNCHANGED <<given, revoked, held, clock, future, taken, lock, interrupted, requested, pc, seen, asks, outcome>>,
             NEW w \in Forever..Budget, allowance' = [allowance EXCEPT ![Main] = w] \/ allowance' = allowance,
             \/ phase = "confirming" /\ phase' = "done"
             \/ /\ phase = "submitting" /\ phase' = "widening" /\ (\A r \in requested : pc[r] = "done")
                /\ allowance' = [allowance EXCEPT ![Main] = w] /\ w # Forever /\ clock + w >= Soft
             \/ phase \in {"submitting", "adding"} /\ phase' = "reporting"
                /\ (\A r \in requested : pc[r] = "done")
                /\ (phase # "adding" => ~widens \/ interrupted)
      PROVE  EvidenceInv'
  <2>1. allowance' \in [Players -> Forever..Budget] /\ (\A r \in Roles : allowance'[r] = allowance[r])
        /\ (allowance' # allowance => allowance'[Main] = w)
    BY <1>0, <1>2 DEF BatchType, Players
  <2>2. phase' = "widening" => allowance'[Main] = w
    BY <1>0, <1>2 DEF BatchType
  <2>3. BatchType' /\ BatchInv'
    BY <1>0, <1>2, <2>1, <2>2, CommandGoesOn DEF given, taken
  <2> QED BY <1>1, <1>2, <2>3
<1>3. CASE Confirm
  <2>1. CASE phase' = "submitting" /\ Submit(requested, seen)
    <3>1. /\ UNCHANGED <<given, revoked, held, clock, future, taken, lock, interrupted>> /\ phase = "confirming"
          /\ Untouched /\ requested \in SUBSET Roles
      BY <1>0, <1>3 DEF Confirm, BatchInv, PhaseInv, BatchType
    <3>2. BatchType'
      BY <1>0, <2>1, <3>1, SubmitType
    <3>3. AskInv' /\ DoubtInv' /\ AnswerInv'
      BY <1>0, <2>1, <3>1, Submitted DEF Untouched, taken
    <3>4. PhaseInv'
      BY <1>0, <2>1, <3>1 DEF PhaseInv, Submit, BatchType, Untouched
    <3>5. WidenedInv'
      BY <2>1 DEF WidenedInv
    <3>6. \A r \in Roles : pc[r] \in {"checking", "doubting"} => pc'[r] = pc[r]
      BY <3>1 DEF Untouched
    <3> QED BY <1>1, <3>1, <3>2, <3>3, <3>4, <3>5, <3>6 DEF BatchInv
  <2>2. CASE phase' = "done" /\ UNCHANGED batch
    BY <1>2, <1>3, <2>2, Timeouts DEF Confirm, batch
  <2> QED BY <1>3, <2>1, <2>2 DEF Confirm
<1>4. CASE Widen
  <2> DEFINE w == IF widens /\ ~interrupted THEN remainingOf(Soft) ELSE 0
  <2>1. /\ remainingOf(Soft) \in 0..Budget /\ clock + remainingOf(Soft) >= Soft
        /\ 0..Budget \subseteq Forever..Budget /\ Forever \notin 0..Budget
    BY <1>0, Remaining, EvidenceAssumption DEF Forever
  <2>2. w \in Forever..Budget /\ (widens /\ ~interrupted => w # Forever /\ clock + w >= Soft)
    BY <2>1, Timeouts
  <2>3. /\ phase = "submitting" /\ \A r \in requested : pc[r] = "done"
        /\ phase' = IF widens /\ ~interrupted THEN "widening" ELSE "reporting"
        /\ allowance' = [allowance EXCEPT ![Main] = w]
        /\ UNCHANGED <<given, revoked, held, clock, future, taken, lock, requested, pc, seen, asks, outcome, interrupted>>
    BY <1>4 DEF Widen
  <2> HIDE DEF w
  <2> QED BY <1>2, <2>2, <2>3
<1>5. CASE Added
  BY <1>2, <1>5, Timeouts DEF Added
<1> QED BY <1>3, <1>4, <1>5 DEF Command

\* The listing comes in, others give roles up, the user interrupts, time passes.
LEMMA WorldStep ==
  ASSUME EvidenceInv, Arrive \/ Interrupt \/ Tick \/ (\E r \in Roles : OtherDown(r))
  PROVE  EvidenceInv'
<1> USE DEF EvidenceInv
<1>0. BatchType /\ WorldType /\ clock \in 0..Horizon /\ Horizon \in Nat
  BY TypeSplits, EvidenceAssumption DEF WorldType
<1>1. /\ UNCHANGED <<given, taken, mu, timer, phase, batch>>
      /\ held' \subseteq held /\ revoked' \subseteq Roles /\ interrupted' \in BOOLEAN /\ (interrupted => interrupted')
      /\ clock' \in 0..Horizon /\ clock' >= clock /\ phase # "done"
      /\ \/ UNCHANGED <<future, stage>>
         \/ future = "flying" /\ stage = "blocking" /\ future' = "taken" /\ stage' = "merging"
         \/ future = "flying" /\ stage # "blocking" /\ future' = "arrived" /\ stage' = stage
  <2>1. CASE Arrive
    BY <1>0, <2>1 DEF Arrive, WorldType
  <2>2. CASE Interrupt
    BY <1>0, <2>2 DEF Interrupt, WorldType, lock
  <2>3. CASE Tick
    BY <1>0, <2>3 DEF Tick, WorldType, lock
  <2>4. CASE \E r \in Roles : OtherDown(r)
    BY <1>0, <2>4 DEF OtherDown, WorldType, lock
  <2> QED BY <2>1, <2>2, <2>3, <2>4
<1>2. WorldType'
  BY <1>0, <1>1 DEF WorldType, given, taken
<1>3. BatchType'
  BY <1>0, <1>1 DEF BatchType, batch
<1>4. LockInv'
  BY <1>1 DEF LockInv, Wants, batch, taken
<1>5. TimerInv' /\ RowsInv'
  BY <1>1 DEF TimerInv, RowsInv, Recorded, batch, taken, given
<1>6. PhaseInv' /\ AskInv' /\ WidenedInv'
  BY <1>0, <1>1, EvidenceAssumption DEF BatchInv, PhaseInv, AskInv, WidenedInv, Untouched, batch, taken, given
<1>7. DoubtInv'
  <2>1. \A q \in Players : allowance[q] \in Int
    BY <1>0 DEF BatchType, Forever
  <2> QED BY <1>0, <1>1, <2>1, EvidenceAssumption DEF BatchInv, DoubtInv, batch, Players
<1>8. AnswerInv'
  <2>1. UNCHANGED <<outcome, landed, rows>>
    BY <1>1 DEF batch, taken
  <2>2. clock >= Budget => clock' >= Budget
    BY <1>0, <1>1, EvidenceAssumption
  <2> QED BY <2>1, <2>2, Zenon DEF BatchInv, AnswerInv
<1> QED BY <1>2, <1>3, <1>4, <1>5, <1>6, <1>7, <1>8, TypeSplits DEF BatchInv

\* Every step keeps the invariant.
LEMMA EvidenceStep == EvidenceInv /\ [Next]_vars => EvidenceInv'
<1> SUFFICES ASSUME EvidenceInv, [Next]_vars PROVE EvidenceInv'
  OBVIOUS
<1>1. ASSUME NEW p \in Roles \union {Main}, Lock(p) PROVE EvidenceInv'
  BY <1>1, LockStep DEF Players
<1>2. CASE UNCHANGED vars
  <2>1. /\ TypeOK' /\ LockInv' /\ TimerInv' /\ RowsInv'
    BY <1>2 DEF EvidenceInv, TypeOK, LockInv, Wants, TimerInv, RowsInv, Recorded, vars, given, taken, lock, batch
  <2>2. PhaseInv' /\ AskInv' /\ DoubtInv' /\ AnswerInv' /\ WidenedInv'
    BY <1>2 DEF EvidenceInv, BatchInv, PhaseInv, AskInv, DoubtInv, AnswerInv, WidenedInv, Untouched, vars, given, taken, batch
  <2> QED BY <2>1, <2>2 DEF EvidenceInv, BatchInv
<1> QED BY <1>1, <1>2, TargetStep, WaitStep, CommandStep, WorldStep DEF Next, Ended

\* So the invariant holds throughout.
LEMMA EvidenceInvariant == Spec => []EvidenceInv
BY EvidenceInit, EvidenceStep, PTL DEF Spec

-----------------------------------------------------------------------------
(* The theorems.                                                           *)

\* Times are numbers, and what is held is a role.
LEMMA Numbers ==
  EvidenceInv => clock \in Int /\ Budget \in Int /\ Soft \in Int /\ held \subseteq Roles /\ rows \subseteq Roles
BY TypeSplits, EvidenceAssumption DEF EvidenceInv, WorldType

\* A listing that came before the end of the budget came before its end.
LEMMA InTime == ASSUME clock \in Int, Budget \in Int, ArrivedBefore(Budget) PROVE ~(clock >= Budget)
BY DEF ArrivedBefore

\* Every reachable state of a named `down` is well typed.
THEOREM TypeCorrect == Spec => []TypeOK
<1>1. EvidenceInv => TypeOK
  BY DEF EvidenceInv
<1> QED BY <1>1, EvidenceInvariant, PTL

\* NOT ACTIVE is never said against a listing that arrived within the budget
\* (activeEvidence.deactivate, wait).
THEOREM NotActiveIsSupported == Spec => []NotActiveIsUncontradicted
<1>1. EvidenceInv => NotActiveIsUncontradicted
  <2> SUFFICES ASSUME EvidenceInv, NEW r \in Roles, outcome[r] = "NOT ACTIVE", landed, ArrivedBefore(Budget)
               PROVE  r \notin rows
    BY DEF NotActiveIsUncontradicted
  <2>1. clock \in Int /\ Budget \in Int
    BY Numbers
  <2>2. ~(clock >= Budget)
    BY <2>1, InTime
  <2> QED BY <2>2, Zenon DEF EvidenceInv, BatchInv, AnswerInv
<1> QED BY <1>1, EvidenceInvariant, PTL

\* A role that ARM holds, and that this machine recorded or the listing shows, is
\* never denied if the listing arrived within the budget (merge, verifyConfirming).
THEOREM HeldStaysHeld == Spec => []HeldIsNotDenied
<1>1. EvidenceInv => HeldIsNotDenied
  <2> SUFFICES ASSUME EvidenceInv, NEW r \in held, outcome[r] = "NOT ACTIVE", ArrivedBefore(Budget)
               PROVE  local[r] = "none" /\ r \notin shown
    BY DEF HeldIsNotDenied
  <2>0. r \in Roles /\ clock \in Int /\ Budget \in Int
    BY Numbers
  <2>1. ~(clock >= Budget)
    BY <2>0, InTime
  <2>2. landed /\ r \notin rows
    BY <2>0, <2>1, Zenon DEF EvidenceInv, BatchInv, AnswerInv
  <2> QED BY <2>0, <2>2 DEF EvidenceInv, RowsInv, Recorded
<1> QED BY <1>1, EvidenceInvariant, PTL

\* If the listing arrives within its part of the budget, a `down` by filter has a
\* result for each of the roles it shows (namedRun.widened).
THEOREM WideningComplete == Spec => []WideningIsComplete
<1>1. EvidenceInv => WideningIsComplete
  <2> SUFFICES ASSUME EvidenceInv, phase = "done", widens, ~interrupted, ArrivedBefore(Soft),
                      NEW s \in Roles, outcome[s] # "none"
               PROVE  landed /\ \A r \in rows : outcome[r] # "none"
    BY DEF WideningIsComplete
  <2>1. clock \in Int /\ Soft \in Int /\ rows \subseteq Roles
    BY Numbers
  <2>2. pc[s] # "idle"
    BY DEF EvidenceInv, BatchInv, AskInv
  <2>3. landed /\ rows \subseteq requested /\ \A r \in requested : pc[r] = "done"
    BY <2>1, <2>2 DEF EvidenceInv, BatchInv, WidenedInv, PhaseInv, Untouched, ArrivedBefore
  <2> QED BY <2>1, <2>3 DEF EvidenceInv, BatchInv, AskInv
<1> QED BY <1>1, EvidenceInvariant, PTL

\* A second request for a role is sent only on the listing's word, a third never
\* (activeEvidence.deactivate, unrequestedTargets).
THEOREM AskedAgainOnlyOnEvidence == Spec => NeverAskedAgain
<1>1. EvidenceInv /\ [Next]_vars =>
        [\A r \in Roles :
           asks'[r] # asks[r] =>
             /\ outcome[r] = "none" /\ asks[r] < 2
             /\ asks[r] = 1 => landed /\ r \in rows]_vars
  <2> SUFFICES ASSUME EvidenceInv, Next, NEW r \in Roles, asks'[r] # asks[r]
               PROVE  outcome[r] = "none" /\ asks[r] < 2 /\ (asks[r] = 1 => landed /\ r \in rows)
    BY DEF vars
  <2>1. pc[r] = "asking"
    <3>1. UNCHANGED asks \/ \E s \in Roles : Send(s)
      BY DEF Next, Lock, Wait, TimeOut, Merge, Return, Selected, Widened, Submit, Ask, Land, Target, Granted,
             NoSuchAssignment, Fails, Report, Command, Confirm, Widen, Added, OtherDown, Arrive, Interrupt,
             Tick, Ended, batch, vars
    <3>2. PICK s \in Roles : Send(s)
      BY <3>1
    <3>3. pc[s] = "asking" /\ (UNCHANGED asks \/ asks' = [asks EXCEPT ![s] = @ + 1])
      BY <3>2 DEF Send, Land
    <3>4. asks \in [Roles -> Nat]
      BY DEF EvidenceInv, TypeOK
    <3> QED BY <3>3, <3>4
  <2> QED BY <2>1 DEF EvidenceInv, BatchInv, AskInv
<1> QED BY <1>1, EvidenceInvariant, PTL DEF Spec, NeverAskedAgain

=============================================================================
