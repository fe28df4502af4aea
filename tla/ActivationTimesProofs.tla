------------------------- MODULE ActivationTimesProofs -------------------------
(***************************************************************************)
(* Theorems about what ActivationRecord promises in time, for every set of *)
(* processes, roles and scopes and for every bound: how long the record    *)
(* may hide access that is in force, how long it may claim access that is  *)
(* gone, and that what was given up here is not shown as held; and about   *)
(* which activation its entries, rows and verdicts are: what leaves the    *)
(* record while it is in force, and what is reported as lost.              *)
(***************************************************************************)
EXTENDS ActivationRecordProofs

-----------------------------------------------------------------------------
(* ARM's activations and how far its listing lags.                          *)

Windows == 1..Len(window)
Of(r)   == {q \in Windows : window[q].role = r}

\* Activations begin and end when they say; a role's current one is the one that is not over.
WindowInv ==
  /\ now > 0 /\ slip \in SlipSizes \union {0}
  /\ \A q \in Windows : 0 < window[q].start /\ window[q].start <= now /\ window[q].over <= now
  /\ \A r \in Roles, q \in Windows : Current(r) = q <=> q \in Of(r) /\ ~Over(q)
  /\ \A r \in Roles : Of(r) = {} \/ \E m \in Of(r) : \A q \in Of(r) : window[q].over <= window[m].over

\* What the listing shows of a role, and is about to show: in order, an activation from
\* its start, nothing from its end, and none of it MaxLag late.
Lags(r, i) ==
  /\ view[r][i].at <= now
  /\ \A j \in 1..Len(view[r]) : i <= j => view[r][i].at <= view[r][j].at
  /\ i > 1 => now <= view[r][i].at + MaxLag
  /\ view[r][i].window # NoWindow =>
       /\ window[view[r][i].window].role = r /\ window[view[r][i].window].start = view[r][i].at
       /\ i < Len(view[r]) => window[view[r][i].window].over = view[r][i + 1].at
  /\ view[r][i].window = NoWindow /\ i > 1 => \E q \in Of(r) : Over(q) /\ window[q].over = view[r][i].at

LagInv == \A r \in Roles : \A i \in 1..Len(view[r]) : Lags(r, i)

ArmInv == WindowInv /\ LagInv

\* r is active, or was at t or later.
ActiveSince(r, t) == Active(r) \/ \E q \in Of(r) : window[q].over # NoTime /\ window[q].over >= t

-----------------------------------------------------------------------------
(* The commands under way.                                                  *)

Changing == {"submitted", "landed", "writing"}
Watching == {"listing", "listed", "asked", "verified", "reconciling"}
Tallied  == Watching \ {"listing"}

\* No command runs longer than MaxRun.
RunInv == \A p \in Procs : pc[p] # "idle" => started[p] <= now /\ now <= started[p] + MaxRun

\* An `up` found its role active, or still listed as such; a `down` left it inactive, or
\* found it only just granted.
AnswerInv ==
  \A p \in Procs : pc[p] \in Changing =>
    /\ target[p] \in Roles
    /\ answer[p].outcome \in {"ACTIVATED", "ALREADY ACTIVE", "DEACTIVATED", "NOT ACTIVE"}
    /\ answer[p].outcome \in {"ACTIVATED", "ALREADY ACTIVE"} => ActiveSince(target[p], started[p] - MaxLag)
    /\ answer[p].outcome \in {"DEACTIVATED", "NOT ACTIVE"} =>
         \A q \in Of(target[p]) : (Over(q) /\ window[q].over <= started[p]) \/ started[p] <= window[q].start + MaxLag

\* What it is about to record says so, and is stamped while it runs.
FreshInv ==
  \A p \in Procs : pc[p] \in {"landed", "writing"} =>
    /\ Held(fresh[p]) => answer[p].outcome \in {"ACTIVATED", "ALREADY ACTIVE"}
    /\ Revoked(fresh[p]) => answer[p].outcome \in {"DEACTIVATED", "NOT ACTIVE"}
    /\ Present(fresh[p])
    /\ started[p] + Ahead - slip <= fresh[p].writtenAt /\ fresh[p].writtenAt <= now + Ahead

\* An entry was written while its role was active, or not long after; a tombstone
\* before the role was active again, or not long after.
Dated(e, r) ==
  Present(e) =>
    /\ e.writtenAt <= now + Ahead
    /\ Held(e) => ActiveSince(r, e.writtenAt - Ahead - MaxRun - MaxLag)
    /\ Revoked(e) => \A q \in Of(r) : Over(q) \/ e.writtenAt <= window[q].start + MaxLag + MaxRun + Ahead

DatesInv ==
  \A r \in Roles : Dated(file[r], r) /\ \A p \in Procs : Dated(copy[p][r], r) /\ Dated(seen[p][r], r)

\* What a `status` read still outranked the listing when it started, and the roles it
\* found listed had not been inactive for long.
SeenInv ==
  \A p \in Procs, r \in Roles :
    /\ pc[p] \in Watching /\ (r \in confirming[p] \/ Revoked(seen[p][r])) =>
         started[p] + Ahead <= seen[p][r].writtenAt + Ceiling + slip
    /\ pc[p] \in Tallied /\ listing[p][r].listed => ActiveSince(r, started[p] - MaxLag)

TimesInv == ArmInv /\ RunInv /\ AnswerInv /\ FreshInv /\ DatesInv /\ SeenInv

\* What a `status` was told of the activations that are shown, or about to be: one it
\* found listed had started by then, and one it missed had not been shown.
ListedInv ==
  \A p \in Procs, r \in Roles : pc[p] \in Tallied =>
    /\ r \in unread[p] => ~listing[p][r].listed
    /\ listing[p][r].listed => listing[p][r].start <= now
    /\ \A i \in 1..Len(view[r]) : view[r][i].window # NoWindow =>
         /\ listing[p][r].listed => listing[p][r].start <= view[r][i].at
         /\ ~listing[p][r].listed /\ r \notin unread[p] => started[p] <= view[r][i].at + MaxLag

\* What has been given up here is over, and had been active for as long as PIM demands.
GivenUp(q) == q \in Windows /\ Over(q) /\ window[q].start + MinActive <= window[q].over
GivenUpInv ==
  /\ \A q \in givenUp : GivenUp(q)
  /\ \A p \in Procs : pc[p] \in Changing /\ answer[p].ended # NoWindow =>
       GivenUp(answer[p].ended) /\ window[answer[p].ended].role = target[p]

\* Of an activation that is given up and still listed, there is a tombstone from after
\* its end.
DeniedInv ==
  \A r \in Roles : Listed(r) \in givenUp =>
    Revoked(file[r]) /\ window[Listed(r)].over + Ahead - slip <= file[r].writtenAt

DenyInv == ListedInv /\ GivenUpInv /\ DeniedInv

-----------------------------------------------------------------------------
(* One step of ARM.                                                         *)

\* What ARM keeps are windows and views of the right shape.
ArmShape ==
  /\ now \in Nat /\ slip \in Nat /\ Len(window) \in Nat
  /\ \A q \in Windows : window[q].role \in Roles /\ window[q].start \in Nat /\ window[q].over \in Nat
  /\ \A r \in Roles : Len(view[r]) \in Nat \ {0}
  /\ \A r \in Roles : \A i \in 1..Len(view[r]) : view[r][i].at \in Nat /\ view[r][i].window \in 0..Len(window)

\* Types give the shapes.
LEMMA ShapeOf == TypeInv => ArmShape
<1> SUFFICES ASSUME TypeInv PROVE ArmShape
  OBVIOUS
<1>1. /\ now \in Nat /\ slip \in Nat /\ window \in Seq(Window) /\ view \in [Roles -> Seq(Shown) \ {<<>>}]
      /\ \A r \in Roles : \A i \in 1..Len(view[r]) : view[r][i].window \in 0..Len(window)
  BY DEF TypeInv, TypeOK, ViewInv
<1>5. Len(window) \in Nat
  BY <1>1, LenProperties
<1>2. \A q \in Windows : window[q] \in Window
  BY <1>1, ElementOfSeq DEF Windows
<1>3. ASSUME NEW r \in Roles PROVE Len(view[r]) \in Nat \ {0}
  BY <1>1, EmptySeq
<1>4. ASSUME NEW r \in Roles, NEW i \in 1..Len(view[r]) PROVE view[r][i] \in Shown
  BY <1>1, ElementOfSeq
<1> QED BY <1>1, <1>2, <1>3, <1>4, <1>5 DEF ArmShape, Window, Shown

\* The same of the next state.
LEMMA ShapeOfNext == TypeInv' => ArmShape'
<1> SUFFICES ASSUME TypeInv' PROVE ArmShape'
  OBVIOUS
<1>1. /\ now' \in Nat /\ slip' \in Nat /\ window' \in Seq(Window) /\ view' \in [Roles -> Seq(Shown) \ {<<>>}]
      /\ \A r \in Roles : \A i \in 1..Len(view'[r]) : view'[r][i].window \in 0..Len(window')
  BY DEF TypeInv, TypeOK, ViewInv
<1>5. Len(window') \in Nat
  BY <1>1, LenProperties
<1>2. \A q \in 1..Len(window') : window'[q] \in Window
  BY <1>1, ElementOfSeq
<1>3. ASSUME NEW r \in Roles PROVE Len(view'[r]) \in Nat \ {0}
  BY <1>1, EmptySeq
<1>4. ASSUME NEW r \in Roles, NEW i \in 1..Len(view'[r]) PROVE view'[r][i] \in Shown
  BY <1>1, ElementOfSeq
<1> QED BY <1>1, <1>2, <1>3, <1>4, <1>5 DEF ArmShape, Windows, Window, Shown

\* Who changes what ARM keeps, and the clock.
Granting == \E r \in Roles, d \in Durations : Grant(r, d) /\ UNCHANGED <<now, slip>>
Revoking == \E r \in Roles : Revoke(r) /\ UNCHANGED <<now, slip>>
Showing  == \E r \in Roles : CatchUp(r) /\ UNCHANGED <<now, slip>>

\* Only time, a step of the clock, a grant, an end and the listing catching up touch them.
LEMMA StepKinds ==
  ASSUME [Next]_vars
  PROVE  Tick \/ StepClockBack \/ Granting \/ Revoking \/ Showing \/ UNCHANGED <<now, slip, window, view>>
<1>1. ASSUME NEW r \in Roles, ARM(r) PROVE Granting \/ Revoking \/ Showing
  BY <1>1 DEF ARM, Expire, ElsewhereUp, ElsewhereDown, CatchUp, clock, Granting, Revoking, Showing
<1>2. ASSUME NEW p \in Procs, NEW r \in Roles, Up(p, r) \/ Down(p, r)
      PROVE  Granting \/ Revoking \/ UNCHANGED <<now, slip, window, view>>
  BY <1>2 DEF Up, Down, UpGranted, UpExists, DownRevoked, DownNotActive, Submit, arm, Granting, Revoking
<1>3. ASSUME NEW p \in Procs, RecordResult(p) \/ LockAndRead(p) \/ WriteResult(p) \/ Status(p) \/ Die(p)
      PROVE  UNCHANGED <<now, slip, window, view>>
  BY <1>3 DEF RecordResult, LockAndRead, WriteResult, Status, Die, ReadLocalRecord, ListActivations,
       VerifyConfirming, AskAll, WriteReconciled, Forget, clock, arm
<1>4. CASE UNCHANGED vars
  BY <1>4 DEF vars, clock, arm
<1> QED BY <1>1, <1>2, <1>3, <1>4 DEF Next

\* What a step does to the activations and to what is shown of them.
ArmMoved ==
  /\ now <= now' /\ slip <= slip'
  /\ Len(window) <= Len(window')
  /\ \A q \in Windows :
       /\ window'[q].role = window[q].role /\ window'[q].start = window[q].start
       /\ window'[q].over = window[q].over \/ (~Over(q) /\ window'[q].over = now)
  /\ \A q \in 1..Len(window') : q \in Windows \/ (window'[q].start = now /\ window'[q].over = NoTime)
  /\ \A r \in Roles : Active(r) => Active(r)' \/ \E q \in Of(r) : window'[q].over = now
  /\ \A r \in Roles : \A i \in 1..Len(view'[r]) :
       view'[r][i].at = now \/ \E j \in 1..Len(view[r]) : view'[r][i] = view[r][j]
  /\ \A r \in Roles : Listed(r)' = Listed(r) \/ (Lagging(r) /\ Listed(r)' = view[r][2].window)

\* A granted request opens a window.
LEMMA GrantMoves ==
  ASSUME TypeInv, ArmInv, NEW r \in Roles, NEW d \in Durations, Grant(r, d), UNCHANGED <<now, slip>>
  PROVE  ArmInv' /\ ArmMoved
<1> DEFINE n == Len(window) + 1
           w == [role |-> r, start |-> now, end |-> now + d, over |-> NoTime]
           v == [window |-> n, at |-> now]
           m == Len(view[r])
<1>0. ArmShape
  BY ShapeOf
<1>1. /\ window \in Seq(Window) /\ view \in [Roles -> Seq(Shown) \ {<<>>}] /\ now \in Nat /\ d \in Nat
  BY RecordAssumption DEF TypeInv, TypeOK
<1>2. w \in Window /\ v \in Shown /\ n \in Nat
  BY <1>0, <1>1 DEF Window, Shown, NoTime, ArmShape
<1>3. window' = Append(window, w) /\ view' = [view EXCEPT ![r] = Append(@, v)] /\ Current(r) = NoWindow
  BY DEF Grant, Change, Active
<1>4. /\ Len(window') = n /\ \A q \in Windows : window'[q] = window[q]
      /\ window'[n] = w
  BY <1>1, <1>2, <1>3, AppendProperties DEF Windows
<1>5. /\ view'[r] = Append(view[r], v) /\ Len(view'[r]) = m + 1
      /\ \A i \in 1..m : view'[r][i] = view[r][i]
      /\ view'[r][m + 1] = v
      /\ \A s \in Roles : s # r => view'[s] = view[s]
  <2>1. view'[r] = Append(view[r], v) /\ \A s \in Roles : s # r => view'[s] = view[s]
    BY <1>1, <1>3
  <2> QED BY <1>1, <1>2, <2>1, AppendProperties
<1>6. w.role = r /\ w.start = now /\ w.over = NoTime /\ v.window = n /\ v.at = now
  OBVIOUS
<1>7. /\ n \notin Windows /\ 1..Len(window') = Windows \union {n} /\ m \in Nat \ {0} /\ n # NoWindow
      /\ m \in 1..m /\ view[r][m].window = NoWindow
  BY <1>0, <1>3, <1>4 DEF ArmShape, Windows, Current, NoWindow
<1> HIDE DEF n, w, v, m
<1>8. Of(r)' = Of(r) \union {n} /\ \A s \in Roles : s # r => Of(s)' = Of(s)
  BY <1>4, <1>6, <1>7 DEF Of, Windows
<1>9. Current(r)' = n /\ \A s \in Roles : s # r => Current(s)' = Current(s)
  BY <1>5, <1>6 DEF Current
<1>10. WindowInv'
  <2>1. now' > 0 /\ slip' \in SlipSizes \union {0}
    BY DEF ArmInv, WindowInv
  <2>2. ASSUME NEW q \in 1..Len(window')
        PROVE  0 < window'[q].start /\ window'[q].start <= now' /\ window'[q].over <= now'
    BY <1>0, <1>4, <1>6, <1>7, <2>2 DEF ArmInv, WindowInv, ArmShape, NoTime
  <2>3. ASSUME NEW s \in Roles, NEW q \in 1..Len(window')
        PROVE  Current(s)' = q <=> q \in Of(s)' /\ window'[q].over = NoTime
    <3>1. CASE q = n
      <4>1. \A x \in Of(s) : x # n
        BY <1>7 DEF Of
      <4>2. Current(s) # n
        BY <1>0, <1>7 DEF ArmShape, Current, n
      <4> QED BY <1>4, <1>6, <1>8, <1>9, <3>1, <4>1, <4>2
    <3>2. CASE q \in Windows
      <4>1. Current(s) = q <=> q \in Of(s) /\ window[q].over = NoTime
        BY <3>2 DEF ArmInv, WindowInv, Over
      <4>2. q # n /\ window'[q] = window[q]
        BY <1>4, <1>7, <3>2
      <4>3. CASE s = r
        <5>1. Current(s)' = n /\ Current(s) # q
          BY <1>0, <1>3, <1>9, <3>2, <4>3 DEF ArmShape, Windows, NoWindow
        <5> QED BY <1>8, <4>1, <4>2, <4>3, <5>1
      <4>4. CASE s # r
        BY <1>8, <1>9, <4>1, <4>2, <4>4
      <4> QED BY <4>3, <4>4
    <3> QED BY <1>7, <3>1, <3>2
  <2>5. ASSUME NEW s \in Roles
        PROVE  Of(s)' = {} \/ \E l \in Of(s)' : \A q \in Of(s)' : window'[q].over <= window'[l].over
    <3>0. \A q \in Of(s) : window'[q] = window[q] /\ window[q].over \in Nat
      BY <1>0, <1>4 DEF Of, ArmShape
    <3>1. CASE s # r \/ Of(s) # {}
      <4>1. Of(s) = {} \/ \E l \in Of(s) : \A q \in Of(s) : window[q].over <= window[l].over
        BY DEF ArmInv, WindowInv
      <4> QED BY <1>4, <1>6, <1>8, <3>0, <3>1, <4>1 DEF NoTime
    <3>2. CASE s = r /\ Of(s) = {}
      <4>1. Of(s)' = {n} /\ window'[n].over <= window'[n].over
        BY <1>4, <1>6, <1>8, <3>2 DEF NoTime
      <4> QED BY <4>1
    <3> QED BY <3>1, <3>2
  <2> QED BY <2>1, <2>2, <2>3, <2>5 DEF WindowInv, Windows, Over
<1>11. ASSUME NEW s \in Roles, NEW i \in 1..Len(view'[s]) PROVE Lags(s, i)'
  <2>1. CASE s # r \/ i \in 1..m
    <3>1. /\ i \in 1..Len(view[s]) /\ view'[s][i] = view[s][i]
      BY <1>5, <1>11, <2>1 DEF m
    <3>2. Lags(s, i)
      BY <3>1 DEF ArmInv, LagInv
    <3>3. view'[s][i].at <= now' /\ (i > 1 => now' <= view'[s][i].at + MaxLag)
      BY <3>1, <3>2 DEF Lags
    <3>4. ASSUME NEW j \in 1..Len(view'[s]), i <= j PROVE view'[s][i].at <= view'[s][j].at
      <4>1. CASE j \in 1..Len(view[s])
        <5>1. view'[s][j] = view[s][j]
          BY <1>5, <4>1 DEF m
        <5> QED BY <3>1, <3>2, <3>4, <4>1, <5>1 DEF Lags
      <4>2. CASE s = r /\ j = m + 1
        BY <1>5, <1>6, <3>1, <3>2, <4>2 DEF Lags
      <4>3. s = r /\ j # m + 1 => j \in 1..Len(view[s])
        BY <1>5, <1>7, <3>4 DEF m
      <4>4. s # r => j \in 1..Len(view[s])
        BY <1>5, <3>4
      <4> QED BY <4>1, <4>2, <4>3, <4>4
    <3>5. ASSUME view'[s][i].window # NoWindow
          PROVE  /\ window'[view'[s][i].window].role = s /\ window'[view'[s][i].window].start = view'[s][i].at
                 /\ i < Len(view'[s]) => window'[view'[s][i].window].over = view'[s][i + 1].at
      <4>1. view[s][i].window \in Windows
        BY <1>0, <3>1, <3>5 DEF ArmShape, Windows, NoWindow
      <4>2. window'[view[s][i].window] = window[view[s][i].window]
        BY <1>4, <4>1
      <4>3. CASE s # r
        BY <1>5, <3>1, <3>2, <3>5, <4>2, <4>3 DEF Lags
      <4>4. CASE s = r
        <5>1. i < m
          BY <1>7, <2>1, <3>1, <3>5, <4>4 DEF m
        <5>2. i + 1 \in 1..m /\ view'[s][i + 1] = view[s][i + 1]
          BY <1>5, <1>7, <3>1, <4>4, <5>1
        <5> QED BY <3>1, <3>2, <3>5, <4>2, <4>4, <5>1, <5>2 DEF Lags, m
      <4> QED BY <4>3, <4>4
    <3>6. ASSUME view'[s][i].window = NoWindow, i > 1
          PROVE  \E q \in Of(s)' : window'[q].over # NoTime /\ window'[q].over = view'[s][i].at
      <4>1. PICK q \in Of(s) : window[q].over # NoTime /\ window[q].over = view[s][i].at
        BY <3>1, <3>2, <3>6 DEF Lags, Over
      <4>2. q \in Of(s)' /\ window'[q] = window[q]
        BY <1>4, <1>8 DEF Of
      <4> QED BY <3>1, <4>1, <4>2
    <3> QED BY <3>3, <3>4, <3>5, <3>6 DEF Lags, Over
  <2>2. CASE s = r /\ i = m + 1
    <3>1. view'[s][i].at = now /\ view'[s][i].window = n /\ i = Len(view'[s])
      BY <1>5, <1>6, <2>2
    <3> QED BY <1>0, <1>4, <1>6, <1>7, <2>2, <3>1, RecordAssumption DEF Lags, ArmShape
  <2> QED BY <1>5, <1>7, <1>11, <2>1, <2>2
<1>12. ArmMoved
  <2>1. \A s \in Roles : Active(s) => Active(s)'
    BY <1>3, <1>9 DEF Active
  <2>2. ASSUME NEW s \in Roles, NEW i \in 1..Len(view'[s])
        PROVE  view'[s][i].at = now \/ \E j \in 1..Len(view[s]) : view'[s][i] = view[s][j]
    BY <1>5, <1>6, <1>7, <2>2 DEF m
  <2>3. ASSUME NEW s \in Roles PROVE Listed(s)' = Listed(s)
    <3>1. view'[s][1] = view[s][1]
      BY <1>5, <1>7
    <3>2. Listed(s) = view[s][1].window /\ Listed(s)' = view'[s][1].window
      BY <1>1 DEF Listed
    <3> QED BY <3>1, <3>2
  <2> QED BY <1>0, <1>4, <1>6, <1>7, <2>1, <2>2, <2>3 DEF ArmMoved, ArmShape, n, Windows
<1> QED BY <1>10, <1>11, <1>12 DEF ArmInv, LagInv

\* An activation that ends is over at once, and the listing has one more thing to show.
LEMMA RevokeMoves ==
  ASSUME TypeInv, ArmInv, NEW r \in Roles, Revoke(r), UNCHANGED <<now, slip>>
  PROVE  ArmInv' /\ ArmMoved
<1> DEFINE n == Current(r)
           v == [window |-> NoWindow, at |-> now]
           m == Len(view[r])
<1>0. ArmShape
  BY ShapeOf
<1>1. /\ window \in Seq(Window) /\ view \in [Roles -> Seq(Shown) \ {<<>>}] /\ now \in Nat
  BY DEF TypeInv, TypeOK
<1>2. v \in Shown /\ v.window = NoWindow /\ v.at = now
  BY <1>1 DEF Shown, NoWindow
<1>3. window' = [window EXCEPT ![n].over = now] /\ view' = [view EXCEPT ![r] = Append(@, v)] /\ n # NoWindow
  BY DEF Revoke, Change, Active
<1>4. /\ m \in Nat \ {0} /\ m \in 1..m /\ n \in Windows /\ n # NoWindow /\ view[r][m].window = n
      /\ n \in Of(r) /\ window[n].over = NoTime
  <2>1. m \in Nat \ {0} /\ m \in 1..m /\ n \in Windows /\ view[r][m].window = n
    BY <1>0, <1>3 DEF ArmShape, Windows, Current, NoWindow
  <2> QED BY <1>3, <2>1 DEF ArmInv, WindowInv, Over
<1>5. /\ view'[r] = Append(view[r], v) /\ Len(view'[r]) = m + 1
      /\ \A i \in 1..m : view'[r][i] = view[r][i]
      /\ view'[r][m + 1] = v
      /\ \A s \in Roles : s # r => view'[s] = view[s]
  <2>1. view'[r] = Append(view[r], v) /\ \A s \in Roles : s # r => view'[s] = view[s]
    BY <1>1, <1>3
  <2> QED BY <1>1, <1>2, <2>1, AppendProperties
<1> HIDE DEF n, v, m
<1>6. /\ Len(window') = Len(window) /\ \A q \in Windows : q # n => window'[q] = window[q]
      /\ window'[n].role = window[n].role /\ window'[n].start = window[n].start /\ window'[n].over = now
  <2>1. window[n] \in Window
    BY <1>1, <1>4, ElementOfSeq DEF Windows
  <2>2. window' = [window EXCEPT ![n] = [window[n] EXCEPT !.over = now]]
    BY <1>3
  <2>3. /\ [window[n] EXCEPT !.over = now] \in Window
        /\ [window[n] EXCEPT !.over = now].role = window[n].role
        /\ [window[n] EXCEPT !.over = now].start = window[n].start
        /\ [window[n] EXCEPT !.over = now].over = now
    BY <1>1, <2>1 DEF Window
  <2>4. /\ Len(window') = Len(window)
        /\ \A q \in Windows : window'[q] = IF q = n THEN [window[n] EXCEPT !.over = now] ELSE window[q]
    BY <1>1, <1>4, <2>2, <2>3, ExceptSeq DEF Windows
  <2> QED BY <1>4, <2>3, <2>4
<1>7. \A q \in Windows : window'[q].role = window[q].role /\ window'[q].start = window[q].start
  BY <1>6
<1>8. \A s \in Roles : Of(s)' = Of(s)
  BY <1>6, <1>7 DEF Of, Windows
<1>9. Current(r)' = NoWindow /\ \A s \in Roles : s # r => Current(s)' = Current(s)
  BY <1>2, <1>5 DEF Current
<1>10. WindowInv'
  <2>1. now' > 0 /\ slip' \in SlipSizes \union {0}
    BY DEF ArmInv, WindowInv
  <2>2. ASSUME NEW q \in Windows
        PROVE  0 < window'[q].start /\ window'[q].start <= now' /\ window'[q].over <= now'
    BY <1>0, <1>6, <1>7, <2>2 DEF ArmInv, WindowInv, ArmShape
  <2>3. ASSUME NEW s \in Roles, NEW q \in Windows
        PROVE  Current(s)' = q <=> q \in Of(s)' /\ window'[q].over = NoTime
    <3>1. Current(s) = q <=> q \in Of(s) /\ window[q].over = NoTime
      BY DEF ArmInv, WindowInv, Over
    <3>2. CASE q = n
      <4>1. now # NoTime
        BY <1>1 DEF ArmInv, WindowInv, NoTime
      <4>2. CASE s = r
        BY <1>4, <1>6, <1>9, <3>2, <4>1, <4>2
      <4>3. CASE s # r
        <5>1. n \notin Of(s)
          BY <1>4, <4>3 DEF Of
        <5> QED BY <1>6, <1>9, <3>1, <3>2, <4>1, <4>3, <5>1
      <4> QED BY <4>2, <4>3
    <3>3. CASE q # n /\ s # r
      BY <1>6, <1>8, <1>9, <3>1, <3>3
    <3>4. CASE q # n /\ s = r
      <4>1. Current(s) = n /\ Current(s)' # q
        BY <1>0, <1>9, <3>4 DEF n, Windows, NoWindow, ArmShape
      <4> QED BY <1>6, <1>8, <3>1, <3>4, <4>1
    <3> QED BY <3>2, <3>3, <3>4
  <2>4. ASSUME NEW s \in Roles
        PROVE  Of(s)' = {} \/ \E l \in Of(s)' : \A q \in Of(s)' : window'[q].over <= window'[l].over
    <3>1. CASE s # r
      <4>1. n \notin Of(s)
        BY <1>4, <3>1 DEF Of
      <4>2. \A q \in Of(s) : window'[q] = window[q]
        BY <1>6, <4>1 DEF Of
      <4>3. Of(s) = {} \/ \E l \in Of(s) : \A q \in Of(s) : window[q].over <= window[l].over
        BY DEF ArmInv, WindowInv
      <4> QED BY <1>8, <4>2, <4>3
    <3>2. CASE s = r
      <4>1. \A q \in Of(r) : window'[q].over <= window'[n].over
        BY <1>0, <1>6, <2>2 DEF Of, ArmInv, WindowInv, ArmShape
      <4> QED BY <1>4, <1>8, <3>2, <4>1
    <3> QED BY <3>1, <3>2
  <2> QED BY <1>6, <2>1, <2>2, <2>3, <2>4 DEF WindowInv, Windows, Over
<1>11. ASSUME NEW s \in Roles, NEW i \in 1..Len(view'[s]) PROVE Lags(s, i)'
  <2>1. CASE s # r \/ i \in 1..m
    <3>1. /\ i \in 1..Len(view[s]) /\ view'[s][i] = view[s][i]
      BY <1>5, <1>11, <2>1 DEF m
    <3>2. Lags(s, i)
      BY <3>1 DEF ArmInv, LagInv
    <3>3. view'[s][i].at <= now' /\ (i > 1 => now' <= view'[s][i].at + MaxLag)
      BY <3>1, <3>2 DEF Lags
    <3>4. ASSUME NEW j \in 1..Len(view'[s]), i <= j PROVE view'[s][i].at <= view'[s][j].at
      <4>1. CASE j \in 1..Len(view[s])
        <5>1. view'[s][j] = view[s][j]
          BY <1>5, <4>1 DEF m
        <5> QED BY <3>1, <3>2, <3>4, <4>1, <5>1 DEF Lags
      <4>2. CASE s = r /\ j = m + 1
        BY <1>2, <1>5, <3>1, <3>2, <4>2 DEF Lags
      <4>3. s = r /\ j # m + 1 => j \in 1..Len(view[s])
        BY <1>4, <1>5, <3>4 DEF m
      <4>4. s # r => j \in 1..Len(view[s])
        BY <1>5, <3>4
      <4> QED BY <4>1, <4>2, <4>3, <4>4
    <3>5. ASSUME view'[s][i].window # NoWindow
          PROVE  /\ window'[view'[s][i].window].role = s /\ window'[view'[s][i].window].start = view'[s][i].at
                 /\ i < Len(view'[s]) => window'[view'[s][i].window].over = view'[s][i + 1].at
      <4> DEFINE q == view[s][i].window
      <4>1. q \in Windows /\ window[q].role = s /\ window[q].start = view[s][i].at
            /\ (i < Len(view[s]) => window[q].over = view[s][i + 1].at)
        BY <1>0, <3>1, <3>2, <3>5 DEF ArmShape, Windows, NoWindow, Lags
      <4> HIDE DEF q
      <4>2. view'[s][i].window = q /\ window'[q].role = s /\ window'[q].start = view'[s][i].at
        BY <1>7, <3>1, <4>1 DEF q
      <4>3. ASSUME i < Len(view[s])
            PROVE  window'[q].over = view'[s][i + 1].at
        <5>1. i + 1 \in 1..Len(view[s]) /\ view'[s][i + 1] = view[s][i + 1]
          <6>1. i \in Nat /\ Len(view[s]) \in Nat
            BY <1>0, <3>1 DEF ArmShape
          <6>2. i + 1 \in 1..Len(view[s])
            BY <3>1, <4>3, <6>1
          <6> QED BY <1>5, <6>2 DEF m
        <5>2. view[s][i].at <= view[s][i + 1].at
          BY <1>0, <3>1, <3>2, <4>3, <5>1 DEF Lags, ArmShape
        <5>3. window[q].over # NoTime
          BY <1>0, <3>1, <4>1, <4>3, <5>1, <5>2 DEF ArmInv, WindowInv, NoTime, ArmShape
        <5>4. q # n
          BY <1>4, <5>3
        <5> QED BY <1>6, <4>1, <4>3, <5>1, <5>4
      <4>4. CASE s = r /\ i = m
        <5>1. q = n
          BY <1>4, <4>4 DEF q
        <5> QED BY <1>2, <1>5, <1>6, <4>2, <4>4, <5>1
      <4>5. CASE s = r /\ i # m
        BY <1>4, <2>1, <4>2, <4>3, <4>5, <3>1 DEF m
      <4>6. CASE s # r
        BY <1>5, <4>2, <4>3, <4>6
      <4> QED BY <4>4, <4>5, <4>6
    <3>6. ASSUME view'[s][i].window = NoWindow, i > 1
          PROVE  \E q \in Of(s)' : window'[q].over # NoTime /\ window'[q].over = view'[s][i].at
      <4>1. PICK q \in Of(s) : window[q].over # NoTime /\ window[q].over = view[s][i].at
        BY <3>1, <3>2, <3>6 DEF Lags, Over
      <4>2. q \in Of(s)' /\ window'[q] = window[q]
        BY <1>4, <1>6, <1>8, <4>1 DEF Of
      <4> QED BY <3>1, <4>1, <4>2
    <3> QED BY <3>3, <3>4, <3>5, <3>6 DEF Lags, Over
  <2>2. CASE s = r /\ i = m + 1
    <3>1. view'[s][i].at = now /\ view'[s][i].window = NoWindow /\ i = Len(view'[s])
      BY <1>2, <1>5, <2>2
    <3>2. n \in Of(s)' /\ window'[n].over = now /\ now # NoTime
      BY <1>1, <1>4, <1>6, <1>8, <2>2 DEF ArmInv, WindowInv, NoTime
    <3>3. \A j \in 1..Len(view'[s]) : i <= j => j = i
      BY <1>4, <3>1, <2>2
    <3> QED BY <1>1, <3>1, <3>2, <3>3, RecordAssumption DEF Lags, Over
  <2> QED BY <1>4, <1>5, <1>11, <2>1, <2>2
<1>12. ArmMoved
  <2>1. ASSUME NEW s \in Roles, Active(s) PROVE Active(s)' \/ \E q \in Of(s) : window'[q].over = now
    BY <1>4, <1>6, <1>9, <2>1 DEF Active
  <2>2. ASSUME NEW s \in Roles, NEW i \in 1..Len(view'[s])
        PROVE  view'[s][i].at = now \/ \E j \in 1..Len(view[s]) : view'[s][i] = view[s][j]
    BY <1>2, <1>4, <1>5, <2>2 DEF m
  <2>3. ASSUME NEW s \in Roles PROVE Listed(s)' = Listed(s)
    <3>1. view'[s][1] = view[s][1]
      BY <1>4, <1>5
    <3>2. Listed(s) = view[s][1].window /\ Listed(s)' = view'[s][1].window
      BY <1>1 DEF Listed
    <3> QED BY <3>1, <3>2
  <2>4. \A q \in Windows : window'[q].over = window[q].over \/ (~Over(q) /\ window'[q].over = now)
    BY <1>4, <1>6 DEF Over
  <2> QED BY <1>0, <1>6, <1>7, <2>1, <2>2, <2>3, <2>4 DEF ArmMoved, ArmShape, Windows
<1> QED BY <1>10, <1>11, <1>12 DEF ArmInv, LagInv

\* The listing shows the next thing.
LEMMA CatchUpMoves ==
  ASSUME TypeInv, ArmInv, NEW r \in Roles, CatchUp(r), UNCHANGED <<now, slip>>
  PROVE  ArmInv' /\ ArmMoved
<1> DEFINE m == Len(view[r])
<1>0. ArmShape
  BY ShapeOf
<1>1. /\ view \in [Roles -> Seq(Shown) \ {<<>>}] /\ UNCHANGED window
      /\ view' = [view EXCEPT ![r] = Tail(@)] /\ m > 1
  BY DEF TypeInv, TypeOK, CatchUp, Lagging
<1>2. m \in Nat
  BY <1>0 DEF ArmShape
<1>3. /\ Len(view'[r]) = m - 1
      /\ \A i \in 1..(m - 1) : view'[r][i] = view[r][i + 1]
      /\ \A s \in Roles : s # r => view'[s] = view[s]
  <2>1. view'[r] = Tail(view[r]) /\ view[r] \in Seq(Shown) /\ view[r] # <<>>
        /\ \A s \in Roles : s # r => view'[s] = view[s]
    BY <1>1
  <2> QED BY <2>1, HeadTailProperties
<1> HIDE DEF m
<1>4. \A s \in Roles : Of(s)' = Of(s)
  BY <1>1 DEF Of, Windows
<1>5. \A s \in Roles : Current(s)' = Current(s)
  <2>1. view'[r][m - 1] = view[r][m]
    <3>1. m - 1 \in 1..(m - 1) /\ (m - 1) + 1 = m
      BY <1>1, <1>2
    <3> QED BY <1>3, <3>1
  <2>2. Current(r)' = Current(r)
    BY <1>3, <2>1 DEF Current, m
  <2>3. \A s \in Roles : s # r => Current(s)' = Current(s)
    BY <1>3 DEF Current
  <2> QED BY <2>2, <2>3
<1>6. WindowInv'
  <2>1. now' > 0 /\ slip' \in SlipSizes \union {0}
        /\ \A q \in Windows : 0 < window[q].start /\ window[q].start <= now /\ window[q].over <= now
    BY DEF ArmInv, WindowInv
  <2>2. \A s \in Roles, q \in Windows : Current(s)' = q <=> q \in Of(s)' /\ window[q].over = NoTime
    BY <1>4, <1>5 DEF ArmInv, WindowInv, Over
  <2>3. \A s \in Roles : Of(s)' = {} \/ \E l \in Of(s)' : \A q \in Of(s)' : window[q].over <= window[l].over
    BY <1>4 DEF ArmInv, WindowInv
  <2> QED BY <1>1, <2>1, <2>2, <2>3 DEF WindowInv, Windows, Over
<1>7. ASSUME NEW s \in Roles, NEW i \in 1..Len(view'[s]) PROVE Lags(s, i)'
  <2>1. CASE s # r
    <3>1. view'[s] = view[s] /\ i \in 1..Len(view[s])
      BY <1>3, <2>1
    <3>2. Lags(s, i)
      BY <3>1 DEF ArmInv, LagInv
    <3> QED BY <1>1, <1>4, <3>1, <3>2 DEF Lags, Over
  <2>2. CASE s = r
    <3>1. i \in 1..(m - 1) /\ i + 1 \in 1..m /\ i \in Nat
      BY <1>2, <1>3, <2>2
    <3>2. Lags(r, i + 1)
      BY <3>1 DEF ArmInv, LagInv, m
    <3>3. view'[s][i] = view[r][i + 1]
      BY <1>3, <2>2, <3>1
    <3>4. view'[s][i].at <= now' /\ (i > 1 => now' <= view'[s][i].at + MaxLag)
      BY <3>1, <3>2, <3>3 DEF Lags
    <3>5. ASSUME NEW j \in 1..Len(view'[s]), i <= j PROVE view'[s][i].at <= view'[s][j].at
      <4>1. j \in 1..(m - 1) /\ j + 1 \in 1..m /\ i + 1 <= j + 1
        BY <1>2, <1>3, <2>2, <3>1, <3>5
      <4>2. view'[s][j] = view[r][j + 1]
        BY <1>3, <2>2, <4>1
      <4> QED BY <3>2, <3>3, <4>1, <4>2 DEF Lags, m
    <3>6. ASSUME view'[s][i].window # NoWindow
          PROVE  /\ window'[view'[s][i].window].role = s /\ window'[view'[s][i].window].start = view'[s][i].at
                 /\ i < Len(view'[s]) => window'[view'[s][i].window].over = view'[s][i + 1].at
      <4>1. ASSUME i < m - 1 PROVE i + 1 < m /\ view'[s][i + 1] = view[r][(i + 1) + 1]
        <5>1. i + 1 \in 1..(m - 1) /\ i + 1 < m
          BY <1>2, <3>1, <4>1
        <5> QED BY <1>3, <2>2, <5>1
      <4> QED BY <1>1, <1>3, <2>2, <3>2, <3>3, <3>6, <4>1 DEF Lags, m
    <3>7. ASSUME view'[s][i].window = NoWindow, i > 1
          PROVE  \E q \in Of(s)' : Over(q)' /\ window'[q].over = view'[s][i].at
      <4>1. i + 1 > 1
        BY <3>1
      <4>2. PICK q \in Of(r) : Over(q) /\ window[q].over = view[r][i + 1].at
        BY <3>2, <3>3, <3>7, <4>1 DEF Lags
      <4> QED BY <1>1, <1>4, <2>2, <3>3, <4>2 DEF Over
    <3> QED BY <3>4, <3>5, <3>6, <3>7 DEF Lags
  <2> QED BY <2>1, <2>2
<1>8. ArmMoved
  <2>1. \A s \in Roles : Active(s) => Active(s)'
    BY <1>5 DEF Active
  <2>2. ASSUME NEW s \in Roles, NEW i \in 1..Len(view'[s]) PROVE \E j \in 1..Len(view[s]) : view'[s][i] = view[s][j]
    <3>1. CASE s = r
      <4>1. i \in 1..(m - 1) /\ i + 1 \in 1..m
        BY <1>2, <1>3, <2>2, <3>1
      <4> QED BY <1>3, <3>1, <4>1 DEF m
    <3>2. CASE s # r
      BY <1>3, <2>2, <3>2
    <3> QED BY <3>1, <3>2
  <2>3. ASSUME NEW s \in Roles PROVE Listed(s)' = Listed(s) \/ (Lagging(s) /\ Listed(s)' = view[s][2].window)
    <3>1. CASE s = r
      <4>1. view'[r][1] = view[r][2] /\ Lagging(r)
        BY <1>1, <1>2, <1>3 DEF Lagging, m
      <4>2. Listed(r)' = view'[r][1].window
        BY DEF Listed
      <4> QED BY <3>1, <4>1, <4>2
    <3>2. CASE s # r
      BY <1>3, <3>2 DEF Listed
    <3> QED BY <3>1, <3>2
  <2> QED BY <1>0, <1>1, <2>1, <2>2, <2>3 DEF ArmMoved, ArmShape, Windows
<1> QED BY <1>6, <1>7, <1>8 DEF ArmInv, LagInv

\* Time passes, but no change waits longer than MaxLag to be shown.
LEMMA TickMoves ==
  ASSUME TypeInv, ArmInv, Tick
  PROVE  ArmInv' /\ ArmMoved
<1>0. ArmShape /\ now \in Nat /\ MaxLag \in Nat
  BY ShapeOf, RecordAssumption DEF ArmShape
<1>1. now' = now + 1 /\ UNCHANGED <<slip, window, view>> /\ \A r \in Roles : Lagging(r) => now < view[r][2].at + MaxLag
  BY DEF Tick, arm
<1>2. \A s \in Roles : Of(s)' = Of(s) /\ Current(s)' = Current(s)
  BY <1>1 DEF Of, Windows, Current
<1>3. WindowInv'
  <2>1. \A q \in Windows : 0 < window[q].start /\ window[q].start <= now + 1 /\ window[q].over <= now + 1
    BY <1>0 DEF ArmInv, WindowInv, ArmShape
  <2>2. now + 1 > 0 /\ slip \in SlipSizes \union {0}
    BY <1>0 DEF ArmInv, WindowInv
  <2>3. \A s \in Roles, q \in Windows : Current(s)' = q <=> q \in Of(s)' /\ window[q].over = NoTime
    BY <1>2 DEF ArmInv, WindowInv, Over
  <2>4. \A s \in Roles : Of(s)' = {} \/ \E l \in Of(s)' : \A q \in Of(s)' : window[q].over <= window[l].over
    BY <1>2 DEF ArmInv, WindowInv
  <2> QED BY <1>1, <2>1, <2>2, <2>3, <2>4 DEF WindowInv, Windows, Over
<1>4. ASSUME NEW s \in Roles, NEW i \in 1..Len(view[s]) PROVE Lags(s, i)'
  <2>1. Lags(s, i)
    BY DEF ArmInv, LagInv
  <2>2. view[s][i].at \in Nat /\ view[s][i].at <= now
    BY <1>0, <2>1 DEF ArmShape, Lags
  <2>3. view[s][i].at <= now + 1
    BY <1>0, <2>2
  <2>4. ASSUME i > 1 PROVE now + 1 <= view[s][i].at + MaxLag
    <3>1. Len(view[s]) \in Nat /\ 2 \in 1..Len(view[s]) /\ 2 <= i /\ Len(view[s]) > 1
      BY <1>0, <2>4 DEF ArmShape
    <3>2. now < view[s][2].at + MaxLag
      BY <1>1, <3>1 DEF Lagging
    <3>3. view[s][2].at <= view[s][i].at /\ view[s][2].at \in Nat
      BY <1>0, <3>1 DEF ArmInv, LagInv, Lags, ArmShape
    <3>4. now + 1 <= view[s][2].at + MaxLag
      BY <1>0, <3>2, <3>3
    <3> QED BY <1>0, <2>2, <3>3, <3>4
  <2> QED BY <1>1, <1>2, <2>1, <2>3, <2>4 DEF Lags, Over
<1>5. ArmMoved
  <2>1. \A s \in Roles : (Active(s) => Active(s)') /\ Listed(s)' = Listed(s)
    BY <1>1, <1>2 DEF Active, Listed
  <2>2. now <= now' /\ slip <= slip' /\ Len(window) <= Len(window')
    BY <1>0, <1>1 DEF ArmShape
  <2> QED BY <1>1, <2>1, <2>2 DEF ArmMoved, Windows
<1> QED BY <1>1, <1>3, <1>4, <1>5 DEF ArmInv, LagInv

\* Nor does anything else disturb what ARM keeps.
LEMMA ArmStep == TypeInv /\ ArmInv /\ [Next]_vars => ArmInv' /\ ArmMoved
<1> SUFFICES ASSUME TypeInv, ArmInv, [Next]_vars PROVE ArmInv' /\ ArmMoved
  OBVIOUS
<1>0. ArmShape
  BY ShapeOf
<1>1. CASE Tick
  BY <1>1, TickMoves
<1>2. CASE Granting
  BY <1>2, GrantMoves DEF Granting
<1>3. CASE Revoking
  BY <1>3, RevokeMoves DEF Revoking
<1>4. CASE Showing
  BY <1>4, CatchUpMoves DEF Showing
<1>5. CASE StepClockBack \/ UNCHANGED <<now, slip, window, view>>
  <2>1. UNCHANGED <<now, window, view>> /\ slip' \in SlipSizes \union {0} /\ slip <= slip'
    <3>1. CASE StepClockBack
      BY <3>1, RecordAssumption DEF StepClockBack, arm
    <3>2. CASE UNCHANGED <<now, slip, window, view>>
      BY <1>0, <3>2 DEF ArmInv, WindowInv, ArmShape
    <3> QED BY <1>5, <3>1, <3>2
  <2>2. \A s \in Roles : Of(s)' = Of(s) /\ Current(s)' = Current(s) /\ Listed(s)' = Listed(s)
                         /\ (Active(s) => Active(s)')
    BY <2>1 DEF Of, Windows, Current, Listed, Active
  <2>3. WindowInv'
    <3>1. \A s \in Roles, q \in Windows : Current(s)' = q <=> q \in Of(s)' /\ window[q].over = NoTime
      BY <2>2 DEF ArmInv, WindowInv, Over
    <3>2. \A s \in Roles : Of(s)' = {} \/ \E l \in Of(s)' : \A q \in Of(s)' : window[q].over <= window[l].over
      BY <2>2 DEF ArmInv, WindowInv
    <3> QED BY <2>1, <3>1, <3>2 DEF ArmInv, WindowInv, Windows, Over
  <2>4. ASSUME NEW s \in Roles, NEW i \in 1..Len(view[s]) PROVE Lags(s, i)'
    <3>1. Lags(s, i)
      BY DEF ArmInv, LagInv
    <3> QED BY <2>1, <2>2, <3>1 DEF Lags, Over
  <2>5. ArmMoved
    <3>1. now <= now' /\ Len(window) <= Len(window')
      BY <1>0, <2>1 DEF ArmShape
    <3> QED BY <2>1, <2>2, <3>1 DEF ArmMoved, Windows
  <2> QED BY <2>1, <2>3, <2>4, <2>5 DEF ArmInv, LagInv
<1> QED BY <1>1, <1>2, <1>3, <1>4, <1>5, StepKinds

-----------------------------------------------------------------------------
(* One step of a command.                                                   *)

\* What a step leaves of a process, and of the record.
LEMMA CommandStep ==
  ASSUME TypeInv, [Next]_vars, NEW p \in Procs
  PROVE  /\ pc'[p] # "idle" =>
              (pc[p] # "idle" /\ started'[p] = started[p]) \/ (started'[p] = now /\ now' = now)
         /\ pc'[p] \in Changing =>
              \/ /\ pc[p] \in Changing /\ target'[p] = target[p] /\ answer'[p] = answer[p]
                 /\ started'[p] = started[p]
              \/ \E r \in Roles : Up(p, r) \/ Down(p, r)
         /\ pc'[p] \in {"landed", "writing"} =>
              \/ /\ pc[p] \in {"landed", "writing"} /\ fresh'[p] = fresh[p]
                 /\ answer'[p] = answer[p] /\ started'[p] = started[p]
              \/ RecordResult(p)
         /\ pc'[p] \in Watching =>
              \/ /\ pc[p] \in Watching /\ seen'[p] = seen[p] /\ confirming'[p] = confirming[p]
                 /\ started'[p] = started[p]
              \/ ReadLocalRecord(p)
         /\ pc'[p] \in Tallied =>
              \/ /\ pc[p] \in Tallied /\ listing'[p] = listing[p] /\ unread'[p] = unread[p]
                 /\ started'[p] = started[p]
              \/ ListActivations(p)
         /\ copy'[p] \in {copy[p], EmptyRecord, file}
         /\ seen'[p] \in {seen[p], EmptyRecord} \/ ReadLocalRecord(p)
<1> USE DEF Changing, Watching, Tallied
<1>0. /\ pc \in [Procs -> Points] /\ started \in [Procs -> Nat] /\ target \in [Procs -> Roles \union {None}]
      /\ answer \in [Procs -> Answer] /\ fresh \in [Procs -> Entry] /\ copy \in [Procs -> Record]
      /\ seen \in [Procs -> Record] /\ confirming \in [Procs -> SUBSET Roles] /\ unread \in [Procs -> SUBSET Roles]
      /\ listing \in [Procs -> Listing]
  BY DEF TypeInv, TypeOK
<1>1. CASE UNCHANGED <<pc, started, target, answer, fresh, copy, seen, confirming, unread, listing>>
  BY <1>1
<1>2. CASE Tick \/ StepClockBack \/ (\E r \in Roles : ARM(r)) \/ UNCHANGED vars
  BY <1>1, <1>2 DEF Tick, StepClockBack, ARM, Expire, ElsewhereUp, ElsewhereDown, CatchUp, vars, mine, reading
<1>3. ASSUME NEW o \in Procs, NEW r \in Roles, NEW a, Submit(o, r, a),
             o = p => Up(p, r) \/ Down(p, r)
      PROVE  /\ UNCHANGED <<now, fresh, copy, seen, confirming, unread, listing>>
             /\ pc' = [pc EXCEPT ![o] = "submitted"] /\ started' = [started EXCEPT ![o] = now]
             /\ target' = [target EXCEPT ![o] = r] /\ answer' = [answer EXCEPT ![o] = a]
  BY <1>3 DEF Submit, reading
<1>4. ASSUME NEW o \in Procs, NEW r \in Roles, Up(o, r) \/ Down(o, r)
      PROVE  \E a : Submit(o, r, a)
  BY <1>4 DEF Up, Down, UpGranted, UpExists, DownRevoked, DownNotActive
<1>5. CASE \E o \in Procs, r \in Roles : Up(o, r) \/ Down(o, r)
  <2>1. PICK o \in Procs, r \in Roles : Up(o, r) \/ Down(o, r)
    BY <1>5
  <2>2. PICK a : Submit(o, r, a)
    BY <1>4, <2>1
  <2>3. /\ UNCHANGED <<now, fresh, copy, seen, confirming, unread, listing>>
        /\ pc' = [pc EXCEPT ![o] = "submitted"] /\ started' = [started EXCEPT ![o] = now]
        /\ target' = [target EXCEPT ![o] = r] /\ answer' = [answer EXCEPT ![o] = a]
    BY <1>3, <2>1, <2>2
  <2>4. CASE o = p
    BY <1>0, <2>1, <2>3, <2>4
  <2>5. CASE o # p
    BY <1>0, <2>3, <2>5
  <2> QED BY <2>4, <2>5
<1>7. CASE \E o \in Procs : RecordResult(o)
  <2>1. PICK o \in Procs : RecordResult(o)
    BY <1>7
  <2>2. /\ UNCHANGED <<started, target, answer, copy, seen, confirming, unread, listing>>
        /\ pc[o] = "submitted" /\ pc' = [pc EXCEPT ![o] = "landed"]
        /\ \E e : fresh' = [fresh EXCEPT ![o] = e]
    BY <2>1 DEF RecordResult, reading
  <2> QED BY <1>0, <2>1, <2>2
<1>8. CASE \E o \in Procs : LockAndRead(o)
  <2>1. PICK o \in Procs : LockAndRead(o)
    BY <1>8
  <2>2. /\ UNCHANGED <<started, target, answer, fresh, seen, confirming, unread, listing>>
        /\ \/ pc[o] = "landed" /\ pc' = [pc EXCEPT ![o] = "writing"]
           \/ pc[o] = "verified" /\ pc' = [pc EXCEPT ![o] = "reconciling"]
        /\ copy' = [copy EXCEPT ![o] = file]
    BY <2>1 DEF LockAndRead, mine, reading
  <2> QED BY <1>0, <2>2
<1>9. CASE \E o \in Procs : WriteResult(o) \/ WriteReconciled(o) \/ Die(o)
  <2>1. PICK o \in Procs : Forget(o)
    BY <1>9 DEF WriteResult, WriteReconciled, Die
  <2>2. o # p => /\ pc'[p] = pc[p] /\ started'[p] = started[p] /\ target'[p] = target[p] /\ answer'[p] = answer[p]
                 /\ fresh'[p] = fresh[p] /\ copy'[p] = copy[p] /\ seen'[p] = seen[p] /\ confirming'[p] = confirming[p]
                 /\ unread'[p] = unread[p] /\ listing'[p] = listing[p]
    BY <1>0, <2>1 DEF Forget
  <2>3. o = p => pc'[p] = "idle" /\ copy'[p] = EmptyRecord /\ seen'[p] = EmptyRecord
    BY <1>0, <2>1 DEF Forget
  <2> QED BY <2>2, <2>3
<1>10. CASE \E o \in Procs : ReadLocalRecord(o)
  <2>1. PICK o \in Procs : ReadLocalRecord(o)
    BY <1>10
  <2>2. /\ UNCHANGED <<now, target, answer, fresh, copy, unread, listing>>
        /\ pc[o] = "idle" /\ pc' = [pc EXCEPT ![o] = "listing"] /\ started' = [started EXCEPT ![o] = now]
        /\ \E e : seen' = [seen EXCEPT ![o] = e]
        /\ \E e : confirming' = [confirming EXCEPT ![o] = e]
    BY <2>1 DEF ReadLocalRecord, mine, clock
  <2> QED BY <1>0, <2>1, <2>2
<1>11. CASE \E o \in Procs : ListActivations(o)
  <2>1. PICK o \in Procs : ListActivations(o)
    BY <1>11
  <2>2. /\ UNCHANGED <<started, target, answer, fresh, copy, seen, confirming>>
        /\ pc[o] = "listing" /\ pc' = [pc EXCEPT ![o] = "listed"]
        /\ \E e : listing' = [listing EXCEPT ![o] = e]
        /\ \E e : unread' = [unread EXCEPT ![o] = e]
    BY <2>1 DEF ListActivations, mine
  <2> QED BY <1>0, <2>1, <2>2
<1>12. CASE \E o \in Procs : VerifyConfirming(o) \/ AskAll(o)
  <2>1. PICK o \in Procs : VerifyConfirming(o) \/ AskAll(o)
    BY <1>12
  <2>2. /\ UNCHANGED <<started, target, answer, fresh, copy, seen, confirming, unread, listing>>
        /\ \/ pc[o] = "listed" /\ pc' = [pc EXCEPT ![o] = "asked"]
           \/ pc[o] = "asked" /\ pc' = [pc EXCEPT ![o] = "verified"]
    BY <2>1 DEF VerifyConfirming, AskAll, mine
  <2> QED BY <1>0, <2>2
<1> QED BY <1>2, <1>5, <1>7, <1>8, <1>9, <1>10, <1>11, <1>12 DEF Next, Status

\* How ARM's answers are kept: o is the outcome, q the activation it ended.
Answers(p, r, o, q) ==
  /\ target'[p] = r /\ started'[p] = now /\ answer'[p].outcome = o /\ answer'[p].ended = q
  /\ UNCHANGED <<now, file, givenUp>>

\* A request that is sent is answered so.
LEMMA SubmitAnswers ==
  ASSUME TypeInv, NEW p \in Procs, NEW r, NEW a, Submit(p, r, a)
  PROVE  Answers(p, r, a.outcome, a.ended)
BY DEF Submit, Answers, TypeInv, TypeOK

\* The four answers an `up` or a `down` can get.
LEMMA RequestAnswers ==
  ASSUME TypeInv, NEW p \in Procs, NEW r
  PROVE  /\ UpGranted(p, r)     => Answers(p, r, "ACTIVATED", NoWindow) /\ \E d \in Durations : Grant(r, d)
         /\ UpExists(p, r)      => Answers(p, r, "ALREADY ACTIVE", NoWindow)
         /\ DownRevoked(p, r)   => Answers(p, r, "DEACTIVATED", Current(r))
         /\ DownNotActive(p, r) => Answers(p, r, "NOT ACTIVE", NoWindow)
<1>1. ASSUME UpGranted(p, r)
      PROVE  Answers(p, r, "ACTIVATED", NoWindow) /\ \E d \in Durations : Grant(r, d)
  <2>1. PICK d \in Durations, told \in Told :
          /\ Grant(r, d)
          /\ Submit(p, r, [NoAnswer EXCEPT
                             !.outcome = "ACTIVATED",
                             !.request = Len(window) + 1,
                             !.since   = IF told THEN now ELSE NoTime,
                             !.until   = IF told THEN now + d ELSE NoTime])
    BY <1>1 DEF UpGranted
  <2> DEFINE a == [NoAnswer EXCEPT
                     !.outcome = "ACTIVATED",
                     !.request = Len(window) + 1,
                     !.since   = IF told THEN now ELSE NoTime,
                     !.until   = IF told THEN now + d ELSE NoTime]
  <2>2. a.outcome = "ACTIVATED" /\ a.ended = NoWindow
    BY DEF NoAnswer
  <2>3. Submit(p, r, a)
    BY <2>1
  <2> HIDE DEF a
  <2>4. Answers(p, r, a.outcome, a.ended)
    BY <2>3, SubmitAnswers
  <2> QED BY <2>1, <2>2, <2>4
<1>2. ASSUME UpExists(p, r) PROVE Answers(p, r, "ALREADY ACTIVE", NoWindow)
  <2>1. PICK until : Submit(p, r, [NoAnswer EXCEPT !.outcome = "ALREADY ACTIVE", !.until = until])
    BY <1>2 DEF UpExists
  <2> DEFINE a == [NoAnswer EXCEPT !.outcome = "ALREADY ACTIVE", !.until = until]
  <2>2. a.outcome = "ALREADY ACTIVE" /\ a.ended = NoWindow
    BY DEF NoAnswer
  <2>3. Submit(p, r, a)
    BY <2>1
  <2> HIDE DEF a
  <2>4. Answers(p, r, a.outcome, a.ended)
    BY <2>3, SubmitAnswers
  <2> QED BY <2>2, <2>4
<1>3. ASSUME DownRevoked(p, r) PROVE Answers(p, r, "DEACTIVATED", Current(r))
  <2> DEFINE a == [NoAnswer EXCEPT !.outcome = "DEACTIVATED", !.ended = Current(r)]
  <2>2. a.outcome = "DEACTIVATED" /\ a.ended = Current(r)
    BY DEF NoAnswer
  <2>3. Submit(p, r, a)
    BY <1>3 DEF DownRevoked
  <2> HIDE DEF a
  <2>4. Answers(p, r, a.outcome, a.ended)
    BY <2>3, SubmitAnswers
  <2> QED BY <2>2, <2>4
<1>4. ASSUME DownNotActive(p, r) PROVE Answers(p, r, "NOT ACTIVE", NoWindow)
  <2> DEFINE a == [NoAnswer EXCEPT !.outcome = "NOT ACTIVE"]
  <2>2. a.outcome = "NOT ACTIVE" /\ a.ended = NoWindow
    BY DEF NoAnswer
  <2>3. Submit(p, r, a)
    BY <1>4 DEF DownNotActive
  <2> HIDE DEF a
  <2>4. Answers(p, r, a.outcome, a.ended)
    BY <2>3, SubmitAnswers
  <2> QED BY <2>2, <2>4
<1> QED BY <1>1, <1>2, <1>3, <1>4

\* Who writes the record.
LEMMA FileStep ==
  ASSUME TypeInv, [Next]_vars
  PROVE  (file' = file /\ givenUp' = givenUp) \/ \E p \in Procs : WriteResult(p) \/ WriteReconciled(p)
<1>1. CASE Tick \/ StepClockBack \/ (\E r \in Roles : ARM(r)) \/ UNCHANGED vars
  BY <1>1 DEF Tick, StepClockBack, ARM, Expire, ElsewhereUp, ElsewhereDown, CatchUp, vars
<1>2. CASE \E p \in Procs, r \in Roles : Up(p, r) \/ Down(p, r)
  BY <1>2, RequestAnswers DEF Up, Down, Answers
<1>3. CASE \E p \in Procs : RecordResult(p) \/ LockAndRead(p) \/ Status(p) \/ Die(p)
  BY <1>3 DEF RecordResult, LockAndRead, Status, ReadLocalRecord, ListActivations, VerifyConfirming, AskAll, Die
<1> QED BY <1>1, <1>2, <1>3 DEF Next

-----------------------------------------------------------------------------
(* What commands know of the times at which a role was active.              *)

\* An earlier time is easier to claim.
LEMMA ActiveEarlier ==
  ASSUME ArmShape, NEW r \in Roles, NEW t \in Int, NEW u \in Int, u <= t, ActiveSince(r, t)
  PROVE  ActiveSince(r, u)
<1>1. \A q \in Of(r) : window[q].over \in Nat
  BY DEF Of, ArmShape
<1> QED BY <1>1 DEF ActiveSince

\* That a role was active stays true.
LEMMA ActiveStays ==
  ASSUME ArmShape, ArmMoved, ArmInv, NEW r \in Roles, NEW t \in Int, t <= now, ActiveSince(r, t)
  PROVE  ActiveSince(r, t)'
<1>1. \A q \in Of(r) : q \in Windows /\ q \in Of(r)'
  BY DEF ArmMoved, ArmShape, Of, Windows
<1>2. now # NoTime /\ now \in Nat
  BY DEF ArmInv, WindowInv, ArmShape, NoTime
<1>3. CASE Active(r)
  <2>1. CASE Active(r)'
    BY <2>1 DEF ActiveSince
  <2>2. CASE \E q \in Of(r) : window'[q].over = now
    BY <1>1, <1>2, <2>2 DEF ActiveSince
  <2> QED BY <1>3, <2>1, <2>2 DEF ArmMoved
<1>4. CASE \E q \in Of(r) : window[q].over # NoTime /\ window[q].over >= t
  <2>1. PICK q \in Of(r) : window[q].over # NoTime /\ window[q].over >= t
    BY <1>4
  <2>2. window'[q].over = window[q].over
    BY <1>1, <2>1 DEF ArmMoved, Over
  <2> QED BY <1>1, <2>1, <2>2 DEF ActiveSince
<1> QED BY <1>3, <1>4 DEF ActiveSince

\* A role the listing still shows, or has yet to hide, was active within MaxLag.
LEMMA ShownRecently ==
  ASSUME ArmShape, ArmInv, NEW r \in Roles, Active(r) \/ Lagging(r) \/ Listed(r) # NoWindow
  PROVE  ActiveSince(r, now - MaxLag)
<1> DEFINE m == Len(view[r])
<1>1. m \in Nat \ {0} /\ m \in 1..m /\ now \in Nat /\ MaxLag \in Nat
  BY RecordAssumption DEF ArmShape
<1>2. CASE Active(r)
  BY <1>2 DEF ActiveSince
<1>3. CASE ~Active(r)
  <2>1. view[r][m].window = NoWindow
    BY <1>3 DEF Active, Current
  <2>2. m > 1
    <3>1. CASE Lagging(r)
      BY <3>1 DEF Lagging
    <3>2. CASE Listed(r) # NoWindow
      <4>1. Listed(r) = view[r][1].window
        BY DEF Listed
      <4>2. m # 1
        BY <2>1, <3>2, <4>1
      <4> HIDE DEF m
      <4> QED BY <1>1, <4>2
    <3> QED BY <1>3, <3>1, <3>2
  <2>3. Lags(r, m)
    BY <1>1 DEF ArmInv, LagInv
  <2>4. PICK q \in Of(r) : Over(q) /\ window[q].over = view[r][m].at
    BY <2>1, <2>2, <2>3 DEF Lags
  <2>5. view[r][m].at \in Nat /\ now <= view[r][m].at + MaxLag
    BY <1>1, <2>2, <2>3 DEF ArmShape, Lags
  <2>6. window[q].over >= now - MaxLag
    BY <1>1, <2>4, <2>5
  <2> QED BY <2>4, <2>6 DEF ActiveSince, Over
<1> QED BY <1>2, <1>3

\* A role that is not active has been active only in the past.
LEMMA InactiveIsOver ==
  ASSUME ArmShape, ArmInv, NEW r \in Roles, ~Active(r), NEW q \in Of(r)
  PROVE  Over(q) /\ window[q].over <= now
<1>1. q \in Windows /\ q # NoWindow
  BY DEF Of, Windows, NoWindow, ArmShape
<1>2. Current(r) # q
  BY <1>1 DEF Active
<1> QED BY <1>1, <1>2 DEF ArmInv, WindowInv

\* Of a role that is not active, or has been for a lag at most, each activation is over or
\* that young.
LEMMA OverOrGranted ==
  ASSUME ArmShape', ArmInv', NEW r \in Roles, (Active(r) => now <= window[Current(r)].start + MaxLag)',
         NEW q \in Of(r)'
  PROVE  (Over(q)' /\ window'[q].over <= now') \/ now' <= window'[q].start + MaxLag
<1>1. q \in 1..Len(window') /\ q # NoWindow
  BY DEF Of, Windows, NoWindow, ArmShape
<1>2. CASE Current(r)' # q
  BY <1>1, <1>2 DEF ArmInv, WindowInv, Windows, Of
<1>3. CASE Current(r)' = q
  BY <1>1, <1>3 DEF Active
<1> QED BY <1>2, <1>3

\* No command runs longer than MaxRun.
LEMMA RunStep == TypeInv /\ ArmMoved /\ RunInv /\ [Next]_vars => RunInv'
<1> SUFFICES ASSUME TypeInv, ArmMoved, RunInv, [Next]_vars, NEW p \in Procs, pc'[p] # "idle"
             PROVE  started'[p] <= now' /\ now' <= started'[p] + MaxRun
  BY DEF RunInv
<1>0. /\ now \in Nat /\ MaxRun \in Nat /\ started[p] \in Nat
  BY RecordAssumption DEF TypeInv, TypeOK
<1>1. CASE started'[p] = now /\ now' = now
  BY <1>0, <1>1
<1>2. CASE pc[p] # "idle" /\ started'[p] = started[p]
  <2>1. started[p] <= now /\ now <= started[p] + MaxRun
    BY <1>2 DEF RunInv
  <2>2. CASE Tick
    <3>1. now' = now + 1 /\ now < started[p] + MaxRun
      BY <1>2, <2>2 DEF Tick
    <3> QED BY <1>0, <1>2, <2>1, <3>1
  <2>3. CASE now' = now
    BY <1>2, <2>1, <2>3
  <2>4. Tick \/ now' = now
    BY StepKinds DEF StepClockBack, Granting, Revoking, Showing
  <2> QED BY <2>2, <2>3, <2>4
<1> QED BY <1>1, <1>2, CommandStep

\* What an answer says of its role stays true.
LEMMA AnswerStep ==
  TypeInv /\ TypeInv' /\ ArmInv /\ ArmInv' /\ ArmMoved /\ RunInv /\ AnswerInv /\ [Next]_vars => AnswerInv'
<1> SUFFICES ASSUME TypeInv, TypeInv', ArmInv, ArmInv', ArmMoved, RunInv, AnswerInv, [Next]_vars,
                    NEW p \in Procs, pc'[p] \in Changing
             PROVE  /\ target'[p] \in Roles
                    /\ answer'[p].outcome \in {"ACTIVATED", "ALREADY ACTIVE", "DEACTIVATED", "NOT ACTIVE"}
                    /\ answer'[p].outcome \in {"ACTIVATED", "ALREADY ACTIVE"} =>
                         ActiveSince(target[p], started[p] - MaxLag)'
                    /\ answer'[p].outcome \in {"DEACTIVATED", "NOT ACTIVE"} =>
                         \A q \in Of(target[p])' :
                           (Over(q)' /\ window'[q].over <= started'[p]) \/ started'[p] <= window'[q].start + MaxLag
  BY DEF AnswerInv
<1>0. ArmShape /\ ArmShape' /\ now \in Nat /\ MaxLag \in Nat /\ started[p] \in Nat
  BY ShapeOf, ShapeOfNext, RecordAssumption DEF TypeInv, TypeOK
<1>1. CASE pc[p] \in Changing /\ target'[p] = target[p] /\ answer'[p] = answer[p] /\ started'[p] = started[p]
  <2> DEFINE r == target[p]
             t == started[p] - MaxLag
  <2>1. /\ r \in Roles
        /\ answer[p].outcome \in {"ACTIVATED", "ALREADY ACTIVE", "DEACTIVATED", "NOT ACTIVE"}
        /\ answer[p].outcome \in {"ACTIVATED", "ALREADY ACTIVE"} => ActiveSince(r, t)
        /\ answer[p].outcome \in {"DEACTIVATED", "NOT ACTIVE"} =>
             \A q \in Of(r) : (Over(q) /\ window[q].over <= started[p]) \/ started[p] <= window[q].start + MaxLag
    BY <1>1 DEF AnswerInv
  <2>2. started[p] <= now
    BY <1>1 DEF RunInv, Changing
  <2>3. t \in Int /\ t <= now
    BY <1>0, <2>2
  <2>4. ASSUME NEW s \in Roles, s = r, NEW u, u = t, ActiveSince(s, u)
        PROVE  ActiveSince(target[p], started[p] - MaxLag)'
    <3>1. ActiveSince(s, u)'
      BY <1>0, <2>3, <2>4, ActiveStays
    <3>2. target'[p] = s /\ started'[p] - MaxLag = u
      BY <1>1, <2>4
    <3> QED BY <3>1, <3>2 DEF ActiveSince, Of, Active, Current
  <2>5. ASSUME \A q \in Of(r) : (Over(q) /\ window[q].over <= started[p]) \/ started[p] <= window[q].start + MaxLag
        PROVE  \A q \in Of(target[p])' :
                 (Over(q)' /\ window'[q].over <= started'[p]) \/ started'[p] <= window'[q].start + MaxLag
    <3> SUFFICES ASSUME NEW q \in 1..Len(window'), window'[q].role = r
                 PROVE  (Over(q)' /\ window'[q].over <= started[p]) \/ started[p] <= window'[q].start + MaxLag
      BY <1>1 DEF Of, Windows
    <3>1. CASE q \in Windows
      <4>1. q \in Of(r) /\ window'[q].start = window[q].start
            /\ (window'[q].over = window[q].over \/ ~Over(q))
        BY <3>1 DEF ArmMoved, Of
      <4> QED BY <2>5, <4>1 DEF Over
    <3>2. CASE window'[q].start = now
      BY <1>0, <2>2, <3>2
    <3> QED BY <3>1, <3>2 DEF ArmMoved
  <2> HIDE DEF r, t
  <2> QED BY <1>1, <2>1, <2>4, <2>5 DEF r
<1>2. ASSUME NEW r \in Roles, Up(p, r) \/ Down(p, r)
      PROVE  /\ target'[p] = r /\ started'[p] = now /\ now' = now
             /\ answer'[p].outcome \in {"ACTIVATED", "ALREADY ACTIVE", "DEACTIVATED", "NOT ACTIVE"}
             /\ answer'[p].outcome \in {"ACTIVATED", "ALREADY ACTIVE"} => ActiveSince(r, now - MaxLag)'
             /\ answer'[p].outcome \in {"DEACTIVATED", "NOT ACTIVE"} =>
                  (Active(r) => now <= window[Current(r)].start + MaxLag)'
  <2>2. CASE UpGranted(p, r)
    <3>1. Answers(p, r, "ACTIVATED", NoWindow) /\ \E d \in Durations : Grant(r, d)
      BY <2>2, RequestAnswers
    <3>2. PICK d \in Durations : Grant(r, d)
      BY <3>1
    <3>3. Active(r)'
      <4>1. view[r] \in Seq(Shown) /\ view' = [view EXCEPT ![r] = Append(@, [window |-> Len(window) + 1, at |-> now])]
            /\ [window |-> Len(window) + 1, at |-> now] \in Shown /\ view \in [Roles -> Seq(Shown) \ {<<>>}]
        BY <1>0, <3>2 DEF TypeInv, TypeOK, Grant, Change, Shown, ArmShape
      <4>2. view'[r] = Append(view[r], [window |-> Len(window) + 1, at |-> now])
        BY <4>1
      <4>3. view'[r][Len(view'[r])] = [window |-> Len(window) + 1, at |-> now]
        BY <4>1, <4>2, AppendProperties
      <4>4. view'[r][Len(view'[r])].window = Len(window) + 1 /\ Len(window) + 1 # 0
        BY <1>0, <4>3 DEF ArmShape
      <4> QED BY <4>4 DEF Active, Current, NoWindow
    <3>4. ActiveSince(r, now - MaxLag)'
      BY <3>3 DEF ActiveSince
    <3> QED BY <3>1, <3>4 DEF Answers
  <2>3. CASE UpExists(p, r)
    <3>1. Answers(p, r, "ALREADY ACTIVE", NoWindow)
      BY <2>3, RequestAnswers
    <3>2. ActiveSince(r, now - MaxLag)
      BY <1>0, <2>3, ShownRecently DEF UpExists
    <3>3. UNCHANGED <<window, view, now>>
      BY <2>3, <3>1 DEF UpExists, arm, Answers
    <3>4. ActiveSince(r, now - MaxLag)'
      BY <3>2, <3>3 DEF ActiveSince, Of, Windows, Active, Current
    <3> QED BY <3>1, <3>4 DEF Answers
  <2>4. CASE DownRevoked(p, r)
    <3>1. Answers(p, r, "DEACTIVATED", Current(r)) /\ Revoke(r)
      BY <2>4, RequestAnswers DEF DownRevoked
    <3>2. ~Active(r)'
      <4>1. view[r] \in Seq(Shown) /\ view' = [view EXCEPT ![r] = Append(@, [window |-> NoWindow, at |-> now])]
            /\ [window |-> NoWindow, at |-> now] \in Shown /\ view \in [Roles -> Seq(Shown) \ {<<>>}]
        BY <1>0, <3>1 DEF TypeInv, TypeOK, Revoke, Change, Shown, NoWindow
      <4>2. view'[r] = Append(view[r], [window |-> NoWindow, at |-> now])
        BY <4>1
      <4>3. view'[r][Len(view'[r])] = [window |-> NoWindow, at |-> now]
        BY <4>1, <4>2, AppendProperties
      <4> QED BY <4>3 DEF Active, Current
    <3> QED BY <3>1, <3>2 DEF Answers
  <2>5. CASE DownNotActive(p, r)
    <3>1. Answers(p, r, "NOT ACTIVE", NoWindow)
      BY <2>5, RequestAnswers
    <3>2. UNCHANGED <<window, view, now>>
      BY <2>5, <3>1 DEF DownNotActive, arm, Answers
    <3>3. (Active(r) => now <= window[Current(r)].start + MaxLag)'
      BY <2>5, <3>2 DEF DownNotActive, Active, Current
    <3> QED BY <3>1, <3>3 DEF Answers
  <2> QED BY <1>2, <2>2, <2>3, <2>4, <2>5 DEF Up, Down
<1>3. CASE \E r \in Roles : Up(p, r) \/ Down(p, r)
  <2>1. PICK r \in Roles : Up(p, r) \/ Down(p, r)
    BY <1>3
  <2>2. /\ target'[p] = r /\ started'[p] = now /\ now' = now
        /\ answer'[p].outcome \in {"ACTIVATED", "ALREADY ACTIVE", "DEACTIVATED", "NOT ACTIVE"}
        /\ answer'[p].outcome \in {"ACTIVATED", "ALREADY ACTIVE"} => ActiveSince(r, now - MaxLag)'
        /\ answer'[p].outcome \in {"DEACTIVATED", "NOT ACTIVE"} =>
             (Active(r) => now <= window[Current(r)].start + MaxLag)'
    BY <1>2, <2>1
  <2>3. ASSUME ActiveSince(r, now - MaxLag)' PROVE ActiveSince(target[p], started[p] - MaxLag)'
    BY <2>2, <2>3 DEF ActiveSince, Of, Active, Current
  <2>4. ASSUME (Active(r) => now <= window[Current(r)].start + MaxLag)'
        PROVE  \A q \in Of(target[p])' :
                 (Over(q)' /\ window'[q].over <= started'[p]) \/ started'[p] <= window'[q].start + MaxLag
    <3> SUFFICES ASSUME NEW q \in Of(r)'
                 PROVE  (Over(q)' /\ window'[q].over <= now') \/ now' <= window'[q].start + MaxLag
      BY <2>2 DEF Of
    <3> QED BY <1>0, <2>4, OverOrGranted
  <2> QED BY <2>2, <2>3, <2>4
<1> QED BY <1>1, <1>3, CommandStep

\* An entry is built, and stamped, while its command runs.
LEMMA FreshStep ==
  TypeInv /\ TypeInv' /\ ArmMoved /\ RunInv /\ AnswerInv /\ FreshInv /\ [Next]_vars => FreshInv'
<1> SUFFICES ASSUME TypeInv, TypeInv', ArmMoved, RunInv, AnswerInv, FreshInv, [Next]_vars,
                    NEW p \in Procs, pc'[p] \in {"landed", "writing"}
             PROVE  /\ Held(fresh'[p]) => answer'[p].outcome \in {"ACTIVATED", "ALREADY ACTIVE"}
                    /\ Revoked(fresh'[p]) => answer'[p].outcome \in {"DEACTIVATED", "NOT ACTIVE"}
                    /\ Present(fresh'[p])
                    /\ started'[p] + Ahead - slip' <= fresh'[p].writtenAt
                    /\ fresh'[p].writtenAt <= now' + Ahead
  BY DEF FreshInv, Held, Revoked, Present
<1>0. /\ now \in Nat /\ now' \in Nat /\ slip \in Nat /\ slip' \in Nat /\ Ahead \in Nat
      /\ started[p] \in Nat /\ fresh[p].writtenAt \in Int /\ now <= now' /\ slip <= slip'
  BY RecordAssumption DEF TypeInv, TypeOK, ArmMoved, Entry
<1>1. CASE /\ pc[p] \in {"landed", "writing"} /\ fresh'[p] = fresh[p]
           /\ answer'[p] = answer[p] /\ started'[p] = started[p]
  <2>1. /\ Held(fresh[p]) => answer[p].outcome \in {"ACTIVATED", "ALREADY ACTIVE"}
        /\ Revoked(fresh[p]) => answer[p].outcome \in {"DEACTIVATED", "NOT ACTIVE"}
        /\ Present(fresh[p])
        /\ started[p] + Ahead - slip <= fresh[p].writtenAt /\ fresh[p].writtenAt <= now + Ahead
    BY <1>1 DEF FreshInv
  <2>2. started[p] + Ahead - slip' <= fresh[p].writtenAt /\ fresh[p].writtenAt <= now' + Ahead
    <3>1. started[p] + Ahead - slip <= fresh[p].writtenAt /\ fresh[p].writtenAt <= now + Ahead
      BY <2>1
    <3> QED BY <1>0, <3>1
  <2> QED BY <1>1, <2>1, <2>2
<1>2. CASE RecordResult(p)
  <2>1. /\ pc[p] = "submitted" /\ answer' = answer /\ started' = started /\ now' = now /\ slip' = slip
        /\ fresh'[p] = IF answer[p].outcome \in {"ACTIVATED", "ALREADY ACTIVE"}
                         THEN ActivationEntry(answer[p], local) ELSE Tombstone(local)
    BY <1>2 DEF RecordResult, clock, TypeInv, TypeOK
  <2>2. /\ answer[p].outcome \in {"ACTIVATED", "ALREADY ACTIVE", "DEACTIVATED", "NOT ACTIVE"}
        /\ started[p] <= now
    BY <2>1 DEF AnswerInv, Changing, RunInv
  <2>3. /\ ActivationEntry(answer[p], local).writtenAt = local /\ Tombstone(local).writtenAt = local
        /\ ActivationEntry(answer[p], local).status = answer[p].outcome /\ Tombstone(local).status = "REVOKED"
    BY DEF ActivationEntry, Tombstone
  <2>4. /\ fresh'[p].writtenAt = local
        /\ fresh'[p].status = IF answer[p].outcome \in {"ACTIVATED", "ALREADY ACTIVE"}
                                THEN answer[p].outcome ELSE "REVOKED"
    BY <2>1, <2>3
  <2>5. started'[p] + Ahead - slip' <= local /\ local <= now' + Ahead
    <3>1. started'[p] = started[p] /\ now' = now /\ slip' = slip /\ started[p] <= now
      BY <2>1, <2>2
    <3> QED BY <1>0, <3>1 DEF local
  <2> QED BY <2>1, <2>2, <2>4, <2>5 DEF Held, Revoked, Present
<1> QED BY <1>1, <1>2, CommandStep

-----------------------------------------------------------------------------
(* When the entries of the record were written.                             *)

\* Times are numbers.
LEMMA TimeTypes ==
  ASSUME TypeInv
  PROVE  /\ now \in Nat /\ slip \in Nat /\ local \in Int
         /\ Ahead \in Nat /\ MaxRun \in Nat /\ MaxLag \in Nat /\ MinActive \in Nat
         /\ Ceiling \in Nat /\ Tolerance \in Nat
         /\ \A r \in Roles : file[r].writtenAt \in Int
         /\ \A p \in Procs : started[p] \in Nat /\ fresh[p].writtenAt \in Int
         /\ \A p \in Procs, r \in Roles : /\ copy[p][r].writtenAt \in Int /\ seen[p][r].writtenAt \in Int
                                          /\ listing[p][r].start \in Int
<1>1. /\ now \in Nat /\ slip \in Nat /\ local \in Int
      /\ file \in Record /\ started \in [Procs -> Nat] /\ fresh \in [Procs -> Entry]
      /\ copy \in [Procs -> Record] /\ seen \in [Procs -> Record] /\ listing \in [Procs -> Listing]
  BY LocalType DEF TypeInv, TypeOK
<1>2. \A e \in Entry : e.writtenAt \in Int
  BY DEF Entry
<1>3. \A rec \in Record, r \in Roles : rec[r] \in Entry
  BY DEF Record
<1>4. \A rows \in Listing, r \in Roles : rows[r].start \in Int
  BY DEF Listing
<1>5. \A p \in Procs : copy[p] \in Record /\ seen[p] \in Record /\ listing[p] \in Listing /\ fresh[p] \in Entry
  BY <1>1
<1>6. \A p \in Procs, r \in Roles : copy[p][r] \in Entry /\ seen[p][r] \in Entry
  BY <1>3, <1>5
<1>7. \A p \in Procs, r \in Roles : /\ copy[p][r].writtenAt \in Int /\ seen[p][r].writtenAt \in Int
                                  /\ listing[p][r].start \in Int
  BY <1>2, <1>4, <1>5, <1>6
<1>8. /\ \A r \in Roles : file[r].writtenAt \in Int
      /\ \A p \in Procs : started[p] \in Nat /\ fresh[p].writtenAt \in Int
  BY <1>1, <1>2, <1>3, <1>5
<1> QED BY <1>1, <1>7, <1>8, RecordAssumption, CeilingAssumption, ToleranceAssumption

\* An entry written when it could be stays one.
LEMMA DatedStays ==
  ASSUME ArmShape, ArmShape', ArmMoved, ArmInv, NEW r \in Roles, NEW e, e.writtenAt \in Int, Dated(e, r)
  PROVE  Dated(e, r)'
<1> SUFFICES ASSUME Present(e)
             PROVE  /\ e.writtenAt <= now' + Ahead
                    /\ Held(e) => ActiveSince(r, e.writtenAt - Ahead - MaxRun - MaxLag)'
                    /\ Revoked(e) =>
                         \A q \in Of(r)' : Over(q)' \/ e.writtenAt <= window'[q].start + MaxLag + MaxRun + Ahead
  BY DEF Dated
<1>0. now \in Nat /\ now' \in Nat /\ now <= now' /\ Ahead \in Nat /\ MaxRun \in Nat /\ MaxLag \in Nat
  BY RecordAssumption DEF ArmShape, ArmMoved
<1>1. /\ e.writtenAt <= now + Ahead
      /\ Held(e) => ActiveSince(r, e.writtenAt - Ahead - MaxRun - MaxLag)
      /\ Revoked(e) => \A q \in Of(r) : Over(q) \/ e.writtenAt <= window[q].start + MaxLag + MaxRun + Ahead
  BY DEF Dated
<1>2. e.writtenAt <= now' + Ahead
  BY <1>0, <1>1
<1>3. ASSUME Held(e) PROVE ActiveSince(r, e.writtenAt - Ahead - MaxRun - MaxLag)'
  <2>1. /\ e.writtenAt - Ahead - MaxRun - MaxLag \in Int
        /\ e.writtenAt - Ahead - MaxRun - MaxLag <= now
    BY <1>0, <1>1
  <2> QED BY <1>1, <1>3, <2>1, ActiveStays
<1>4. ASSUME Revoked(e), NEW q \in Of(r)' PROVE Over(q)' \/ e.writtenAt <= window'[q].start + MaxLag + MaxRun + Ahead
  <2>1. q \in 1..Len(window') /\ window'[q].role = r
    BY <1>4 DEF Of, Windows
  <2>2. CASE q \in Windows
    <3>1. q \in Of(r) /\ window'[q].start = window[q].start /\ (Over(q) => Over(q)')
      BY <2>1, <2>2 DEF ArmMoved, Of, Over
    <3> QED BY <1>1, <1>4, <3>1
  <2>3. CASE window'[q].start = now
    BY <1>0, <1>1, <2>3
  <2> QED BY <2>1, <2>2, <2>3 DEF ArmMoved
<1> QED BY <1>2, <1>3, <1>4

\* So is one that says no more, at the same time.
LEMMA DatedLike ==
  ASSUME NEW r \in Roles, NEW e, NEW f, Dated(e, r), f.writtenAt = e.writtenAt,
         Held(f) => Held(e), Revoked(f) => Revoked(e)
  PROVE  Dated(f, r)
BY DEF Dated, Held, Revoked, Present

\* What a command is about to record is dated.
LEMMA FreshDated ==
  ASSUME ArmShape, TypeInv, RunInv, AnswerInv, FreshInv, NEW p \in Procs, pc[p] \in {"landed", "writing"}
  PROVE  Dated(fresh[p], target[p])
<1> DEFINE e == fresh[p]
           r == target[p]
<1>0. /\ now \in Nat /\ Ahead \in Nat /\ MaxRun \in Nat /\ MaxLag \in Nat
      /\ started[p] \in Nat /\ e.writtenAt \in Int
  BY RecordAssumption DEF TypeInv, TypeOK, Entry
<1>1. started[p] <= now /\ now <= started[p] + MaxRun /\ e.writtenAt <= now + Ahead
  BY DEF RunInv, FreshInv
<1>2. r \in Roles
  BY DEF AnswerInv, Changing
<1>3. ASSUME Held(e) PROVE ActiveSince(r, e.writtenAt - Ahead - MaxRun - MaxLag)
  <2>1. ActiveSince(r, started[p] - MaxLag)
    BY <1>3 DEF AnswerInv, FreshInv, Changing
  <2>2. /\ e.writtenAt - Ahead - MaxRun - MaxLag \in Int /\ started[p] - MaxLag \in Int
        /\ e.writtenAt - Ahead - MaxRun - MaxLag <= started[p] - MaxLag
    BY <1>0, <1>1
  <2> HIDE DEF e, r
  <2> QED BY <1>2, <2>1, <2>2, ActiveEarlier
<1>4. ASSUME Revoked(e), NEW q \in Of(r) PROVE Over(q) \/ e.writtenAt <= window[q].start + MaxLag + MaxRun + Ahead
  <2>1. Over(q) \/ started[p] <= window[q].start + MaxLag
    BY <1>4 DEF AnswerInv, FreshInv, Changing
  <2>2. window[q].start \in Nat
    BY DEF ArmShape, Of
  <2> QED BY <1>0, <1>1, <2>1, <2>2
<1> QED BY <1>1, <1>3, <1>4 DEF Dated

\* A read of the record gives each entry or none.
LEMMA LiveEntry ==
  ASSUME NEW rec, NEW t, NEW r \in Roles
  PROVE  /\ Live(rec, t)[r] = rec[r] \/ Live(rec, t)[r] = NoEntry
         /\ ~Stale(rec[r], t) => Live(rec, t)[r] = rec[r]
         /\ Present(Live(rec, t)[r]) => Live(rec, t)[r] = rec[r] /\ ~Stale(rec[r], t)
         /\ ~Present(NoEntry) /\ NoEntry.writtenAt = 0
BY DEF Live, Present, NoEntry, NoTime

\* Filling in a fresh entry keeps its time, and its status or the old one's.
LEMMA FilledEntry ==
  ASSUME NEW old, NEW new
  PROVE  /\ FilledFrom(old, new).writtenAt = new.writtenAt
         /\ FilledFrom(old, new).status \in {old.status, new.status}
BY DEF FilledFrom

\* Writing a result leaves the entries of the other roles, and of its own role an entry
\* as old as the fresh one that says no more than that; a tombstone replaces what was there.
LEMMA ResultEntry ==
  ASSUME TypeInv, NEW p \in Procs, WriteResult(p), target[p] \in Roles, Present(fresh[p]), NEW r \in Roles
  PROVE  /\ r # target[p] => /\ ~Present(file'[r]) \/ file'[r] = copy[p][r]
                             /\ ~Stale(copy[p][r], local) => file'[r] = copy[p][r]
         /\ r = target[p] => /\ Present(file'[r]) => file'[r].writtenAt = fresh[p].writtenAt
                             /\ Held(file'[r]) => Held(fresh[p])
                             /\ Revoked(file'[r]) => Revoked(fresh[p])
                             /\ Revoked(fresh[p]) /\ ~Stale(fresh[p], local) => file'[r] = fresh[p]
<1> DEFINE old == Live(copy[p], local)
           new == MergeEntries(old, [EmptyRecord EXCEPT ![target[p]] = fresh[p]])
<1>1. file' = Live(new, local)
  BY DEF WriteResult
<1>2. fresh[p] \in Entry /\ copy[p] \in Record /\ old \in Record
  BY LiveType DEF TypeInv, TypeOK
<1>3. ASSUME r # target[p] PROVE new[r] = old[r]
  BY <1>2, <1>3, MergeTouchesOneRole
<1>4. ASSUME r = target[p]
      PROVE  new[r] = fresh[p] \/ (new[r] = FilledFrom(old[r], fresh[p]) /\ ~Revoked(old[r]) /\ ~Revoked(fresh[p]))
  <2>1. [EmptyRecord EXCEPT ![target[p]] = fresh[p]][r] = fresh[p]
    BY <1>4 DEF EmptyRecord
  <2>2. new[r] = IF ~Present(old[r]) THEN fresh[p] ELSE MergeEntry(old[r], fresh[p])
    BY <2>1 DEF MergeEntries
  <2> HIDE DEF new, old
  <2> QED BY <2>2 DEF MergeEntry
<1>5. /\ old[r] = copy[p][r] \/ ~Present(old[r])
      /\ ~Stale(copy[p][r], local) => old[r] = copy[p][r]
  BY LiveEntry
<1> HIDE DEF new, old
<1>6. /\ file'[r] = new[r] \/ file'[r] = NoEntry
      /\ ~Stale(new[r], local) => file'[r] = new[r]
      /\ ~Present(NoEntry)
  BY <1>1, LiveEntry
<1>7. ASSUME r = target[p], new[r] = FilledFrom(old[r], fresh[p]), ~Revoked(fresh[p]), ~Revoked(old[r])
      PROVE  new[r].writtenAt = fresh[p].writtenAt /\ ~Revoked(new[r])
  BY <1>7, FilledEntry DEF Revoked
<1>8. ASSUME r = target[p]
      PROVE  /\ Present(file'[r]) => file'[r].writtenAt = fresh[p].writtenAt
             /\ Held(file'[r]) => Held(fresh[p])
             /\ Revoked(file'[r]) => Revoked(fresh[p])
             /\ Revoked(fresh[p]) /\ ~Stale(fresh[p], local) => file'[r] = fresh[p]
  <2>1. CASE new[r] = fresh[p]
    BY <1>6, <2>1 DEF Held, Revoked, Present
  <2>2. CASE new[r] = FilledFrom(old[r], fresh[p]) /\ ~Revoked(old[r]) /\ ~Revoked(fresh[p])
    BY <1>6, <1>7, <1>8, <2>2 DEF Held, Revoked, Present
  <2> QED BY <1>4, <1>8, <2>1, <2>2
<1>9. ASSUME r # target[p]
      PROVE  /\ ~Present(file'[r]) \/ file'[r] = copy[p][r]
             /\ ~Stale(copy[p][r], local) => file'[r] = copy[p][r]
  <2>1. new[r] = old[r]
    BY <1>3, <1>9
  <2>2. CASE old[r] = copy[p][r]
    BY <1>6, <2>1, <2>2
  <2>3. CASE old[r] # copy[p][r]
    BY <1>5, <1>6, <2>1, <2>3
  <2> QED BY <2>2, <2>3
<1> QED BY <1>8, <1>9

\* Reconciling leaves an entry, drops it, or writes what was listed.
LEMMA ReconciledEntry ==
  ASSUME TypeInv, NEW p \in Procs, WriteReconciled(p), NEW r \in Roles
  PROVE  \/ ~Present(file'[r])
         \/ file'[r] = copy[p][r]
         \/ /\ listing[p][r].listed /\ Held(file'[r])
            /\ \/ file'[r].writtenAt = local
               \/ Held(copy[p][r]) /\ file'[r].writtenAt = copy[p][r].writtenAt
<1> DEFINE old == Live(copy[p], local)
           new == ReconcileRecord(old, listing[p], unread[p], Gone(p), local)
<1>1. file' = Live(new, local)
  BY DEF WriteReconciled
<1>2. copy[p] \in Record /\ old \in Record /\ listing[p] \in Listing /\ local \in Int
  BY LiveType, LocalType DEF TypeInv, TypeOK
<1>3. old[r] = copy[p][r] \/ ~Present(old[r])
  BY LiveEntry
<1>4. new[r] \in {KeepAgainstListing(old, listing[p], unread[p], Gone(p), local)[r],
                  ListedEntries(old, listing[p], unread[p], local)[r]}
  BY <1>2, ReconcileTakesOneSide
<1>5. KeepAgainstListing(old, listing[p], unread[p], Gone(p), local)[r] \in {old[r], NoEntry}
  BY DEF KeepAgainstListing
<1>6. \/ ListedEntries(old, listing[p], unread[p], local)[r] = NoEntry
      \/ /\ listing[p][r].listed
         /\ ListedEntries(old, listing[p], unread[p], local)[r] = ListedEntry(old[r], listing[p][r], local)
  BY DEF ListedEntries
<1> HIDE DEF new, old
<1>7. /\ file'[r] = new[r] \/ file'[r] = NoEntry
      /\ ~Present(NoEntry)
  BY <1>1, LiveEntry
<1>8. ASSUME new[r] = ListedEntry(old[r], listing[p][r], local)
      PROVE  /\ Held(new[r])
             /\ \/ new[r].writtenAt = local
                \/ Held(old[r]) /\ new[r].writtenAt = old[r].writtenAt
  BY <1>8 DEF ListedEntry, Held, Revoked, Present
<1> QED BY <1>3, <1>4, <1>5, <1>6, <1>7, <1>8 DEF Held

\* Every entry that is kept anywhere was written when it could be.
LEMMA DatesStep ==
  /\ TypeInv /\ TypeInv' /\ ArmInv /\ ArmMoved
  /\ RunInv /\ AnswerInv /\ FreshInv /\ SeenInv /\ DatesInv /\ [Next]_vars
  => DatesInv'
<1> SUFFICES ASSUME TypeInv, TypeInv', ArmInv, ArmMoved, RunInv, AnswerInv, FreshInv, SeenInv, DatesInv,
                    [Next]_vars, NEW r \in Roles
             PROVE  /\ \A e : e = file'[r] => Dated(e, r)'
                    /\ \A p \in Procs : \A e : e = copy'[p][r] \/ e = seen'[p][r] => Dated(e, r)'
  BY Zenon DEF DatesInv, Dated
<1>0. /\ ArmShape /\ ArmShape' /\ local \in Int
      /\ now \in Nat /\ slip \in Nat /\ Ahead \in Nat /\ MaxRun \in Nat /\ MaxLag \in Nat
      /\ file \in Record /\ file' \in Record
      /\ \A p \in Procs : /\ started[p] \in Nat /\ fresh[p] \in Entry /\ copy[p] \in Record /\ seen[p] \in Record
                          /\ copy'[p] \in Record /\ seen'[p] \in Record
  BY ShapeOf, ShapeOfNext, LocalType, RecordAssumption DEF TypeInv, TypeOK
<1>1. ASSUME NEW e \in Entry, Dated(e, r) PROVE Dated(e, r)'
  <2>1. e.writtenAt \in Int
    BY DEF Entry
  <2> QED BY <1>0, <1>1, <2>1, DatedStays
<1>2. ASSUME NEW e, ~Present(e) PROVE Dated(e, r)
  BY <1>2 DEF Dated
<1>3. Dated(file[r], r) /\ file'[r] \in Entry
  BY <1>0 DEF DatesInv, Record
<1>4. ASSUME NEW p \in Procs, WriteResult(p) PROVE Dated(file'[r], r)
  <2>1. pc[p] = "writing"
    BY <1>4 DEF WriteResult
  <2>2. target[p] \in Roles /\ Present(fresh[p]) /\ Dated(fresh[p], target[p])
    BY <1>0, <2>1, FreshDated DEF AnswerInv, FreshInv, Changing
  <2>3. Dated(copy[p][r], r)
    BY DEF DatesInv
  <2>4. /\ r # target[p] => ~Present(file'[r]) \/ file'[r] = copy[p][r]
        /\ r = target[p] => /\ Present(file'[r]) => file'[r].writtenAt = fresh[p].writtenAt
                            /\ Held(file'[r]) => Held(fresh[p])
                            /\ Revoked(file'[r]) => Revoked(fresh[p])
    BY <1>4, <2>2, ResultEntry
  <2>5. CASE ~Present(file'[r])
    BY <1>2, <2>5
  <2>6. CASE r # target[p] /\ Present(file'[r])
    BY <2>3, <2>4, <2>6
  <2>7. CASE r = target[p] /\ Present(file'[r])
    BY <2>2, <2>4, <2>7, DatedLike
  <2> QED BY <2>5, <2>6, <2>7
<1>5. ASSUME NEW p \in Procs, WriteReconciled(p) PROVE Dated(file'[r], r)
  <2>1. pc[p] = "reconciling"
    BY <1>5 DEF WriteReconciled
  <2>2. Dated(copy[p][r], r)
    BY DEF DatesInv
  <2>3. CASE Held(file'[r]) /\ listing[p][r].listed /\ file'[r].writtenAt = local
    <3>1. ActiveSince(r, started[p] - MaxLag) /\ now <= started[p] + MaxRun
      BY <2>1, <2>3 DEF SeenInv, RunInv, Tallied, Watching
    <3>2. /\ local - Ahead - MaxRun - MaxLag \in Int /\ started[p] - MaxLag \in Int
          /\ local - Ahead - MaxRun - MaxLag <= started[p] - MaxLag /\ local <= now + Ahead
      BY <1>0, <3>1 DEF local
    <3>3. ActiveSince(r, local - Ahead - MaxRun - MaxLag)
      BY <1>0, <3>1, <3>2, ActiveEarlier
    <3> QED BY <2>3, <3>2, <3>3 DEF Dated, Held
  <2>4. CASE Held(file'[r]) /\ Held(copy[p][r]) /\ file'[r].writtenAt = copy[p][r].writtenAt
    <3>1. Held(file'[r]) => Held(copy[p][r])
      BY <2>4
    <3>2. ~Revoked(file'[r])
      BY <2>4 DEF Held
    <3> QED BY <2>2, <2>4, <3>1, <3>2, DatedLike
  <2>5. CASE ~Present(file'[r]) \/ file'[r] = copy[p][r]
    BY <1>2, <2>2, <2>5
  <2> QED BY <1>5, <2>3, <2>4, <2>5, ReconciledEntry
<1>6. \A e : e = file'[r] => Dated(e, r)'
  <2>1. Dated(file'[r], r)
    BY <1>3, <1>4, <1>5, FileStep
  <2> QED BY <1>1, <1>3, <2>1
<1>7. ASSUME NEW p \in Procs, NEW e, e = copy'[p][r] \/ e = seen'[p][r] PROVE Dated(e, r)'
  <2>1. ASSUME NEW f, f = NoEntry \/ f = file[r] \/ f = copy[p][r] \/ f = seen[p][r] PROVE Dated(f, r)
    BY <1>2, <2>1 DEF DatesInv, Present, NoEntry
  <2>2. EmptyRecord[r] = NoEntry
    BY DEF EmptyRecord
  <2>3. copy'[p] \in {copy[p], EmptyRecord, file}
    BY CommandStep
  <2>4. seen'[p] \in {seen[p], EmptyRecord} \/ ReadLocalRecord(p)
    BY CommandStep
  <2>5. ReadLocalRecord(p) => seen'[p] = Live(file, local)
    BY DEF ReadLocalRecord, TypeInv, TypeOK
  <2>6. Live(file, local)[r] = file[r] \/ Live(file, local)[r] = NoEntry
    BY LiveEntry
  <2>7. e = NoEntry \/ e = file[r] \/ e = copy[p][r] \/ e = seen[p][r]
    BY <1>7, <2>2, <2>3, <2>4, <2>5, <2>6
  <2>8. e \in Entry
    BY <1>0, <1>7 DEF Record
  <2> QED BY <1>1, <2>1, <2>7, <2>8
<1> QED BY <1>6, <1>7

\* What a `status` was told stays true of the roles it asked about.
LEMMA SeenStep ==
  TypeInv /\ TypeInv' /\ ArmInv /\ ArmMoved /\ RunInv /\ SeenInv /\ [Next]_vars => SeenInv'
<1> SUFFICES ASSUME TypeInv, TypeInv', ArmInv, ArmMoved, RunInv, SeenInv, [Next]_vars,
                    NEW p \in Procs, NEW r \in Roles
             PROVE  /\ pc'[p] \in Watching /\ (r \in confirming'[p] \/ Revoked(seen'[p][r])) =>
                         started'[p] + Ahead <= seen'[p][r].writtenAt + Ceiling + slip'
                    /\ pc'[p] \in Tallied /\ listing'[p][r].listed =>
                         \A t : t = started'[p] - MaxLag => ActiveSince(r, t)'
  BY Zenon DEF SeenInv, Revoked, ActiveSince
<1>0. /\ ArmShape /\ ArmShape' /\ local \in Int
      /\ now \in Nat /\ slip \in Nat /\ slip' \in Nat /\ Ahead \in Nat /\ MaxLag \in Nat /\ Ceiling \in Nat
      /\ slip <= slip' /\ started[p] \in Nat /\ seen[p][r].writtenAt \in Int /\ file[r].writtenAt \in Int
  BY ShapeOf, ShapeOfNext, TimeTypes DEF ArmMoved, ArmShape
<1>9. seen'[p][r].writtenAt \in Int
  <2>1. seen'[p] \in Record
    BY DEF TypeInv, TypeOK
  <2>2. seen'[p][r] \in Entry
    BY <2>1 DEF Record
  <2> QED BY <2>2 DEF Entry
<1>1. ASSUME pc'[p] \in Watching, r \in confirming'[p] \/ Revoked(seen'[p][r])
      PROVE  started'[p] + Ahead <= seen'[p][r].writtenAt + Ceiling + slip'
  <2>1. CASE /\ pc[p] \in Watching /\ seen'[p] = seen[p] /\ confirming'[p] = confirming[p]
             /\ started'[p] = started[p]
    <3>1. started[p] + Ahead <= seen[p][r].writtenAt + Ceiling + slip
      BY <1>1, <2>1 DEF SeenInv
    <3> QED BY <1>0, <2>1, <3>1
  <2>2. CASE ReadLocalRecord(p)
    <3>1. /\ started'[p] = now /\ slip' = slip /\ seen'[p] = Live(file, local)
          /\ confirming'[p] = {s \in Roles : Confirming(Live(file, local)[s], local)}
      BY <2>2 DEF ReadLocalRecord, clock, TypeInv, TypeOK
    <3>2. Present(seen'[p][r]) /\ ~PastCeiling(seen'[p][r], local)
      <4>1. CASE Confirming(Live(file, local)[r], local)
        BY <3>1, <4>1 DEF Confirming, Held
      <4>2. CASE Revoked(seen'[p][r])
        <5>1. Present(Live(file, local)[r])
          BY <3>1, <4>2 DEF Revoked, Present
        <5>2. Live(file, local)[r] = file[r] /\ ~Stale(file[r], local)
          BY <5>1, LiveEntry
        <5> QED BY <3>1, <4>2, <5>1, <5>2 DEF Stale
      <4> QED BY <1>1, <3>1, <4>1, <4>2
    <3>3. local - seen'[p][r].writtenAt <= Ceiling
      BY <1>0, <1>9, <3>2 DEF PastCeiling
    <3>4. started'[p] = now /\ slip' = slip
      BY <3>1
    <3> QED BY <1>0, <1>9, <3>3, <3>4 DEF local
  <2> QED BY <1>1, <2>1, <2>2, CommandStep
<1>2. ASSUME pc'[p] \in Tallied, listing'[p][r].listed, NEW t, t = started'[p] - MaxLag
      PROVE  ActiveSince(r, t)'
  <2>1. CASE pc[p] \in Tallied /\ listing'[p] = listing[p] /\ started'[p] = started[p]
    <3>1. started[p] <= now /\ ActiveSince(r, started[p] - MaxLag)
      BY <1>2, <2>1 DEF SeenInv, RunInv, Tallied, Watching
    <3>2. t \in Int /\ t <= now /\ ActiveSince(r, t)
      BY <1>0, <1>2, <2>1, <3>1
    <3> QED BY <1>0, <3>2, ActiveStays
  <2>2. CASE ListActivations(p)
    <3>1. pc[p] = "listing" /\ started' = started /\ UNCHANGED <<now, window, view>>
      BY <2>2 DEF ListActivations, clock, arm
    <3>2. \E silent \in SUBSET Scopes :
            listing'[p] = [s \in Roles |-> IF ScopeOf[s] \in silent THEN NotListed ELSE Row(s)]
      BY <2>2 DEF ListActivations, TypeInv, TypeOK
    <3>3. Row(r).listed
      BY <1>2, <3>2 DEF NotListed
    <3>4. Listed(r) # NoWindow
      BY <3>3 DEF Row, NotListed
    <3>5. ActiveSince(r, now - MaxLag)
      BY <1>0, <3>4, ShownRecently
    <3>6. started[p] <= now
      BY <3>1 DEF RunInv
    <3>7. t \in Int /\ t <= now - MaxLag /\ now - MaxLag \in Int /\ t <= now
      BY <1>0, <1>2, <3>1, <3>6
    <3>8. ActiveSince(r, t)
      BY <1>0, <3>5, <3>7, ActiveEarlier
    <3> QED BY <1>0, <3>7, <3>8, ActiveStays
  <2> QED BY <1>2, <2>1, <2>2, CommandStep
<1> QED BY <1>1, <1>2

\* At first nothing is recorded and nothing active.
LEMMA TimesInit == Init => TimesInv
<1> SUFFICES ASSUME Init PROVE TimesInv
  OBVIOUS
<1>1. now = 1 /\ slip = 0 /\ window = <<>> /\ \A r \in Roles : view[r] = <<[window |-> NoWindow, at |-> 0]>>
  BY DEF Init
<1>2. Windows = {} /\ Len(window) = 0 /\ \A r \in Roles : Of(r) = {}
  BY <1>1 DEF Windows, Of
<1>3. ASSUME NEW r \in Roles
      PROVE  Len(view[r]) = 1 /\ view[r][1].window = NoWindow /\ view[r][1].at = 0
  <2> DEFINE v == [window |-> NoWindow, at |-> 0]
  <2>1. view[r] = <<v>> /\ v.window = NoWindow /\ v.at = 0
    BY <1>1
  <2> HIDE DEF v
  <2> QED BY <2>1
<1>4. ArmInv
  <2>1. WindowInv
    BY <1>1, <1>2 DEF WindowInv
  <2>2. ASSUME NEW r \in Roles, NEW i \in 1..Len(view[r]) PROVE Lags(r, i)
    <3>1. Len(view[r]) = 1
      BY <1>3
    <3>2. i = 1
      BY <3>1
    <3> QED BY <1>1, <1>3, <3>1, <3>2 DEF Lags
  <2> QED BY <2>1, <2>2 DEF ArmInv, LagInv
<1>5. RunInv /\ AnswerInv /\ FreshInv
  BY DEF Init, RunInv, AnswerInv, FreshInv, Changing
<1>6. DatesInv /\ SeenInv
  <2>1. \A r \in Roles : file[r] = NoEntry /\ \A p \in Procs : copy[p][r] = NoEntry /\ seen[p][r] = NoEntry
    BY DEF Init, EmptyRecord
  <2>2. \A r \in Roles : Dated(NoEntry, r)
    BY DEF Dated, Present, NoEntry
  <2>3. \A p \in Procs : pc[p] \notin Watching /\ pc[p] \notin Tallied
    BY DEF Init, Watching, Tallied
  <2>4. DatesInv
    BY <2>1, <2>2 DEF DatesInv
  <2>5. SeenInv
    BY <2>3 DEF SeenInv
  <2> QED BY <2>4, <2>5
<1> QED BY <1>4, <1>5, <1>6 DEF TimesInv

\* So the times hold throughout, whether or not the lock does.
LEMMA TimesInvariant == Spec => []TimesInv
<1>1. TypeInv /\ TypeInv' /\ TimesInv /\ [Next]_vars => TimesInv'
  BY ArmStep, RunStep, AnswerStep, FreshStep, DatesStep, SeenStep DEF TimesInv
<1> QED BY <1>1, TimesInit, TypeInvariant, PTL DEF Spec

-----------------------------------------------------------------------------
(* How long the record hides access, and how long it claims it.             *)

\* A role that was active at some time was last active then or later.
LEMMA LastActiveSince ==
  ASSUME ArmShape, ArmInv, NEW r \in Roles, NEW t \in Int, t <= now, ActiveSince(r, t)
  PROVE  LastActive(r) \in Nat /\ t <= LastActive(r)
<1> DEFINE ends == {window[q].over : q \in Of(r)}
<1>1. LastActive(r) = IF Active(r) \/ ends = {} THEN now
                      ELSE CHOOSE u \in ends : \A v \in ends : v <= u
  BY DEF LastActive, Of, Windows
<1>2. CASE Active(r)
  BY <1>1, <1>2 DEF ArmShape
<1>3. CASE ~Active(r)
  <2>1. PICK q \in Of(r) : window[q].over >= t
    BY <1>3 DEF ActiveSince
  <2>2. PICK m \in Of(r) : \A w \in Of(r) : window[w].over <= window[m].over
    BY <2>1 DEF ArmInv, WindowInv
  <2>3. \E u \in ends : \A v \in ends : v <= u
    BY <2>2
  <2>4. LastActive(r) \in ends /\ \A v \in ends : v <= LastActive(r)
    BY <1>1, <1>3, <2>1, <2>3
  <2>5. window[q].over <= LastActive(r) /\ window[q].over \in Nat
    BY <2>1, <2>4 DEF Of, ArmShape
  <2>6. LastActive(r) \in Nat
    BY <2>4 DEF Of, ArmShape
  <2> QED BY <2>1, <2>5, <2>6
<1> QED BY <1>2, <1>3

\* The clock of this machine is stepped back by no more than the record tolerates.
LEMMA SlipTolerated ==
  ASSUME \A s \in SlipSizes : s <= Tolerance, ArmInv
  PROVE  slip <= Tolerance
BY ToleranceAssumption DEF ArmInv, WindowInv

\* A tombstone outranks the listing only until the ceiling, and was written by a command
\* that was sent before the access it hides began, or while ARM's answers still lagged
\* behind it: a `down` is told NOT ACTIVE of a role just granted, and buries it.  Access
\* in force is not hidden for longer than that lag, the ceiling and the runs of the two
\* commands, wherever else roles are activated, however the commands interleave and
\* whether or not the lock holds (Denies, recordCeiling, recordClockTolerance).
THEOREM HiddenForAWhile ==
  ASSUME \A s \in SlipSizes : s <= Tolerance
  PROVE  Spec => []HiddenBriefly
<1>1. ASSUME TypeInv, TimesInv PROVE HiddenBriefly
  <2> SUFFICES ASSUME NEW p \in Procs, NEW r \in Roles, Hides(p, r)
               PROVE  now <= listing[p][r].start + MaxLag + MaxRun + Ceiling + Tolerance + MaxRun
    BY DEF HiddenBriefly
  <2> USE <1>1 DEF TimesInv
  <2>0. /\ now \in Nat /\ slip \in Nat /\ started[p] \in Nat /\ seen[p][r].writtenAt \in Int
        /\ listing[p][r].start \in Int /\ Ahead \in Nat /\ MaxRun \in Nat /\ Ceiling \in Nat
        /\ MaxLag \in Nat /\ Tolerance \in Nat /\ slip <= Tolerance
    BY TimeTypes, SlipTolerated
  <2>1. pc[p] = "reconciling" /\ Revoked(seen[p][r])
    BY DEF Hides, ShowsListed, DeniesListed, Denies
  <2>2. PICK q \in Windows : window[q].role = r /\ ~Over(q) /\ window[q].start = listing[p][r].start
    BY DEF Hides, Windows
  <2>3. seen[p][r].writtenAt <= listing[p][r].start + MaxLag + MaxRun + Ahead
    BY <2>1, <2>2 DEF DatesInv, Dated, Revoked, Present, Of
  <2>4. started[p] + Ahead <= seen[p][r].writtenAt + Ceiling + slip
    BY <2>1 DEF SeenInv, Watching
  <2>5. now <= started[p] + MaxRun
    BY <2>1 DEF RunInv
  <2> QED BY <2>0, <2>3, <2>4, <2>5
<1> QED BY <1>1, TypeInvariant, TimesInvariant, PTL

\* An entry outranks the listing only until the ceiling, and was written while its role
\* was active or had only just stopped being so: a scope that answered is not claimed
\* to hold a role for longer than that and the lag after the role was last active
\* (Confirming, stands, recordCeiling).
THEOREM ClaimedForAWhile ==
  ASSUME \A s \in SlipSizes : s <= Tolerance
  PROVE  Spec => []ClaimsAreBounded
<1>1. ASSUME TypeInv, TimesInv PROVE ClaimsAreBounded
  <2> SUFFICES ASSUME NEW p \in Procs, NEW r \in Roles,
                      pc[p] = "reconciling", r \notin unread[p], ShowsRecorded(p, r)
               PROVE  now <= LastActive(r) + MaxLag + MaxRun + Ceiling + Tolerance + MaxRun
    BY DEF ClaimsAreBounded
  <2> DEFINE t == seen[p][r].writtenAt - Ahead - MaxRun - MaxLag
  <2> USE <1>1 DEF TimesInv
  <2>0. /\ now \in Nat /\ slip \in Nat /\ started[p] \in Nat /\ seen[p][r].writtenAt \in Int
        /\ Ahead \in Nat /\ MaxRun \in Nat /\ MaxLag \in Nat /\ Ceiling \in Nat
        /\ Tolerance \in Nat /\ slip <= Tolerance
    BY TimeTypes, SlipTolerated
  <2>1. Held(seen[p][r]) /\ r \in confirming[p]
    BY DEF ShowsRecorded, Stands
  <2>2. seen[p][r].writtenAt <= now + Ahead /\ ActiveSince(r, t)
    BY <2>1 DEF DatesInv, Dated, Held
  <2>3. t \in Int /\ t <= now
    BY <2>0, <2>2
  <2>4. LastActive(r) \in Nat /\ t <= LastActive(r)
    <3> HIDE DEF t
    <3> QED BY <2>2, <2>3, ShapeOf, LastActiveSince
  <2>5. started[p] + Ahead <= seen[p][r].writtenAt + Ceiling + slip
    BY <2>1 DEF SeenInv, Watching
  <2>6. now <= started[p] + MaxRun
    BY DEF RunInv
  <2> QED BY <2>0, <2>4, <2>5, <2>6
<1> QED BY <1>1, TypeInvariant, TimesInvariant, PTL

-----------------------------------------------------------------------------
(* What was given up here stays denied.                                     *)

\* What the constants have to be for that: the listing lags for less than the record may
\* outrank it, and the lag and the run of a command together for less than PIM's floor;
\* the clock of this machine is stepped back by no more than the record tolerates, nor
\* to before the activation began.
Prompt ==
  /\ MaxLag <= Ceiling
  /\ MaxLag + MaxRun < MinActive
  /\ \A s \in SlipSizes : s <= Tolerance /\ s <= Ahead + MinActive

\* An activation the listing shows began when the listing says, and one that is over has
\* not been so for longer than the listing lags.
LEMMA ListedShown ==
  ASSUME ArmShape, ArmInv, NEW r \in Roles, Listed(r) # NoWindow
  PROVE  /\ Listed(r) \in Windows /\ window[Listed(r)].role = r
         /\ 1 \in 1..Len(view[r]) /\ view[r][1].window = Listed(r)
         /\ window[Listed(r)].start = view[r][1].at
         /\ Over(Listed(r)) => now <= window[Listed(r)].over + MaxLag
<1>1. Listed(r) = view[r][1].window /\ Len(view[r]) \in Nat \ {0} /\ 1 \in 1..Len(view[r])
  BY DEF Listed, ArmShape
<1>2. Lags(r, 1)
  BY <1>1 DEF ArmInv, LagInv
<1>3. Listed(r) \in Windows
  BY <1>1 DEF ArmShape, Windows, NoWindow
<1>4. window[Listed(r)].role = r /\ window[Listed(r)].start = view[r][1].at
  BY <1>1, <1>2 DEF Lags
<1>5. ASSUME Over(Listed(r)) PROVE now <= window[Listed(r)].over + MaxLag
  <2>1. Current(r) # Listed(r)
    BY <1>3, <1>5 DEF ArmInv, WindowInv
  <2>2. Len(view[r]) # 1
    BY <1>1, <2>1 DEF Current
  <2> DEFINE m == Len(view[r])
  <2>a. m \in Nat \ {0} /\ m # 1
    BY <1>1, <2>2
  <2>3. 2 \in 1..m /\ 1 < m
    <3> HIDE DEF m
    <3> QED BY <2>a
  <2>4. window[Listed(r)].over = view[r][2].at
    BY <1>1, <1>2, <2>3 DEF Lags
  <2>5. now <= view[r][2].at + MaxLag
    BY <2>3 DEF ArmInv, LagInv, Lags
  <2> QED BY <2>4, <2>5
<1> QED BY <1>1, <1>3, <1>4, <1>5

\* What the listing told a `status` it goes on showing.
LEMMA ListedStep ==
  TypeInv /\ TypeInv' /\ ArmInv /\ ArmMoved /\ RunInv /\ ListedInv /\ [Next]_vars => ListedInv'
<1> SUFFICES ASSUME TypeInv, TypeInv', ArmInv, ArmMoved, RunInv, ListedInv, [Next]_vars,
                    NEW p \in Procs, NEW r \in Roles, pc'[p] \in Tallied
             PROVE  /\ r \in unread'[p] => ~listing'[p][r].listed
                    /\ listing'[p][r].listed => listing'[p][r].start <= now'
                    /\ \A i \in 1..Len(view'[r]) : view'[r][i].window # NoWindow =>
                         /\ listing'[p][r].listed => listing'[p][r].start <= view'[r][i].at
                         /\ ~listing'[p][r].listed /\ r \notin unread'[p] =>
                              started'[p] <= view'[r][i].at + MaxLag
  BY DEF ListedInv, Tallied, Watching
<1>0. /\ ArmShape /\ ArmShape' /\ now \in Nat /\ now' \in Nat /\ now <= now' /\ MaxLag \in Nat
      /\ started[p] \in Nat /\ listing[p][r].start \in Int
  BY ShapeOf, ShapeOfNext, TimeTypes DEF ArmMoved, ArmShape
<1>1. CASE /\ pc[p] \in Tallied /\ listing'[p] = listing[p] /\ unread'[p] = unread[p]
           /\ started'[p] = started[p]
  <2>1. /\ r \in unread[p] => ~listing[p][r].listed
        /\ listing[p][r].listed => listing[p][r].start <= now
        /\ \A i \in 1..Len(view[r]) : view[r][i].window # NoWindow =>
             /\ listing[p][r].listed => listing[p][r].start <= view[r][i].at
             /\ ~listing[p][r].listed /\ r \notin unread[p] => started[p] <= view[r][i].at + MaxLag
    BY <1>1 DEF ListedInv
  <2>2. started[p] <= now
    BY <1>1 DEF RunInv, Tallied, Watching
  <2>3. ASSUME NEW i \in 1..Len(view'[r]), view'[r][i].window # NoWindow
        PROVE  /\ listing[p][r].listed => listing[p][r].start <= view'[r][i].at
               /\ ~listing[p][r].listed /\ r \notin unread[p] => started[p] <= view'[r][i].at + MaxLag
    <3>1. CASE view'[r][i].at = now
      BY <1>0, <2>1, <2>2, <3>1
    <3>2. CASE \E j \in 1..Len(view[r]) : view'[r][i] = view[r][j]
      BY <2>1, <2>3, <3>2
    <3> QED BY <3>1, <3>2 DEF ArmMoved
  <2>4. listing[p][r].listed => listing[p][r].start <= now'
    BY <1>0, <2>1
  <2> QED BY <1>1, <2>1, <2>3, <2>4
<1>2. CASE ListActivations(p)
  <2>1. pc[p] = "listing" /\ started' = started /\ UNCHANGED <<now, window, view>>
    BY <1>2 DEF ListActivations, clock, arm
  <2>2. PICK silent \in SUBSET Scopes :
          /\ unread' = [unread EXCEPT ![p] = {s \in Roles : ScopeOf[s] \in silent}]
          /\ listing' = [listing EXCEPT ![p] =
               [s \in Roles |-> IF ScopeOf[s] \in silent THEN NotListed ELSE Row(s)]]
    BY <1>2 DEF ListActivations
  <2>3. /\ r \in unread'[p] <=> ScopeOf[r] \in silent
        /\ listing'[p][r] = IF ScopeOf[r] \in silent THEN NotListed ELSE Row(r)
    BY <2>2 DEF TypeInv, TypeOK
  <2>4. r \in unread'[p] => ~listing'[p][r].listed
    BY <2>3 DEF NotListed
  <2>5. ASSUME listing'[p][r].listed
        PROVE  /\ listing'[p][r].start <= now
               /\ \A i \in 1..Len(view[r]) : listing'[p][r].start <= view[r][i].at
    <3>1. Listed(r) # NoWindow /\ listing'[p][r].start = window[Listed(r)].start
      BY <2>3, <2>5 DEF Row, NotListed
    <3>2. listing'[p][r].start = view[r][1].at /\ 1 \in 1..Len(view[r])
      BY <1>0, <3>1, ListedShown
    <3>3. Lags(r, 1)
      BY <3>2 DEF ArmInv, LagInv
    <3>4. \A i \in 1..Len(view[r]) : 1 <= i
      BY <1>0 DEF ArmShape
    <3> QED BY <3>2, <3>3, <3>4 DEF Lags
  <2>6. ASSUME ~listing'[p][r].listed, r \notin unread'[p], NEW i \in 1..Len(view[r]), view[r][i].window # NoWindow
        PROVE  started[p] <= view[r][i].at + MaxLag
    <3>1. Listed(r) = NoWindow
      BY <2>3, <2>6 DEF Row
    <3>2. view[r][1].window = NoWindow /\ Len(view[r]) \in Nat
      BY <1>0, <3>1 DEF Listed, ArmShape
    <3>3. i > 1
      BY <2>6, <3>2
    <3>4. now <= view[r][i].at + MaxLag /\ view[r][i].at \in Nat
      BY <1>0, <3>3 DEF ArmInv, LagInv, Lags, ArmShape
    <3>5. started[p] <= now
      BY <2>1 DEF RunInv
    <3> QED BY <1>0, <3>4, <3>5
  <2> QED BY <2>1, <2>4, <2>5, <2>6
<1> QED BY <1>1, <1>2, CommandStep

\* What was given up stays so.
LEMMA GivenUpStays ==
  ASSUME ArmShape, ArmMoved, NEW q, GivenUp(q)
  PROVE  /\ GivenUp(q)'
         /\ window'[q].role = window[q].role /\ window'[q].start = window[q].start
         /\ window'[q].over = window[q].over
<1>1. q \in Windows /\ q \in 1..Len(window')
  BY DEF GivenUp, Windows, ArmMoved, ArmShape
<1>2. /\ window'[q].role = window[q].role /\ window'[q].start = window[q].start
      /\ window'[q].over = window[q].over
  BY <1>1 DEF GivenUp, ArmMoved
<1> QED BY <1>1, <1>2 DEF GivenUp, Windows, Over

\* PIM lets nobody give up what has not been active for MinActive.
LEMMA GivenUpInvStep ==
  /\ Prompt /\ TypeInv /\ TypeInv' /\ ArmInv /\ ArmMoved /\ FreshInv /\ GivenUpInv /\ [Next]_vars
  => GivenUpInv'
<1> SUFFICES ASSUME TypeInv, TypeInv', ArmInv, ArmMoved, FreshInv, GivenUpInv, [Next]_vars
             PROVE  /\ \A q \in givenUp' : GivenUp(q)'
                    /\ \A p \in Procs : pc'[p] \in Changing => \A q : answer'[p].ended = q /\ q # NoWindow =>
                         GivenUp(q)' /\ window'[q].role = target'[p]
  BY Zenon DEF GivenUpInv, GivenUp, Windows, Over
<1>0. /\ ArmShape /\ ArmShape' /\ pc \in [Procs -> Points] /\ answer \in [Procs -> Answer]
      /\ target \in [Procs -> Roles \union {None}] /\ MinActive \in Nat
  BY ShapeOf, ShapeOfNext, RecordAssumption DEF TypeInv, TypeOK
<1>1. ASSUME NEW q \in givenUp' PROVE GivenUp(q)'
  <2>1. ASSUME NEW p \in Procs, WriteResult(p), q \notin givenUp PROVE GivenUp(q)
    <3>1. q = answer[p].ended /\ q # NoWindow
      BY <2>1 DEF WriteResult
    <3>2. pc[p] = "writing"
      BY <2>1 DEF WriteResult
    <3> QED BY <3>1, <3>2 DEF GivenUpInv, Changing
  <2>2. (\E p \in Procs : WriteReconciled(p)) => givenUp' = givenUp
    BY DEF WriteReconciled
  <2>3. GivenUp(q)
    BY <2>1, <2>2, FileStep DEF GivenUpInv
  <2> QED BY <1>0, <2>3, GivenUpStays
<1>2. ASSUME NEW p \in Procs, pc'[p] \in Changing, NEW q, answer'[p].ended = q, q # NoWindow
      PROVE  GivenUp(q)' /\ window'[q].role = target'[p]
  <2>1. CASE pc[p] \in Changing /\ target'[p] = target[p] /\ answer'[p] = answer[p]
    <3>1. GivenUp(q) /\ window[q].role = target[p]
      BY <1>2, <2>1 DEF GivenUpInv
    <3> QED BY <1>0, <2>1, <3>1, GivenUpStays
  <2>2. ASSUME NEW r \in Roles, Up(p, r) \/ Down(p, r) PROVE GivenUp(q)' /\ window'[q].role = target'[p]
    <3>1. CASE UpGranted(p, r) \/ UpExists(p, r) \/ DownNotActive(p, r)
      <4>1. answer'[p].ended = NoWindow
        BY <3>1, RequestAnswers DEF Answers
      <4> QED BY <1>2, <4>1
    <3>5. CASE DownRevoked(p, r)
      <4>1. /\ Active(r) /\ now >= window[Current(r)].start + MinActive /\ Revoke(r)
        BY <3>5 DEF DownRevoked
      <4>2. answer'[p].ended = Current(r)
        BY <3>5, RequestAnswers DEF Answers
      <4>3. target'[p] = r
        BY <3>5, RequestAnswers DEF Answers
      <4>4. q \in Windows /\ window[q].role = r
        <5>1. Current(r) \in Windows
          <6>1. Len(view[r]) \in 1..Len(view[r])
            BY <1>0 DEF ArmShape
          <6>2. Current(r) \in 0..Len(window) /\ Current(r) # 0
            BY <1>0, <4>1, <6>1 DEF ArmShape, Active, Current, NoWindow
          <6> QED BY <6>2 DEF Windows
        <5> QED BY <1>2, <4>2, <5>1 DEF ArmInv, WindowInv, Of
      <4>5. window' = [window EXCEPT ![q].over = now] /\ window \in Seq(Window)
        BY <1>2, <4>1, <4>2 DEF Revoke, TypeInv, TypeOK
      <4>6. /\ window'[q].over = now /\ Len(window') = Len(window)
            /\ window'[q].start = window[q].start /\ window'[q].role = window[q].role
        <5>1. window[q] \in Window /\ q \in DOMAIN window
          BY <4>4, <4>5, ElementOfSeq, LenProperties DEF Windows
        <5>2. window'[q] = [window[q] EXCEPT !.over = now]
          BY <4>5, <5>1
        <5>3. Len(window') = Len(window)
          BY <4>4, <4>5, ExceptSeq, <5>1, LenProperties
        <5> QED BY <5>1, <5>2, <5>3 DEF Window
      <4>7. now # NoTime
        BY <1>0 DEF ArmInv, WindowInv, NoTime, ArmShape
      <4> QED BY <1>2, <4>1, <4>2, <4>3, <4>4, <4>6, <4>7 DEF GivenUp, Windows, Over
    <3> QED BY <2>2, <3>1, <3>5 DEF Up, Down
  <2>3. CASE \E r \in Roles : Up(p, r) \/ Down(p, r)
    BY <2>2, <2>3
  <2> QED BY <1>2, <2>1, <2>3, CommandStep
<1> QED BY <1>1, <1>2

\* A tombstone from after the end of what is still listed is as good as new.
LEMMA TombstoneHolds ==
  ASSUME Prompt, TypeInv, ArmInv, DatesInv, GivenUpInv, DeniedInv, NEW r \in Roles, Listed(r) \in givenUp
  PROVE  /\ Revoked(file[r]) /\ ~Stale(file[r], local)
         /\ Denies(file[r], window[Listed(r)].start, local)
         /\ window[Listed(r)].start <= file[r].writtenAt
<1> DEFINE q == Listed(r)
           e == file[r]
<1>0. /\ ArmShape /\ now \in Nat /\ slip \in Nat /\ Ahead \in Nat /\ MaxLag \in Nat /\ Ceiling \in Nat
      /\ Tolerance \in Nat /\ MinActive \in Nat /\ e.writtenAt \in Int
  BY ShapeOf, RecordAssumption, CeilingAssumption, ToleranceAssumption DEF TypeInv, TypeOK, Record, Entry
<1>1. slip <= Tolerance /\ slip <= Ahead + MinActive
  BY <1>0 DEF Prompt, ArmInv, WindowInv
<1>2. GivenUp(q) /\ q # NoWindow /\ window[q].start \in Nat /\ window[q].over \in Nat
  BY <1>0 DEF GivenUpInv, GivenUp, Windows, NoWindow, ArmShape
<1>3. now <= window[q].over + MaxLag
  BY <1>0, <1>2, ListedShown DEF GivenUp
<1>4. Revoked(e) /\ window[q].over + Ahead - slip <= e.writtenAt
  BY DEF DeniedInv
<1>5. e.writtenAt <= now + Ahead
  BY <1>4 DEF DatesInv, Dated, Revoked, Present
<1>6. window[q].start + MinActive <= window[q].over
  BY <1>2 DEF GivenUp
<1> HIDE DEF q, e
<1>7. window[q].start <= e.writtenAt
  BY <1>0, <1>1, <1>2, <1>4, <1>6
<1>8. ~WrittenInFuture(e, local)
  BY <1>0, <1>1, <1>5 DEF WrittenInFuture, local
<1>9. ~PastCeiling(e, local)
  BY <1>0, <1>2, <1>3, <1>4 DEF PastCeiling, local, Prompt
<1> QED BY <1>4, <1>7, <1>8, <1>9 DEF Stale, Denies, q, e

\* The tombstone of what was given up stays on file while the listing shows it.
LEMMA DeniedStep ==
  /\ Flock /\ Prompt /\ TypeInv /\ TypeInv' /\ UpdatesAreAtomic /\ TimesInv /\ ArmMoved
  /\ GivenUpInv /\ ListedInv /\ DeniedInv /\ [Next]_vars
  => DeniedInv'
<1> SUFFICES ASSUME Prompt, TypeInv, TypeInv', UpdatesAreAtomic, TimesInv, ArmMoved,
                    GivenUpInv, ListedInv, DeniedInv, [Next]_vars,
                    NEW r \in Roles, NEW q, q = Listed(r)', q \in givenUp'
             PROVE  Revoked(file'[r]) /\ window'[q].over + Ahead - slip' <= file'[r].writtenAt
  BY Zenon DEF DeniedInv, Revoked
<1> USE DEF TimesInv
<1>0. /\ ArmShape /\ ArmShape' /\ now \in Nat /\ slip \in Nat /\ slip' \in Nat /\ slip <= slip'
      /\ Ahead \in Nat /\ MaxLag \in Nat /\ MaxRun \in Nat /\ MinActive \in Nat
      /\ Ceiling \in Nat /\ Tolerance \in Nat /\ file[r].writtenAt \in Int /\ file'[r].writtenAt \in Int
  BY ShapeOf, ShapeOfNext, RecordAssumption, CeilingAssumption, ToleranceAssumption
  DEF TypeInv, TypeOK, Record, Entry, ArmMoved
<1>1. ASSUME q \in givenUp PROVE q = Listed(r)
  <2>1. SUFFICES ASSUME Lagging(r), q = view[r][2].window PROVE FALSE
    BY <1>1 DEF ArmMoved
  <2>2. GivenUp(q) /\ q # NoWindow
    BY <1>1 DEF GivenUpInv, GivenUp, Windows, NoWindow
  <2>3. 2 \in 1..Len(view[r]) /\ Lags(r, 2)
    BY <1>0, <2>1 DEF Lagging, ArmShape, ArmInv, LagInv
  <2>4. window[q].start = view[r][2].at /\ now <= view[r][2].at + MaxLag /\ view[r][2].at \in Nat
    <3>1. view[r][2].window # NoWindow /\ 2 > 1
      BY <2>1, <2>2
    <3> QED BY <1>0, <2>1, <2>3, <3>1 DEF Lags, ArmShape
  <2>5. window[q].over <= now /\ window[q].start + MinActive <= window[q].over /\ window[q].over \in Nat
    BY <1>0, <2>2 DEF GivenUp, ArmInv, WindowInv, ArmShape
  <2> QED BY <1>0, <2>4, <2>5 DEF Prompt
<1>2. ASSUME q \in givenUp
      PROVE  /\ Revoked(file[r]) /\ ~Stale(file[r], local) /\ Denies(file[r], window[q].start, local)
             /\ window[q].over + Ahead - slip <= file[r].writtenAt
             /\ window'[q].over = window[q].over /\ window[q].over \in Nat
  <2>1. q = Listed(r) /\ GivenUp(q)
    BY <1>1, <1>2 DEF GivenUpInv
  <2>2. /\ Revoked(file[r]) /\ ~Stale(file[r], local) /\ Denies(file[r], window[q].start, local)
        /\ window[q].over + Ahead - slip <= file[r].writtenAt
    BY <1>2, <2>1, TombstoneHolds DEF DeniedInv
  <2>3. window'[q].over = window[q].over /\ window[q].over \in Nat
    BY <1>0, <2>1, GivenUpStays DEF GivenUp, ArmShape
  <2> QED BY <2>2, <2>3
<1>3. ASSUME q \in givenUp, file'[r] = file[r]
      PROVE  Revoked(file'[r]) /\ window'[q].over + Ahead - slip' <= file'[r].writtenAt
  BY <1>0, <1>2, <1>3
<1>4. CASE file' = file /\ givenUp' = givenUp
  BY <1>3, <1>4
<1>5. ASSUME NEW p \in Procs, WriteResult(p)
      PROVE  Revoked(file'[r]) /\ window'[q].over + Ahead - slip' <= file'[r].writtenAt
  <2>0. /\ pc[p] = "writing" /\ UNCHANGED <<now, slip, window, view>>
        /\ givenUp' = IF Revoked(fresh[p]) THEN givenUp \union ({answer[p].ended} \ {NoWindow})
                                           ELSE {w \in givenUp : window[w].role # target[p]}
    BY <1>5 DEF WriteResult, Forget, clock, arm
  <2>1. target[p] \in Roles /\ Present(fresh[p]) /\ copy[p] = file /\ started[p] \in Nat
        /\ fresh[p].writtenAt \in Int
    BY <2>0 DEF AnswerInv, FreshInv, Changing, UpdatesAreAtomic, TypeInv, TypeOK, Entry
  <2>2. q = Listed(r)
    BY <2>0 DEF Listed
  <2>3. q \in givenUp \/ (Revoked(fresh[p]) /\ q = answer[p].ended /\ q # NoWindow)
    BY <2>0
  <2>4. GivenUp(q) /\ q # NoWindow /\ (q \notin givenUp => window[q].role = target[p])
    BY <2>0, <2>3 DEF GivenUpInv, GivenUp, Changing, Windows, NoWindow
  <2>5. window[q].role = r /\ now <= window[q].over + MaxLag
    BY <1>0, <2>2, <2>4, ListedShown DEF GivenUp
  <2>6. CASE r # target[p]
    <3>1. q \in givenUp
      BY <2>4, <2>5, <2>6
    <3>2. file'[r] = file[r]
      BY <1>2, <1>5, <2>1, <2>6, <3>1, ResultEntry
    <3> QED BY <1>3, <3>1, <3>2
  <2>7. CASE r = target[p]
    <3>1. Revoked(fresh[p])
      BY <2>0, <2>5, <2>7
    <3>2. /\ answer[p].outcome \in {"DEACTIVATED", "NOT ACTIVE"}
          /\ started[p] + Ahead - slip <= fresh[p].writtenAt /\ fresh[p].writtenAt <= now + Ahead
      BY <2>0, <3>1 DEF FreshInv
    <3>3. window[q].over <= started[p] \/ started[p] <= window[q].start + MaxLag
      BY <2>0, <2>4, <2>5, <2>7, <3>2 DEF AnswerInv, Changing, GivenUp, Of
    <3>4. /\ window[q].over <= now /\ window[q].start + MinActive <= window[q].over
          /\ window[q].over \in Nat /\ window[q].start \in Nat
      BY <1>0, <2>4 DEF GivenUp, ArmInv, WindowInv, ArmShape
    <3>5. now <= started[p] + MaxRun
      BY <2>0 DEF RunInv
    <3>6. window[q].over <= started[p]
      BY <1>0, <2>1, <3>3, <3>4, <3>5 DEF Prompt
    <3>7. window[q].over + Ahead - slip <= fresh[p].writtenAt
      <4>1. started[p] + Ahead - slip <= fresh[p].writtenAt
        BY <3>2
      <4> QED BY <1>0, <2>1, <3>4, <3>6, <4>1
    <3>8. slip <= Tolerance
      BY <1>0 DEF Prompt, ArmInv, WindowInv
    <3>9. ~WrittenInFuture(fresh[p], local)
      <4>1. fresh[p].writtenAt <= now + Ahead
        BY <3>2
      <4> QED BY <1>0, <2>1, <3>8, <4>1 DEF WrittenInFuture, local
    <3>10. ~PastCeiling(fresh[p], local)
      BY <1>0, <2>1, <2>5, <3>4, <3>7 DEF PastCeiling, local, Prompt
    <3>11. file'[r] = fresh[p]
      <4>1. ~Stale(fresh[p], local)
        BY <3>1, <3>9, <3>10 DEF Stale
      <4> QED BY <1>5, <2>1, <2>7, <3>1, <4>1, ResultEntry
    <3> QED BY <2>0, <3>1, <3>7, <3>11
  <2> QED BY <2>6, <2>7
<1>6. ASSUME NEW p \in Procs, WriteReconciled(p)
      PROVE  Revoked(file'[r]) /\ window'[q].over + Ahead - slip' <= file'[r].writtenAt
  <2> DEFINE old == Live(copy[p], local)
             new == ReconcileRecord(old, listing[p], unread[p], Gone(p), local)
  <2>0. pc[p] = "reconciling" /\ givenUp' = givenUp /\ file' = Live(new, local)
    BY <1>6 DEF WriteReconciled
  <2>1. copy[p] = file /\ started[p] \in Nat /\ old \in Record /\ listing[p] \in Listing /\ local \in Int
        /\ listing[p][r].start \in Int
    <3>1. copy[p] \in Record /\ listing[p] \in Listing
      BY DEF TypeInv, TypeOK
    <3> QED BY <2>0, <3>1, LiveType, TimeTypes DEF UpdatesAreAtomic
  <2>2. q \in givenUp /\ q = Listed(r) /\ GivenUp(q) /\ q # NoWindow
    BY <1>1, <2>0 DEF GivenUpInv, GivenUp, Windows, NoWindow
  <2>3. old[r] = file[r] /\ Revoked(old[r]) /\ Present(old[r]) /\ ~Stale(old[r], local)
    BY <1>2, <2>1, <2>2, LiveEntry DEF Revoked, Present
  <2>4. /\ 1 \in 1..Len(view[r]) /\ view[r][1].window = q /\ window[q].start = view[r][1].at
        /\ window[q].start \in Nat
    BY <1>0, <2>2, ListedShown DEF ArmShape
  <2>5. new[r] = old[r]
    <3>1. CASE listing[p][r].listed
      <4>1. listing[p][r].start <= window[q].start
        BY <2>0, <2>2, <2>4, <3>1 DEF ListedInv, Tallied, Watching
      <4>2. Denies(old[r], window[q].start, local) /\ old[r].writtenAt \in Int
        BY <1>0, <1>2, <2>2, <2>3
      <4>3. Denies(old[r], listing[p][r].start, local)
        BY <2>1, <2>4, <4>1, <4>2 DEF Denies
      <4> HIDE DEF old
      <4> QED BY <2>1, <3>1, <4>3, DeniedStaysDenied
    <3>2. CASE ~listing[p][r].listed /\ r \in unread[p]
      <4> HIDE DEF old
      <4> QED BY <2>1, <2>3, <3>2, UnreadStaysPut
    <3>3. CASE ~listing[p][r].listed /\ r \notin unread[p]
      <4>1. started[p] <= window[q].start + MaxLag
        BY <2>0, <2>2, <2>4, <3>3 DEF ListedInv, Tallied, Watching
      <4>2. now <= started[p] + MaxRun
        BY <2>0 DEF RunInv
      <4>3. window[q].over <= now /\ window[q].start + MinActive <= window[q].over /\ window[q].over \in Nat
        BY <1>0, <2>2 DEF GivenUp, ArmInv, WindowInv, ArmShape
      <4>4. window[q].start \in Nat /\ started[p] \in Nat /\ MaxLag + MaxRun < MinActive
        BY <2>1, <2>4 DEF Prompt
      <4>5. FALSE
        BY <1>0, <4>1, <4>2, <4>3, <4>4
      <4> QED BY <4>5
    <3> QED BY <3>1, <3>2, <3>3
  <2>6. file'[r] = new[r]
    <3> HIDE DEF new, old
    <3> QED BY <2>0, <2>3, <2>5, LiveEntry
  <2> QED BY <1>3, <2>2, <2>3, <2>5, <2>6
<1> QED BY <1>4, <1>5, <1>6, FileStep

\* So does what denies an activation that was given up, where the lock holds.
LEMMA DenyInvariant == ASSUME Flock, Prompt PROVE Spec => []DenyInv
<1>1. Init => DenyInv
  <2> SUFFICES ASSUME Init PROVE DenyInv
    OBVIOUS
  <2>1. givenUp = {} /\ \A p \in Procs : pc[p] = "idle"
    BY DEF Init
  <2> QED BY <2>1 DEF DenyInv, ListedInv, GivenUpInv, DeniedInv, Tallied, Watching, Changing
<1>2. TypeInv /\ TypeInv' /\ UpdatesAreAtomic /\ TimesInv /\ DenyInv /\ [Next]_vars => DenyInv'
  BY ArmStep, ListedStep, GivenUpInvStep, DeniedStep DEF DenyInv, TimesInv
<1> QED BY <1>1, <1>2, TypeInvariant, UpdatesAtomic, TimesInvariant, PTL DEF Spec

\* While ARM's listing still shows an activation that was given up here, the record denies
\* it, whatever the other commands had read before they write, where the lock holds and
\* nothing has been recorded of the role since (forgetActivations, keepAgainstListing).
\* The listing must not lag, together with the run of a command, for as long as PIM
\* lets nobody give a role up: a `status` that was told of nothing at all would then
\* take the tombstone away.
THEOREM DeniedWhileListed == ASSUME Flock, Prompt PROVE Spec => []GivenUpStaysDenied
<1>1. TypeInv /\ TimesInv /\ DenyInv => GivenUpStaysDenied
  BY TombstoneHolds DEF TimesInv, DenyInv, GivenUpStaysDenied
<1> QED BY <1>1, TypeInvariant, TimesInvariant, DenyInvariant, PTL

-----------------------------------------------------------------------------
(* Which activation an entry and a verdict are about.                       *)

\* Requests name activations there have been.
Requests == 0..Len(window)

\* A command holds the request it sent, its entry that request or none; the record and
\* the verdicts name activations there have been.
RequestInv ==
  /\ \A r \in Roles : file[r].request \in Requests
  /\ \A p \in Procs :
       /\ answer[p].request \in Requests
       /\ fresh[p].request \in {NoRequest, answer[p].request} /\ ~fresh[p].listed
       /\ fresh[p].source = "arm" => fresh[p].request # NoRequest
       /\ answer[p].since # NoTime => answer[p].request # NoRequest
       /\ pc[p] = "idle" => fresh[p] = NoEntry
       /\ \A r \in Roles : copy[p][r].request \in Requests /\ verdict[p][r].request \in Requests

\* A request that reads as gone is one whose activation is over.
VerdictInv ==
  \A p \in Procs, r \in Roles :
    verdict[p][r].gone => verdict[p][r].request # NoRequest /\ Over(verdict[p][r].request)

\* What a step does to what a process was answered and told.
LEMMA ToldStep ==
  ASSUME TypeInv, [Next]_vars, NEW p \in Procs
  PROVE  /\ \/ answer'[p] = answer[p] \/ answer'[p] = NoAnswer
            \/ \E r \in Roles : Up(p, r) \/ Down(p, r)
         /\ \/ fresh'[p] = fresh[p] /\ answer'[p] = answer[p]
            \/ fresh'[p] = fresh[p] /\ pc[p] = "idle"
            \/ fresh'[p] = NoEntry
            \/ RecordResult(p)
         /\ pc'[p] = "idle" => fresh'[p] = NoEntry \/ (pc[p] = "idle" /\ fresh'[p] = fresh[p])
         /\ \/ verdict'[p] = verdict[p] \/ verdict'[p] = [r \in Roles |-> NoVerdict]
            \/ VerifyConfirming(p) \/ AskAll(p)
         /\ \/ listing'[p] = listing[p] \/ listing'[p] = [r \in Roles |-> NotListed]
            \/ ListActivations(p)
<1>0. /\ answer \in [Procs -> Answer] /\ fresh \in [Procs -> Entry] /\ listing \in [Procs -> Listing]
      /\ verdict \in [Procs -> [Roles -> Verdict]] /\ pc \in [Procs -> Points]
  BY DEF TypeInv, TypeOK
<1>1. CASE Tick \/ StepClockBack \/ (\E r \in Roles : ARM(r)) \/ UNCHANGED vars
  BY <1>1 DEF Tick, StepClockBack, ARM, Expire, ElsewhereUp, ElsewhereDown, CatchUp, vars, mine, reading
<1>2. CASE \E o \in Procs, r \in Roles : Up(o, r) \/ Down(o, r)
  <2>1. PICK o \in Procs, r \in Roles : Up(o, r) \/ Down(o, r)
    BY <1>2
  <2>2. PICK a : Submit(o, r, a)
    BY <2>1 DEF Up, Down, UpGranted, UpExists, DownRevoked, DownNotActive
  <2>3. /\ UNCHANGED <<fresh, listing, verdict>> /\ answer' = [answer EXCEPT ![o] = a] /\ pc[o] = "idle"
        /\ pc' = [pc EXCEPT ![o] = "submitted"]
    BY <2>2 DEF Submit, reading
  <2> QED BY <1>0, <2>1, <2>3
<1>3. CASE \E o \in Procs : RecordResult(o)
  <2>1. PICK o \in Procs : RecordResult(o)
    BY <1>3
  <2>2. /\ UNCHANGED <<answer, listing, verdict>> /\ pc' = [pc EXCEPT ![o] = "landed"]
        /\ \E e : fresh' = [fresh EXCEPT ![o] = e]
    BY <2>1 DEF RecordResult, reading
  <2> QED BY <1>0, <2>1, <2>2
<1>4. CASE \E o \in Procs : LockAndRead(o) \/ ReadLocalRecord(o)
  <2>1. PICK o \in Procs : LockAndRead(o) \/ ReadLocalRecord(o)
    BY <1>4
  <2>2. UNCHANGED <<answer, fresh, listing, verdict>>
    BY <2>1 DEF LockAndRead, ReadLocalRecord, mine, reading
  <2>3. \E c \in {"writing", "reconciling", "listing"} : pc' = [pc EXCEPT ![o] = c]
    BY <2>1 DEF LockAndRead, ReadLocalRecord
  <2> QED BY <1>0, <2>2, <2>3
<1>5. CASE \E o \in Procs : WriteResult(o) \/ WriteReconciled(o) \/ Die(o)
  <2>1. PICK o \in Procs : Forget(o)
    BY <1>5 DEF WriteResult, WriteReconciled, Die
  <2> QED BY <1>0, <2>1 DEF Forget
<1>6. CASE \E o \in Procs : ListActivations(o)
  <2>1. PICK o \in Procs : ListActivations(o)
    BY <1>6
  <2>2. /\ UNCHANGED <<answer, fresh, verdict>> /\ pc' = [pc EXCEPT ![o] = "listed"]
        /\ \E e : listing' = [listing EXCEPT ![o] = e]
    BY <2>1 DEF ListActivations, mine
  <2> QED BY <1>0, <2>1, <2>2
<1>7. CASE \E o \in Procs : VerifyConfirming(o) \/ AskAll(o)
  <2>1. PICK o \in Procs : VerifyConfirming(o) \/ AskAll(o)
    BY <1>7
  <2>2. /\ UNCHANGED <<answer, fresh, listing>>
        /\ \E c \in {"asked", "verified"} : pc' = [pc EXCEPT ![o] = c]
        /\ \E e : verdict' = [verdict EXCEPT ![o] = e]
    BY <2>1 DEF VerifyConfirming, AskAll, mine
  <2> QED BY <1>0, <2>1, <2>2
<1> QED BY <1>1, <1>2, <1>3, <1>4, <1>5, <1>6, <1>7 DEF Next, Status

\* The result of a command is its own entry, or that filled from the record's.
LEMMA ResultIs ==
  ASSUME TypeInv, NEW p \in Procs, WriteResult(p), NEW r \in Roles
  PROVE  \/ file'[r] = NoEntry
         \/ file'[r] = copy[p][r]
         \/ r = target[p] /\ file'[r] = fresh[p]
         \/ /\ r = target[p] /\ file'[r] = FilledFrom(copy[p][r], fresh[p])
            /\ ~NewActivation(copy[p][r], fresh[p]) /\ Held(copy[p][r])
<1> DEFINE old == Live(copy[p], local)
           one == [EmptyRecord EXCEPT ![target[p]] = fresh[p]]
           new == MergeEntries(old, one)
<1>1. file' = Live(new, local)
  BY DEF WriteResult
<1>2. old[r] = copy[p][r] \/ old[r] = NoEntry
  BY LiveEntry
<1>3. one[r] = IF r = target[p] THEN fresh[p] ELSE NoEntry
  BY DEF EmptyRecord
<1>4. new[r] = IF ~Present(one[r]) THEN old[r]
               ELSE IF ~Present(old[r]) THEN one[r] ELSE MergeEntry(old[r], one[r])
  BY DEF MergeEntries
<1>5. file'[r] = new[r] \/ file'[r] = NoEntry
  BY <1>1, LiveEntry
<1>6. ~Present(NoEntry)
  BY DEF Present, NoEntry
<1> HIDE DEF new, one, old
<1>7. CASE ~Present(one[r])
  BY <1>2, <1>4, <1>5, <1>7
<1>8. CASE Present(one[r]) /\ ~Present(old[r])
  BY <1>3, <1>4, <1>5, <1>6, <1>8
<1>9. CASE Present(one[r]) /\ Present(old[r])
  <2>1. r = target[p] /\ one[r] = fresh[p] /\ old[r] = copy[p][r] /\ new[r] = MergeEntry(copy[p][r], fresh[p])
    BY <1>2, <1>3, <1>4, <1>6, <1>9
  <2> QED BY <1>5, <1>9, <2>1 DEF MergeEntry, Held
<1> QED BY <1>7, <1>8, <1>9

\* Reconciling leaves an entry, drops it, or writes the row that was listed.
LEMMA ReconciledIs ==
  ASSUME TypeInv, NEW p \in Procs, WriteReconciled(p), NEW r \in Roles
  PROVE  \/ file'[r] = NoEntry
         \/ file'[r] = copy[p][r]
         \/ /\ listing[p][r].listed
            /\ \E e \in {NoEntry, copy[p][r]} : file'[r] = ListedEntry(e, listing[p][r], local)
<1> DEFINE old == Live(copy[p], local)
           new == ReconcileRecord(old, listing[p], unread[p], Gone(p), local)
<1>1. file' = Live(new, local)
  BY DEF WriteReconciled
<1>2. copy[p] \in Record /\ old \in Record /\ listing[p] \in Listing /\ local \in Int
  BY LiveType, LocalType DEF TypeInv, TypeOK
<1>3. old[r] = copy[p][r] \/ old[r] = NoEntry
  BY LiveEntry
<1>4. new[r] \in {KeepAgainstListing(old, listing[p], unread[p], Gone(p), local)[r],
                  ListedEntries(old, listing[p], unread[p], local)[r]}
  BY <1>2, ReconcileTakesOneSide
<1>5. KeepAgainstListing(old, listing[p], unread[p], Gone(p), local)[r] \in {old[r], NoEntry}
  BY DEF KeepAgainstListing
<1>6. \/ ListedEntries(old, listing[p], unread[p], local)[r] = NoEntry
      \/ /\ listing[p][r].listed
         /\ ListedEntries(old, listing[p], unread[p], local)[r] = ListedEntry(old[r], listing[p][r], local)
  BY DEF ListedEntries
<1> HIDE DEF new, old
<1>7. file'[r] = new[r] \/ file'[r] = NoEntry
  BY <1>1, LiveEntry
<1> QED BY <1>3, <1>4, <1>5, <1>6, <1>7

\* The requests a step leaves in the record were there, or are a command's own.
LEMMA RequestKept ==
  ASSUME TypeInv, [Next]_vars, NEW r \in Roles
  PROVE  \/ file'[r] = file[r]
         \/ file'[r].request = NoRequest
         \/ \E p \in Procs : file'[r].request = copy[p][r].request
         \/ \E p \in Procs : pc[p] = "writing" /\ file'[r].request = fresh[p].request /\ answer'[p] = NoAnswer
<1>1. CASE file' = file
  BY <1>1
<1>2. ASSUME NEW p \in Procs, WriteResult(p) PROVE answer'[p] = NoAnswer /\ pc[p] = "writing"
  BY <1>2 DEF WriteResult, Forget, TypeInv, TypeOK
<1>3. ASSUME NEW p \in Procs, NEW old
      PROVE  FilledFrom(old, fresh[p]).request \in {old.request, fresh[p].request}
  BY DEF FilledFrom
<1>4. CASE \E p \in Procs : WriteResult(p)
  BY <1>2, <1>3, <1>4, ResultIs DEF NoEntry
<1>5. ASSUME NEW e, NEW row PROVE ListedEntry(e, row, local).request \in {NoRequest, e.request}
  BY DEF ListedEntry
<1>6. CASE \E p \in Procs : WriteReconciled(p)
  BY <1>5, <1>6, ReconciledIs DEF NoEntry
<1> QED BY <1>1, <1>4, <1>6, FileStep


\* What a submitted request is answered with.
LEMMA SubmittedRequest ==
  ASSUME TypeInv, NEW p \in Procs, NEW r \in Roles, Up(p, r) \/ Down(p, r)
  PROVE  /\ \/ answer'[p].request = NoRequest /\ answer'[p].since = NoTime
            \/ answer'[p].request = Len(window) + 1 /\ Len(window') = Len(window) + 1
         /\ \A o \in Procs : o # p => answer'[o] = answer[o]
         /\ UNCHANGED <<file, copy, fresh, verdict>>
<1>0. /\ answer \in [Procs -> Answer] /\ window \in Seq(Window) /\ Len(window) \in Nat
      /\ Current(r) \in 0..Len(window)
  BY RowType, LenProperties DEF TypeInv, TypeOK
<1>1. ASSUME NEW a, Submit(p, r, a)
      PROVE  /\ answer'[p] = a /\ \A o \in Procs : o # p => answer'[o] = answer[o]
             /\ UNCHANGED <<file, copy, fresh, verdict>>
  BY <1>0, <1>1 DEF Submit, reading
<1>2. CASE UpGranted(p, r)
  <2>1. PICK d \in Durations, told \in Told :
          /\ Grant(r, d)
          /\ Submit(p, r, [NoAnswer EXCEPT !.outcome = "ACTIVATED", !.request = Len(window) + 1,
                                           !.since = IF told THEN now ELSE NoTime,
                                           !.until = IF told THEN now + d ELSE NoTime])
    BY <1>2 DEF UpGranted
  <2>2. Len(window') = Len(window) + 1
    BY <1>0, <2>1, LenProperties DEF Grant
  <2> DEFINE a == [NoAnswer EXCEPT !.outcome = "ACTIVATED", !.request = Len(window) + 1,
                                   !.since = IF told THEN now ELSE NoTime,
                                   !.until = IF told THEN now + d ELSE NoTime]
  <2>3. a.request = Len(window) + 1
    BY DEF NoAnswer
  <2>4. Submit(p, r, a)
    BY <2>1
  <2> HIDE DEF a
  <2> QED BY <1>1, <2>2, <2>3, <2>4
<1>3. CASE UpExists(p, r) \/ DownRevoked(p, r) \/ DownNotActive(p, r)
  <2> DEFINE exists(t) == [NoAnswer EXCEPT !.outcome = "ALREADY ACTIVE", !.until = t]
             revoked   == [NoAnswer EXCEPT !.outcome = "DEACTIVATED", !.ended = Current(r)]
             not       == [NoAnswer EXCEPT !.outcome = "NOT ACTIVE"]
             Asks(a)   == a.request = NoRequest /\ a.since = NoTime
  <2>1. Len(window') = Len(window)
    <3>1. window' = window \/ \E e : window' = [window EXCEPT ![Current(r)] = e]
      BY <1>3 DEF UpExists, DownRevoked, DownNotActive, Revoke, arm
    <3> QED BY <1>0, <3>1
  <2>2. (\A t : Asks(exists(t))) /\ Asks(revoked) /\ Asks(not)
    BY DEF NoAnswer
  <2>3. (\E t : Submit(p, r, exists(t))) \/ Submit(p, r, revoked) \/ Submit(p, r, not)
    BY <1>3 DEF UpExists, DownRevoked, DownNotActive
  <2> HIDE DEF exists, revoked, not
  <2> QED BY <1>0, <1>1, <2>1, <2>2, <2>3
<1> QED BY <1>2, <1>3 DEF Up, Down

\* Requests go on naming activations there have been.
LEMMA RequestStep == TypeInv /\ TypeInv' /\ ArmMoved /\ RequestInv /\ [Next]_vars => RequestInv'
<1> SUFFICES ASSUME TypeInv, TypeInv', ArmMoved, RequestInv, [Next]_vars
             PROVE  RequestInv'
  OBVIOUS
<1>0. /\ ArmShape /\ ArmShape' /\ Len(window) \in Nat /\ Len(window') \in Nat
      /\ \A n \in Requests : n \in 0..Len(window')
      /\ NoRequest \in Requests
  BY ShapeOf, ShapeOfNext DEF ArmMoved, ArmShape, Requests, NoRequest
<1>1. ASSUME NEW r \in Roles PROVE file'[r].request \in 0..Len(window')
  BY <1>0, RequestKept DEF RequestInv
<1>2. ASSUME NEW p \in Procs 
      PROVE  answer'[p].request \in 0..Len(window') /\ (answer'[p].since # NoTime => answer'[p].request # NoRequest)
  BY <1>0, ToldStep, SubmittedRequest DEF RequestInv, NoAnswer, NoRequest
<1>3. ASSUME NEW p \in Procs
      PROVE  /\ fresh'[p].request \in {NoRequest, answer'[p].request} /\ ~fresh'[p].listed
             /\ fresh'[p].source = "arm" => fresh'[p].request # NoRequest
  <2>1. CASE RecordResult(p)
    <3>1. /\ answer'[p] = answer[p]
          /\ fresh'[p] = IF answer[p].outcome \in {"ACTIVATED", "ALREADY ACTIVE"}
                           THEN ActivationEntry(answer[p], local) ELSE Tombstone(local)
      BY <2>1 DEF RecordResult, TypeInv, TypeOK
    <3>2. answer[p].since = NoTime \/ answer[p].request # NoRequest
      BY DEF RequestInv
    <3>3. /\ ActivationEntry(answer[p], local).request = answer[p].request
          /\ ~ActivationEntry(answer[p], local).listed
          /\ ActivationEntry(answer[p], local).source = "arm" => answer[p].since # NoTime
          /\ Tombstone(local).request = NoRequest /\ ~Tombstone(local).listed
          /\ Tombstone(local).source # "arm"
      BY DEF ActivationEntry, Tombstone
    <3> QED BY <3>1, <3>2, <3>3
  <2>2. CASE fresh'[p] = NoEntry
    BY <2>2 DEF NoEntry
  <2>3. CASE fresh'[p] = fresh[p] /\ answer'[p] = answer[p]
    BY <2>3 DEF RequestInv
  <2>4. CASE fresh'[p] = fresh[p] /\ pc[p] = "idle"
    BY <2>4 DEF RequestInv, NoEntry
  <2> QED BY <2>1, <2>2, <2>3, <2>4, ToldStep
<1>6. ASSUME NEW p \in Procs PROVE pc'[p] = "idle" => fresh'[p] = NoEntry
  BY ToldStep DEF RequestInv
<1>4. ASSUME NEW p \in Procs, NEW r \in Roles PROVE copy'[p][r].request \in 0..Len(window')
  <2>1. EmptyRecord[r].request = NoRequest
    BY DEF EmptyRecord, NoEntry
  <2> QED BY <1>0, <2>1, CommandStep DEF RequestInv
<1>5. ASSUME NEW p \in Procs, NEW r \in Roles PROVE verdict'[p][r].request \in 0..Len(window')
  <2>1. verdict \in [Procs -> [Roles -> Verdict]]
    BY DEF TypeInv, TypeOK
  <2>2. CASE VerifyConfirming(p)
    <3>1. verdict'[p][r] \in {NoVerdict, [NoVerdict EXCEPT !.request = file[r].request]}
      BY <2>1, <2>2 DEF VerifyConfirming
    <3> QED BY <1>0, <3>1 DEF RequestInv, NoVerdict
  <2>3. CASE AskAll(p)
    <3>4. PICK gone :
            verdict' = [verdict EXCEPT ![p] = [s \in Roles |-> [@[s] EXCEPT !.gone = s \in gone]]]
      BY <2>3 DEF AskAll
    <3>1. verdict'[p][r] = [verdict[p][r] EXCEPT !.gone = r \in gone]
      BY <2>1, <3>4
    <3>2. verdict[p][r] \in [request : Nat, gone : BOOLEAN]
      BY <2>1 DEF Verdict
    <3>3. verdict'[p][r].request = verdict[p][r].request
      BY <3>1, <3>2
    <3> QED BY <1>0, <3>3 DEF RequestInv
  <2> QED BY <1>0, <2>2, <2>3, ToldStep DEF RequestInv, NoVerdict
<1> QED BY <1>1, <1>2, <1>3, <1>4, <1>5, <1>6 DEF RequestInv, Requests


\* What is over stays over.
LEMMA OverStays ==
  ASSUME ArmShape, ArmMoved, NEW q \in Windows, Over(q)
  PROVE  Over(q)' /\ q \in 1..Len(window')
BY DEF ArmShape, ArmMoved, Over, Windows

\* ARM says of a request that it is gone only once its activation is over, which it
\* then remains.
LEMMA VerdictStep ==
  TypeInv /\ ArmMoved /\ RequestInv /\ VerdictInv /\ [Next]_vars => VerdictInv'
<1> SUFFICES ASSUME TypeInv, ArmMoved, RequestInv, VerdictInv, [Next]_vars,
                    NEW p \in Procs, NEW r \in Roles, verdict'[p][r].gone
             PROVE  verdict'[p][r].request # NoRequest /\ window'[verdict'[p][r].request].over # NoTime
  BY DEF VerdictInv, Over
<1>0. ArmShape /\ verdict \in [Procs -> [Roles -> Verdict]] /\ pc \in [Procs -> Points]
  BY ShapeOf DEF TypeInv, TypeOK
<1>1. ASSUME NEW q \in Requests, q # NoRequest, Over(q) PROVE window'[q].over # NoTime
  BY <1>0, <1>1, OverStays DEF Requests, Windows, NoRequest, Over, ArmShape
<1>2. CASE verdict'[p] = verdict[p]
  BY <1>1, <1>2 DEF RequestInv, VerdictInv
<1>3. CASE AskAll(p)
  <2>1. PICK gone \in SUBSET {s \in Roles : /\ verdict[p][s].request # NoRequest
                                            /\ Over(verdict[p][s].request)} :
          verdict' = [verdict EXCEPT ![p] = [s \in Roles |-> [@[s] EXCEPT !.gone = s \in gone]]]
    BY <1>3 DEF AskAll
  <2>2. verdict'[p][r] = [verdict[p][r] EXCEPT !.gone = r \in gone]
    BY <1>0, <2>1
  <2>4. verdict[p][r] \in [request : Nat, gone : BOOLEAN]
    BY <1>0 DEF Verdict
  <2>3. verdict'[p][r].request = verdict[p][r].request /\ r \in gone
    BY <2>2, <2>4
  <2> QED BY <1>1, <2>1, <2>3 DEF RequestInv
<1>4. CASE VerifyConfirming(p)
  <2>1. verdict'[p][r] \in {NoVerdict, [NoVerdict EXCEPT !.request = file[r].request]}
    BY <1>0, <1>4 DEF VerifyConfirming
  <2> QED BY <2>1 DEF NoVerdict
<1> QED BY <1>2, <1>3, <1>4, ToldStep DEF NoVerdict

-----------------------------------------------------------------------------
(* What the record says the listing has shown.                              *)

\* The request a command has yet to record is nobody else's.
PendingInv ==
  \A p \in Procs : answer[p].request # NoRequest =>
    /\ \A r \in Roles : file[r].request # answer[p].request
    /\ \A q \in Procs, r \in Roles : copy[q][r].request # answer[p].request
    /\ \A q \in Procs : answer[q].request = answer[p].request => q = p

\* An activation is shown once.
OnceInv ==
  \A r \in Roles : \A i, j \in 1..Len(view[r]) :
    view[r][i].window = view[r][j].window /\ view[r][i].window # NoWindow => i = j

\* An activation of r that began at t has been listed.
WasShown(r, t) ==
  \E q \in Of(r) : window[q].start = t /\ \A i \in 2..Len(view[r]) : view[r][i].window # q

\* An entry marked Listed has its start from a row.
Marked(e, r) == e.listed => e.source = "arm" /\ WasShown(r, e.start)

ShownInv ==
  \A r \in Roles :
    /\ Marked(file[r], r)
    /\ \A p \in Procs : /\ Marked(copy[p][r], r) /\ Marked(seen[p][r], r)
                        /\ listing[p][r].listed => WasShown(r, listing[p][r].start)

\* No two activations of a role begin at the same instant.
DistinctStarts ==
  \A q, w \in Windows : window[q].role = window[w].role /\ window[q].start = window[w].start => q = w

\* What the listing had shown by the time the record was read, and no longer showed when
\* it answered, is over.
MissedInv ==
  \A p \in Procs, r \in Roles :
    pc[p] \in Tallied /\ ~listing[p][r].listed /\ r \notin unread[p] /\ seen[p][r].listed =>
      \A q \in Of(r) : window[q].start = seen[p][r].start => Over(q)

\* A new request is not one anybody knows of.
LEMMA PendingStep == TypeInv /\ RequestInv /\ PendingInv /\ [Next]_vars => PendingInv'
<1> SUFFICES ASSUME TypeInv, RequestInv, PendingInv, [Next]_vars,
                    NEW p \in Procs, answer'[p].request # NoRequest
             PROVE  /\ \A r \in Roles : file'[r].request # answer'[p].request
                    /\ \A q \in Procs, r \in Roles : copy'[q][r].request # answer'[p].request
                    /\ \A q \in Procs : answer'[q].request = answer'[p].request => q = p
  BY DEF PendingInv
<1>0. ArmShape /\ Len(window) \in Nat /\ Requests = 0..Len(window) /\ \A r \in Roles : EmptyRecord[r].request = NoRequest
  BY ShapeOf DEF ArmShape, Requests, EmptyRecord, NoEntry
<1>1. CASE \E q \in Procs, r \in Roles : Up(q, r) \/ Down(q, r)
  <2>1. PICK q \in Procs, r \in Roles : Up(q, r) \/ Down(q, r)
    BY <1>1
  <2>2. /\ answer'[q].request = NoRequest \/ answer'[q].request = Len(window) + 1
        /\ \A o \in Procs : o # q => answer'[o] = answer[o]
        /\ file' = file /\ copy' = copy
    BY <2>1, SubmittedRequest
  <2>3. CASE p = q
    <3>1. answer'[p].request = Len(window) + 1
      BY <2>2, <2>3
    <3>2. \A n \in Requests : n # Len(window) + 1
      BY <1>0
    <3> QED BY <2>2, <2>3, <3>1, <3>2 DEF RequestInv
  <2>4. CASE p # q
    <3>1. answer'[p] = answer[p] /\ answer[p].request \in Requests
      BY <2>2, <2>4 DEF RequestInv
    <3>2. answer'[q].request # answer'[p].request
      BY <1>0, <2>2, <3>1
    <3> QED BY <2>2, <3>1, <3>2 DEF PendingInv
  <2> QED BY <2>3, <2>4
<1>2. CASE ~\E q \in Procs, r \in Roles : Up(q, r) \/ Down(q, r)
  <2>1. \A q \in Procs : answer'[q] = answer[q] \/ answer'[q] = NoAnswer
    BY <1>2, ToldStep
  <2>2. answer'[p] = answer[p]
    BY <2>1 DEF NoAnswer
  <2>3. ASSUME NEW r \in Roles PROVE file'[r].request # answer[p].request
    <3>1. ASSUME NEW q \in Procs, fresh[q].request = answer[p].request, answer'[q] = NoAnswer
          PROVE  FALSE
      <4>1. answer[q].request = answer[p].request
        BY <2>2, <3>1 DEF RequestInv
      <4> QED BY <2>2, <3>1, <4>1 DEF PendingInv, NoAnswer
    <3> QED BY <2>2, <3>1, RequestKept DEF PendingInv
  <2>4. ASSUME NEW q \in Procs, NEW r \in Roles PROVE copy'[q][r].request # answer[p].request
    <3>1. copy'[q] \in {copy[q], EmptyRecord, file}
      BY CommandStep
    <3> QED BY <1>0, <2>2, <3>1 DEF PendingInv
  <2>5. \A q \in Procs : answer'[q].request = answer[p].request => q = p
    BY <2>1, <2>2 DEF PendingInv, NoAnswer
  <2> QED BY <2>2, <2>3, <2>4, <2>5
<1> QED BY <1>1, <1>2

\* What the listing has yet to show grows at its end and is shown from its beginning.
LEMMA ViewStep ==
  ASSUME TypeInv, [Next]_vars, NEW r \in Roles
  PROVE  \/ Len(view'[r]) = Len(view[r]) /\ \A i \in 1..Len(view[r]) : view'[r][i] = view[r][i]
         \/ /\ Len(view'[r]) = Len(view[r]) - 1
            /\ \A i \in 1..Len(view'[r]) : view'[r][i] = view[r][i + 1]
         \/ /\ Len(view'[r]) = Len(view[r]) + 1
            /\ \A i \in 1..Len(view[r]) : view'[r][i] = view[r][i]
            /\ view'[r][Len(view'[r])].window \in {NoWindow, Len(window) + 1}
<1>0. view \in [Roles -> Seq(Shown) \ {<<>>}] /\ now \in Nat /\ Len(window) \in Nat
  BY LenProperties DEF TypeInv, TypeOK
<1>1. ASSUME NEW s \in Roles, NEW q \in {NoWindow, Len(window) + 1}, Change(s, q)
      PROVE  \/ view'[r] = view[r]
             \/ /\ Len(view'[r]) = Len(view[r]) + 1
                /\ \A i \in 1..Len(view[r]) : view'[r][i] = view[r][i]
                /\ view'[r][Len(view'[r])].window = q
  <2> DEFINE v == [window |-> q, at |-> now]
  <2>1. v \in Shown /\ v.window = q
    BY <1>0 DEF Shown, NoWindow
  <2>2. view' = [view EXCEPT ![s] = Append(@, v)]
    BY <1>1 DEF Change
  <2> HIDE DEF v
  <2>3. CASE s = r
    <3>1. view'[r] = Append(view[r], v) /\ view[r] \in Seq(Shown)
      BY <1>0, <2>2, <2>3
    <3> QED BY <2>1, <3>1, AppendProperties
  <2>4. CASE s # r
    BY <1>0, <2>2, <2>4
  <2> QED BY <2>3, <2>4
<1>2. CASE Granting
  <2>1. \E s \in Roles : Change(s, Len(window) + 1)
    BY <1>2 DEF Granting, Grant
  <2> QED BY <1>1, <2>1
<1>3. CASE Revoking
  <2>1. \E s \in Roles : Change(s, NoWindow)
    BY <1>3 DEF Revoking, Revoke
  <2> QED BY <1>1, <2>1
<1>4. CASE Showing
  <2>1. PICK s \in Roles : Lagging(s) /\ view' = [view EXCEPT ![s] = Tail(@)]
    BY <1>4 DEF Showing, CatchUp
  <2>2. CASE s = r
    <3>1. view'[r] = Tail(view[r]) /\ view[r] \in Seq(Shown) /\ Len(view[r]) > 1 /\ view[r] # <<>>
      BY <1>0, <2>1, <2>2 DEF Lagging
    <3> QED BY <3>1, HeadTailProperties
  <2>3. CASE s # r
    BY <1>0, <2>1, <2>3
  <2> QED BY <2>2, <2>3
<1>5. CASE Tick \/ StepClockBack \/ UNCHANGED view
  BY <1>5 DEF Tick, StepClockBack, arm
<1> QED BY <1>2, <1>3, <1>4, <1>5, StepKinds

\* A new activation is shown once, and no other again.
LEMMA OnceStep == TypeInv /\ OnceInv /\ [Next]_vars => OnceInv'
<1> SUFFICES ASSUME TypeInv, OnceInv, [Next]_vars, NEW r \in Roles,
                    NEW i \in 1..Len(view'[r]), NEW j \in 1..Len(view'[r]),
                    view'[r][i].window = view'[r][j].window, view'[r][i].window # NoWindow
             PROVE  i = j
  BY DEF OnceInv
<1>0. ArmShape /\ Len(view[r]) \in Nat /\ Len(window) \in Nat
      /\ \A k \in 1..Len(view[r]) : view[r][k].window \in 0..Len(window)
  BY ShapeOf DEF ArmShape
<1>1. CASE Len(view'[r]) = Len(view[r]) /\ \A k \in 1..Len(view[r]) : view'[r][k] = view[r][k]
  BY <1>1 DEF OnceInv
<1>2. CASE Len(view'[r]) = Len(view[r]) - 1 /\ \A k \in 1..Len(view'[r]) : view'[r][k] = view[r][k + 1]
  <2>1. i + 1 \in 1..Len(view[r]) /\ j + 1 \in 1..Len(view[r])
    BY <1>0, <1>2
  <2>2. view[r][i + 1].window = view[r][j + 1].window /\ view[r][i + 1].window # NoWindow
    BY <1>2
  <2>3. i + 1 = j + 1
    BY <2>1, <2>2 DEF OnceInv
  <2> QED BY <2>3
<1>3. CASE /\ Len(view'[r]) = Len(view[r]) + 1
           /\ \A k \in 1..Len(view[r]) : view'[r][k] = view[r][k]
           /\ view'[r][Len(view'[r])].window \in {NoWindow, Len(window) + 1}
  <2>1. \A k \in 1..Len(view'[r]) : k \in 1..Len(view[r]) \/ k = Len(view'[r])
    BY <1>0, <1>3
  <2>2. ASSUME NEW k \in 1..Len(view[r]) PROVE view'[r][k].window \in 0..Len(window)
    BY <1>0, <1>3
  <2>3. \A k \in 1..Len(view'[r]) : k = Len(view'[r]) /\ view'[r][k].window # NoWindow =>
          view'[r][k].window \notin 0..Len(window)
    BY <1>0, <1>3
  <2>4. CASE i \in 1..Len(view[r]) /\ j \in 1..Len(view[r])
    BY <1>3, <2>4 DEF OnceInv
  <2> QED BY <2>1, <2>2, <2>3, <2>4
<1> QED BY <1>1, <1>2, <1>3, ViewStep

\* What has been shown has been shown.
LEMMA ShownStays ==
  ASSUME TypeInv, ArmMoved, [Next]_vars, NEW r \in Roles, NEW t, WasShown(r, t)
  PROVE  WasShown(r, t)'
<1>0. ArmShape /\ Len(view[r]) \in Nat /\ Len(window) \in Nat
  BY ShapeOf DEF ArmShape
<1>1. PICK q \in Of(r) : window[q].start = t /\ \A i \in 2..Len(view[r]) : view[r][i].window # q
  BY DEF WasShown
<1>2. q \in Windows /\ q \in Nat \ {0} /\ window[q].role = r /\ Len(window) <= Len(window')
  BY <1>0 DEF Of, Windows, ArmMoved
<1>3. q \in Of(r)' /\ window'[q].start = t
  BY <1>0, <1>1, <1>2, ShapeOf DEF ArmMoved, Of, Windows, ArmShape
<1>4. ASSUME NEW i \in 2..Len(view'[r]) PROVE view'[r][i].window # q
  <2>1. CASE Len(view'[r]) = Len(view[r]) /\ \A k \in 1..Len(view[r]) : view'[r][k] = view[r][k]
    <3>1. i \in 1..Len(view[r]) /\ i \in 2..Len(view[r])
      BY <1>0, <2>1
    <3> QED BY <1>1, <2>1, <3>1
  <2>2. CASE Len(view'[r]) = Len(view[r]) - 1 /\ \A k \in 1..Len(view'[r]) : view'[r][k] = view[r][k + 1]
    <3>1. i \in 1..Len(view'[r]) /\ i + 1 \in 2..Len(view[r])
      BY <1>0, <2>2
    <3> QED BY <1>1, <2>2, <3>1
  <2>3. CASE /\ Len(view'[r]) = Len(view[r]) + 1
             /\ \A k \in 1..Len(view[r]) : view'[r][k] = view[r][k]
             /\ view'[r][Len(view'[r])].window \in {NoWindow, Len(window) + 1}
    <3>1. (i \in 1..Len(view[r]) /\ i \in 2..Len(view[r])) \/ i = Len(view'[r])
      BY <1>0, <2>3
    <3>2. q # NoWindow /\ q # Len(window) + 1
      BY <1>0, <1>2 DEF NoWindow, Windows
    <3> QED BY <1>1, <2>3, <3>1, <3>2
  <2> QED BY <2>1, <2>2, <2>3, ViewStep
<1> QED BY <1>3, <1>4 DEF WasShown


\* The row the listing shows is that of an activation it is showing.
LEMMA RowShown ==
  ASSUME TypeInv, ArmInv, OnceInv, NEW r \in Roles, Row(r).listed
  PROVE  WasShown(r, Row(r).start)
<1>0. ArmShape
  BY ShapeOf
<1>1. Listed(r) # NoWindow
  BY DEF Row, NotListed
<1>2. /\ Listed(r) \in Windows /\ window[Listed(r)].role = r
      /\ 1 \in 1..Len(view[r]) /\ view[r][1].window = Listed(r)
  BY <1>0, <1>1, ListedShown
<1>3. Row(r).start = window[Listed(r)].start
  BY <1>1 DEF Row
<1>4. ASSUME NEW i \in 2..Len(view[r]) PROVE view[r][i].window # Listed(r)
  <2>1. i \in 1..Len(view[r]) /\ i # 1
    BY <1>0 DEF ArmShape
  <2> QED BY <1>1, <1>2, <2>1 DEF OnceInv
<1> QED BY <1>2, <1>3, <1>4 DEF WasShown, Of

\* An entry marked Listed keeps the start it was listed with until another row, or a new
\* request, replaces it.
LEMMA ShownStep ==
  /\ TypeInv /\ TypeInv' /\ ArmInv /\ ArmMoved /\ RequestInv /\ PendingInv /\ OnceInv /\ ShownInv
  /\ [Next]_vars
  => ShownInv'
<1> SUFFICES ASSUME TypeInv, TypeInv', ArmInv, ArmMoved, RequestInv, PendingInv, OnceInv, ShownInv, [Next]_vars,
                    NEW r \in Roles
             PROVE  /\ Marked(file[r], r)'
                    /\ \A p \in Procs : /\ Marked(copy[p][r], r)' /\ Marked(seen[p][r], r)'
                                        /\ (listing[p][r].listed => WasShown(r, listing[p][r].start))'
  BY DEF ShownInv
<1>0. /\ ArmShape /\ ArmShape' /\ file \in Record /\ local \in Int
      /\ listing \in [Procs -> Listing] /\ unread \in [Procs -> SUBSET Roles]
  BY ShapeOf, ShapeOfNext, LocalType DEF TypeInv, TypeOK
<1>1. ASSUME NEW e, Marked(e, r) PROVE Marked(e, r)'
  BY <1>1, ShownStays DEF Marked
<1>2. ASSUME NEW e, ~e.listed PROVE Marked(e, r)'
  BY <1>2 DEF Marked
<1>3. /\ Marked(file[r], r)
      /\ \A p \in Procs : /\ Marked(copy[p][r], r) /\ Marked(seen[p][r], r)
                          /\ listing[p][r].listed => WasShown(r, listing[p][r].start)
  BY DEF ShownInv
<1>4. ~NoEntry.listed /\ EmptyRecord[r] = NoEntry /\ NotListed.listed = FALSE
  BY DEF NoEntry, EmptyRecord, NotListed
<1>5. ASSUME NEW p \in Procs, WriteResult(p), NEW e, e = file'[r] PROVE Marked(e, r)'
  <2> DEFINE f == FilledFrom(copy[p][r], fresh[p])
  <2>1. CASE e = NoEntry \/ e = copy[p][r]
    BY <1>1, <1>2, <1>3, <1>4, <2>1
  <2>2. CASE e = fresh[p]
    BY <1>2, <2>2 DEF RequestInv
  <2>3. CASE e = f /\ ~NewActivation(copy[p][r], fresh[p])
    <3>1. ~fresh[p].listed
      BY DEF RequestInv
    <3>2. f.listed <=> copy[p][r].listed
      BY <3>1 DEF FilledFrom
    <3>3. CASE ~copy[p][r].listed
      BY <1>2, <2>3, <3>2, <3>3
    <3>4. CASE copy[p][r].listed
      <4>1. copy[p][r].source = "arm" /\ WasShown(r, copy[p][r].start)
        BY <1>3, <3>4 DEF Marked
      <4>2. fresh[p].source # "arm"
        <5>1. fresh[p].request # NoRequest => fresh[p].request = answer[p].request /\ answer[p].request # NoRequest
          BY DEF RequestInv
        <5>2. fresh[p].request # NoRequest => fresh[p].request = copy[p][r].request
          BY <2>3 DEF NewActivation
        <5>3. fresh[p].request = NoRequest
          BY <5>1, <5>2 DEF PendingInv
        <5> QED BY <5>3 DEF RequestInv
      <4>3. f.source = "arm" /\ f.start = copy[p][r].start
        BY <4>1, <4>2 DEF FilledFrom
      <4> HIDE DEF f
      <4>4. Marked(e, r)
        BY <2>3, <4>1, <4>3 DEF Marked
      <4> QED BY <1>1, <4>4
    <3> QED BY <3>3, <3>4
  <2> QED BY <1>5, <2>1, <2>2, <2>3, ResultIs
<1>6. ASSUME NEW p \in Procs, WriteReconciled(p), NEW e, e = file'[r] PROVE Marked(e, r)'
  <2>1. CASE e = NoEntry \/ e = copy[p][r]
    BY <1>1, <1>2, <1>3, <1>4, <2>1
  <2>2. CASE listing[p][r].listed /\ \E o : e = ListedEntry(o, listing[p][r], local)
    <3>1. PICK o : e = ListedEntry(o, listing[p][r], local)
      BY <2>2
    <3>2. e.start = listing[p][r].start /\ (listing[p][r].start # NoTime => e.source = "arm")
      BY <3>1 DEF ListedEntry
    <3>3. WasShown(r, listing[p][r].start)
      BY <1>3, <2>2
    <3>4. listing[p][r].start # NoTime
      BY <1>0, <3>3 DEF WasShown, ArmInv, WindowInv, Of, NoTime, ArmShape
    <3>5. Marked(e, r)
      BY <3>2, <3>3, <3>4 DEF Marked
    <3> QED BY <1>1, <3>5
  <2> QED BY <1>6, <2>1, <2>2, ReconciledIs
<1>7. ASSUME NEW e, e = file'[r] PROVE Marked(e, r)'
  BY <1>1, <1>3, <1>5, <1>6, <1>7, FileStep
<1>8. ASSUME NEW p \in Procs, NEW e, e = copy'[p][r] PROVE Marked(e, r)'
  BY <1>1, <1>2, <1>3, <1>4, <1>8, CommandStep
<1>9. ASSUME NEW p \in Procs, NEW e, e = seen'[p][r] PROVE Marked(e, r)'
  <2>1. CASE seen'[p] \in {seen[p], EmptyRecord}
    BY <1>1, <1>2, <1>3, <1>4, <1>9, <2>1
  <2>2. CASE ReadLocalRecord(p)
    <3>1. seen'[p] = Live(file, local)
      BY <2>2 DEF ReadLocalRecord, TypeInv, TypeOK
    <3>2. e = file[r] \/ e = NoEntry
      BY <1>9, <3>1, LiveEntry
    <3> QED BY <1>1, <1>2, <1>3, <1>4, <3>2
  <2> QED BY <2>1, <2>2, CommandStep
<1>10. ASSUME NEW p \in Procs, NEW t, listing'[p][r].listed, t = listing'[p][r].start PROVE WasShown(r, t)'
  <2>1. CASE listing'[p] = listing[p]
    BY <1>3, <1>10, <2>1, ShownStays
  <2>2. CASE ListActivations(p)
    <3>1. PICK silent \in SUBSET Scopes :
            listing' = [listing EXCEPT ![p] =
              [s \in Roles |-> IF ScopeOf[s] \in silent THEN NotListed ELSE Row(s)]]
      BY <2>2 DEF ListActivations
    <3>2. listing'[p][r] = IF ScopeOf[r] \in silent THEN NotListed ELSE Row(r)
      BY <1>0, <3>1
    <3>3. listing'[p][r] = Row(r)
      BY <1>4, <1>10, <3>2
    <3>4. WasShown(r, t)
      BY <1>10, <3>3, RowShown
    <3> QED BY <3>4, ShownStays
  <2>3. CASE listing'[p] = [s \in Roles |-> NotListed]
    BY <1>4, <1>10, <2>3
  <2> QED BY <2>1, <2>2, <2>3, ToldStep
<1>11. Marked(file[r], r)'
  BY <1>7 DEF Marked
<1>12. ASSUME NEW p \in Procs PROVE Marked(copy[p][r], r)' /\ Marked(seen[p][r], r)'
  BY <1>8, <1>9 DEF Marked
<1>13. ASSUME NEW p \in Procs PROVE (listing[p][r].listed => WasShown(r, listing[p][r].start))'
  BY <1>10 DEF WasShown
<1> QED BY <1>11, <1>12, <1>13

\* What was listed and no longer is, is over.
LEMMA MissedStep ==
  /\ TypeInv /\ TypeInv' /\ ArmInv /\ ArmMoved /\ ShownInv /\ MissedInv
  /\ DistinctStarts /\ DistinctStarts' /\ [Next]_vars
  => MissedInv'
<1> SUFFICES ASSUME TypeInv, TypeInv', ArmInv, ArmMoved, ShownInv, MissedInv,
                    DistinctStarts, DistinctStarts', [Next]_vars,
                    NEW p \in Procs, NEW r \in Roles,
                    pc'[p] \in Tallied, ~listing'[p][r].listed, r \notin unread'[p], seen'[p][r].listed,
                    NEW q \in Of(r)', window'[q].start = seen'[p][r].start
             PROVE  window'[q].over # NoTime
  BY DEF MissedInv, Tallied, Watching, Over
<1>0. /\ ArmShape /\ ArmShape' /\ pc \in [Procs -> Points]
      /\ listing \in [Procs -> Listing] /\ unread \in [Procs -> SUBSET Roles]
  BY ShapeOf, ShapeOfNext DEF TypeInv, TypeOK
<1>1. seen'[p] = seen[p]
  <2>1. ReadLocalRecord(p) => pc'[p] = "listing"
    BY <1>0 DEF ReadLocalRecord
  <2> QED BY <2>1, CommandStep DEF Tallied, Watching
<1>2. PICK w \in Of(r) : /\ window[w].start = seen[p][r].start
                         /\ \A i \in 2..Len(view[r]) : view[r][i].window # w
  BY <1>1 DEF ShownInv, Marked, WasShown
<1>3. /\ w \in Windows /\ w \in 1..Len(window') /\ window'[w].role = r
      /\ window'[w].start = seen[p][r].start
  BY <1>0, <1>2 DEF Of, Windows, ArmMoved, ArmShape
<1>4. q = w
  BY <1>1, <1>3 DEF DistinctStarts, Of, Windows
<1>5. Over(w) => window'[w].over # NoTime
  BY <1>0, <1>3, OverStays DEF Over
<1>6. CASE pc[p] \in Tallied /\ listing'[p] = listing[p] /\ unread'[p] = unread[p]
  BY <1>1, <1>2, <1>4, <1>5, <1>6 DEF MissedInv
<1>7. CASE ListActivations(p)
  <2>1. PICK silent \in SUBSET Scopes :
          /\ unread' = [unread EXCEPT ![p] = {s \in Roles : ScopeOf[s] \in silent}]
          /\ listing' = [listing EXCEPT ![p] =
               [s \in Roles |-> IF ScopeOf[s] \in silent THEN NotListed ELSE Row(s)]]
    BY <1>7 DEF ListActivations
  <2>2. /\ r \in unread'[p] <=> ScopeOf[r] \in silent
        /\ listing'[p][r] = IF ScopeOf[r] \in silent THEN NotListed ELSE Row(r)
    BY <1>0, <2>1
  <2>3. ~Row(r).listed
    BY <2>2
  <2>4. Listed(r) = NoWindow
    BY <2>3 DEF Row
  <2>5. view[r][1].window = NoWindow /\ Len(view[r]) \in Nat \ {0}
    BY <1>0, <2>4 DEF Listed, ArmShape
  <2>6. Current(r) # w
    <3>1. CASE Len(view[r]) = 1
      <4>1. Current(r) = 0
        BY <2>5, <3>1 DEF Current, NoWindow
      <4>2. w \in 1..Len(window) /\ Len(window) \in Nat
        BY <1>0, <1>3 DEF Windows, ArmShape
      <4> QED BY <4>1, <4>2
    <3>2. CASE Len(view[r]) # 1
      <4>2. \A n \in Nat \ {0} : n # 1 => n \in 2..n
        OBVIOUS
      <4>1. Len(view[r]) \in 2..Len(view[r])
        BY <2>5, <3>2, <4>2
      <4> QED BY <1>2, <4>1 DEF Current
    <3> QED BY <3>1, <3>2
  <2>7. Over(w)
    BY <1>2, <1>3, <2>6 DEF ArmInv, WindowInv
  <2> QED BY <1>4, <1>5, <2>7
<1> QED BY <1>6, <1>7, CommandStep


\* The record and the verdicts name activations there have been, and entries marked
\* Listed come from rows.
EntriesInv == RequestInv /\ VerdictInv /\ PendingInv /\ OnceInv /\ ShownInv

\* They do so whether or not the lock holds.
LEMMA EntriesInvariant == Spec => []EntriesInv
<1>1. Init => EntriesInv
  <2> SUFFICES ASSUME Init PROVE EntriesInv
    OBVIOUS
  <2>1. RequestInv /\ VerdictInv
    BY DEF Init, RequestInv, VerdictInv, Requests, EmptyRecord, NoEntry, NoAnswer, NoVerdict, NoRequest, NoTime
  <2>2. PendingInv
    BY DEF Init, PendingInv, NoAnswer
  <2>3. \A r \in Roles : Len(view[r]) = 1
    BY DEF Init
  <2>4. OnceInv
    BY <2>3 DEF OnceInv
  <2>5. ShownInv
    BY DEF Init, ShownInv, Marked, EmptyRecord, NoEntry, NotListed
  <2> QED BY <2>1, <2>2, <2>4, <2>5 DEF EntriesInv
<1>2. TypeInv /\ TypeInv' /\ TimesInv /\ EntriesInv /\ [Next]_vars => EntriesInv'
  BY ArmStep, RequestStep, VerdictStep, PendingStep, OnceStep, ShownStep DEF TimesInv, EntriesInv
<1> QED BY <1>1, <1>2, TypeInvariant, TimesInvariant, PTL DEF Spec

-----------------------------------------------------------------------------
(* What leaves the record.                                                  *)

\* What writes leave of an entry that is in force by both clocks.
LEMMA LiveProvisioned ==
  ASSUME TypeInv, NEW r \in Roles, Provisioned(r), ~EndOfAnother(file[r])
  PROVE  ~Stale(file[r], local) /\ Held(file[r]) /\ ~file[r].listed /\ ~PastCeiling(file[r], local)
<1>1. file[r].end = NoTime \/ file[r].end = window[file[r].request].end
  BY DEF EndOfAnother
<1>2. /\ file[r].request \in Nat \ {0} /\ window[file[r].request].end > local
      /\ Confirming(file[r], local) /\ ~WrittenInFuture(file[r], local)
  BY DEF Provisioned, TypeInv, TypeOK, Record, Entry, NoRequest
<1>3. file[r] \in Entry /\ local \in Int
  BY LocalType DEF TypeInv, TypeOK, Record
<1>4. ~Expired(file[r], local)
  BY <1>1, <1>2, <1>3 DEF Expired, Entry, NoTime
<1> QED BY <1>2, <1>4 DEF Confirming, Stale, Held

\* The record of an activation that is in force and yet to be listed leaves the file only
\* when a command about the role says so, or by an answer about another activation.
THEOREM KeptUntilTold == ASSUME Flock PROVE Spec => KeptButForOldAnswer
<1>1. ASSUME TypeInv, UpdatesAreAtomic, EntriesInv, [Next]_vars, NEW r \in Roles,
             Provisioned(r), ~SameActivation(r), ~EndOfAnother(file[r])
      PROVE  \E p \in Procs : \/ pc[p] = "writing" /\ target[p] = r
                              \/ /\ pc[p] = "reconciling"
                                 /\ OldVerdict(p, r, file[r]) \/ OtherRow(p, r, file[r])
  <2>0. /\ ~Stale(file[r], local) /\ Held(file[r]) /\ ~file[r].listed /\ ~PastCeiling(file[r], local)
        /\ file[r].request # NoRequest /\ ~Over(file[r].request)
        /\ window[file[r].request].end > local
    BY <1>1, LiveProvisioned DEF Provisioned
  <2>a. local \in Int /\ file \in Record
    BY <1>1, LocalType DEF TypeInv, TypeOK
  <2>1. file'[r] # file[r]
    BY <1>1, <2>0 DEF SameActivation, Held, Present, Revoked
  <2>2. ASSUME NEW p \in Procs, WriteResult(p) PROVE pc[p] = "writing" /\ target[p] = r
    <3>1. pc[p] = "writing" /\ copy[p] = file
      BY <1>1, <2>2 DEF WriteResult, UpdatesAreAtomic
    <3>2. ASSUME target[p] # r PROVE file'[r] = file[r]
      <4> DEFINE new == MergeEntries(Live(file, local), [EmptyRecord EXCEPT ![target[p]] = fresh[p]])
      <4>1. Live(file, local)[r] = file[r]
        BY <2>0, LiveEntry
      <4>2. [EmptyRecord EXCEPT ![target[p]] = fresh[p]][r] = NoEntry
        BY <3>2 DEF EmptyRecord
      <4>3. new[r] = file[r]
        BY <4>1, <4>2 DEF MergeEntries, Present, NoEntry
      <4>4. file' = Live(new, local)
        BY <2>2, <3>1 DEF WriteResult
      <4> HIDE DEF new
      <4> QED BY <2>0, <4>3, <4>4, LiveEntry
    <3> QED BY <2>1, <3>1, <3>2
  <2>3. ASSUME NEW p \in Procs, WriteReconciled(p)
        PROVE  pc[p] = "reconciling" /\ (OldVerdict(p, r, file[r]) \/ OtherRow(p, r, file[r]))
    <3> DEFINE old  == Live(file, local)
               kept == KeepAgainstListing(old, listing[p], unread[p], Gone(p), local)
               rows == ListedEntries(old, listing[p], unread[p], local)
               new  == ReconcileRecord(old, listing[p], unread[p], Gone(p), local)
    <3>1. pc[p] = "reconciling" /\ copy[p] = file
      BY <1>1, <2>3 DEF WriteReconciled, UpdatesAreAtomic
    <3>2. file' = Live(new, local)
      BY <2>3, <3>1 DEF WriteReconciled
    <3>3. old[r] = file[r]
      BY <2>0, LiveEntry
    <3>4. ~Revoked(file[r]) /\ Confirming(file[r], local)
      BY <2>0 DEF Held, Confirming
    <3>5. new = MergeEntries(kept, rows)
      BY DEF ReconcileRecord
    <3>6. CASE ~listing[p][r].listed
      <4>1. rows[r] = NoEntry
        BY <3>6 DEF ListedEntries
      <4>2. CASE r \in Gone(p)
        BY <1>1, <2>0, <3>1, <4>2 DEF Gone, EntriesInv, VerdictInv, OldVerdict
      <4>3. CASE r \notin Gone(p)
        <5>1. kept[r] = file[r]
          BY <2>0, <3>3, <3>4, <3>6, <4>3 DEF KeepAgainstListing, KeptHeld
        <5>2. new[r] = file[r]
          BY <3>5, <4>1, <5>1 DEF MergeEntries, Present, NoEntry
        <5> HIDE DEF new
        <5> QED BY <2>0, <2>1, <3>2, <5>2, LiveEntry
      <4> QED BY <4>2, <4>3
    <3>7. CASE listing[p][r].listed
      <4> DEFINE e == ListedEntry(file[r], listing[p][r], local)
      <4>1. kept[r] = NoEntry /\ rows[r] = e
        BY <3>3, <3>4, <3>7 DEF KeepAgainstListing, KeptRevoked, KeptHeld, ListedEntries
      <4>3. /\ e.status = "ACTIVATED" /\ e.request = file[r].request /\ e.end = listing[p][r].end
            /\ e.writtenAt = file[r].writtenAt
        BY <2>0 DEF ListedEntry
      <4> HIDE DEF e, new, kept, rows
      <4>4. Held(e)
        BY <4>3 DEF Held, Present, Revoked
      <4>2. new[r] = e
        <5>1. ~Present(kept[r]) /\ Present(rows[r])
          BY <4>1, <4>4 DEF Present, NoEntry, Held
        <5> QED BY <3>5, <4>1, <5>1 DEF MergeEntries
      <4>5. Stale(e, local)
        BY <1>1, <3>2, <4>2, <4>3, <4>4, LiveEntry DEF SameActivation
      <4>6. e.end # NoTime /\ local >= e.end
        BY <1>1, <4>3, <4>4, <4>5 DEF Stale, Held, Expired, WrittenInFuture, Provisioned
      <4>7. listing[p][r].end \in Int /\ window[file[r].request].end \in Int
        <5>1. window \in Seq(Window) /\ Len(window) \in Nat /\ listing[p] \in Listing
          BY <1>1, LenProperties DEF TypeInv, TypeOK
        <5>2. file[r].request \in 1..Len(window)
          BY <1>1, <2>0, <5>1 DEF EntriesInv, RequestInv, Requests, NoRequest
        <5>3. window[file[r].request] \in Window
          BY <5>1, <5>2, ElementOfSeq
        <5>4. listing[p][r] \in [listed : BOOLEAN, start : Int, end : Nat]
          BY <5>1 DEF Listing
        <5>5. window[file[r].request].end \in Nat
          BY <5>3 DEF Window
        <5> QED BY <5>4, <5>5
      <4>8. listing[p][r].end # window[file[r].request].end
        BY <2>0, <2>a, <4>3, <4>6, <4>7
      <4> QED BY <3>1, <3>7, <4>8 DEF OtherRow
    <3> QED BY <3>6, <3>7
  <2>4. file' # file
    BY <2>1
  <2> QED BY <1>1, <2>2, <2>3, <2>4, FileStep
<1>2. TypeInv /\ UpdatesAreAtomic /\ EntriesInv /\ [Next]_vars =>
        [\A r \in Roles : Provisioned(r) /\ ~SameActivation(r) =>
           \/ EndOfAnother(file[r])
           \/ \E p \in Procs : \/ pc[p] = "writing" /\ target[p] = r
                               \/ /\ pc[p] = "reconciling"
                                  /\ OldVerdict(p, r, file[r]) \/ OtherRow(p, r, file[r])]_vars
  BY <1>1
<1> QED BY <1>2, TypeInvariant, UpdatesAtomic, EntriesInvariant, PTL DEF Spec, KeptButForOldAnswer


-----------------------------------------------------------------------------
(* What a status reports as lost.                                           *)

\* No role is reported as no longer held while the activation the record had for it is in
\* force, save for the three reasons it names, where the activations of a role begin at
\* different instants: rows and activations are told apart by when they start.
THEOREM NothingLostUnawares == Spec /\ []DistinctStarts => []NoLossButMislisted
<1>1. Init => MissedInv
  BY DEF Init, MissedInv, Tallied, Watching
<1>2. /\ TypeInv /\ TypeInv' /\ TimesInv /\ EntriesInv /\ MissedInv
      /\ DistinctStarts /\ DistinctStarts' /\ [Next]_vars
      => MissedInv'
  BY ArmStep, MissedStep DEF TimesInv, EntriesInv
<1>3. EntriesInv /\ MissedInv => NoLossButMislisted
  <2> SUFFICES ASSUME EntriesInv, MissedInv, NEW p \in Procs, NEW r \in Roles,
                      pc[p] = "reconciling", ReportsLost(p, r),
                      seen[p][r].listed \/ r \in confirming[p],
                      ~ListedForAnother(seen[p][r]), ~OldVerdict(p, r, seen[p][r]),
                      NEW q \in Windows, IsAbout(seen[p][r], r, q)
               PROVE  Over(q)
    BY DEF NoLossButMislisted, Windows
  <2>1. ~listing[p][r].listed /\ r \notin unread[p] /\ (r \in confirming[p] => r \in Gone(p))
    BY DEF ReportsLost, Stands
  <2>2. q \in Of(r) /\ (seen[p][r].request = q \/ (seen[p][r].request = NoRequest /\ seen[p][r].start = window[q].start))
    BY DEF IsAbout, Of
  <2>3. CASE r \in Gone(p)
    <3>1. verdict[p][r].gone /\ verdict[p][r].request = seen[p][r].request
      BY <2>3 DEF Gone, OldVerdict
    <3>2. verdict[p][r].request # NoRequest /\ Over(verdict[p][r].request)
      BY <3>1 DEF EntriesInv, VerdictInv
    <3> QED BY <2>2, <3>1, <3>2 DEF NoRequest
  <2>4. CASE r \notin Gone(p)
    <3>1. seen[p][r].listed
      BY <2>1, <2>4
    <3>2. seen[p][r].start = window[q].start
      <4>1. q # NoRequest
        BY DEF Windows, NoRequest
      <4> QED BY <2>2, <3>1, <4>1 DEF ListedForAnother
    <3> QED BY <2>1, <2>2, <3>1, <3>2 DEF MissedInv, Tallied, Watching
  <2> QED BY <2>3, <2>4
<1> QED BY <1>1, <1>2, <1>3, TypeInvariant, TimesInvariant, EntriesInvariant, PTL DEF Spec

-----------------------------------------------------------------------------
(* Where activations of a role begin at different instants.                 *)

\* An activation does not end at the instant it begins.
LastsInv == \A q \in Windows : window[q].start < window[q].end /\ (Over(q) => window[q].start < window[q].over)

\* PIM's floor makes every activation last: the next one of its role begins later.
LEMMA LastsStep ==
  ASSUME ~Elsewhere, MinActive > 0
  PROVE  TypeInv /\ TypeInv' /\ ArmInv /\ LastsInv /\ DistinctStarts /\ [Next]_vars => LastsInv' /\ DistinctStarts'
<1> SUFFICES ASSUME TypeInv, TypeInv', ArmInv, LastsInv, DistinctStarts, [Next]_vars
             PROVE  LastsInv' /\ DistinctStarts'
  OBVIOUS
<1>0. /\ ArmShape /\ now \in Nat /\ MinActive \in Nat /\ window \in Seq(Window) /\ Len(window) \in Nat
      /\ \A q \in Windows : window[q] \in Window
  BY ShapeOf, RecordAssumption, ElementOfSeq, LenProperties DEF TypeInv, TypeOK, Windows
<1>1. ASSUME NEW r \in Roles, NEW d \in Durations, Grant(r, d) PROVE LastsInv' /\ DistinctStarts'
  <2> DEFINE n == Len(window) + 1
             w == [role |-> r, start |-> now, end |-> now + d, over |-> NoTime]
  <2>1. d \in Nat \ {0} /\ w \in Window
    BY <1>0, RecordAssumption DEF Window, NoTime
  <2>2. window' = Append(window, w) /\ ~Active(r)
    BY <1>1 DEF Grant
  <2>3. Len(window') = n /\ window'[n] = w /\ \A q \in Windows : window'[q] = window[q]
    BY <1>0, <2>1, <2>2, AppendProperties DEF Windows
  <2>4. w.role = r /\ w.start = now /\ w.end = now + d /\ w.over = NoTime
    OBVIOUS
  <2>5. 1..n = Windows \union {n} /\ n \notin Windows
    BY <1>0 DEF Windows
  <2> HIDE DEF n, w
  <2>6. \A q \in Of(r) : window[q].start < now
    <3>1. ASSUME NEW q \in Of(r) PROVE window[q].start < now
      <4>1. Over(q) /\ window[q].over <= now /\ q \in Windows
        BY <1>0, <2>2, InactiveIsOver DEF Of
      <4> QED BY <1>0, <4>1 DEF LastsInv, ArmShape
    <3> QED BY <3>1
  <2>7. LastsInv'
    <3>1. ASSUME NEW q \in 1..n
          PROVE  window'[q].start < window'[q].end /\ (window'[q].over # NoTime => window'[q].start < window'[q].over)
      <4>1. CASE q \in Windows
        BY <2>3, <4>1 DEF LastsInv, Over
      <4>2. CASE q = n
        BY <1>0, <2>1, <2>3, <2>4, <4>2
      <4> QED BY <2>5, <4>1, <4>2
    <3> QED BY <2>3, <3>1 DEF LastsInv, Windows, Over
  <2>8. DistinctStarts'
    <3>1. ASSUME NEW q \in 1..n, NEW v \in 1..n, window'[q].role = window'[v].role,
                 window'[q].start = window'[v].start
          PROVE  q = v
      <4>1. \A x \in Windows : window'[x].role = r => window'[x].start < now
        BY <2>3, <2>6 DEF Of
      <4>2. \A x \in Windows : window'[x].start \in Nat
        BY <1>0, <2>3 DEF ArmShape
      <4>3. CASE q \in Windows /\ v \in Windows
        BY <2>3, <3>1, <4>3 DEF DistinctStarts
      <4> QED BY <1>0, <2>3, <2>4, <2>5, <3>1, <4>1, <4>2, <4>3
    <3> QED BY <2>3, <3>1 DEF DistinctStarts, Windows
  <2> QED BY <2>7, <2>8
<1>2. ASSUME NEW r \in Roles, Revoke(r), window[Current(r)].start < now PROVE LastsInv' /\ DistinctStarts'
  <2>1. Current(r) \in Windows /\ window' = [window EXCEPT ![Current(r)].over = now]
    BY <1>2, RowType DEF Revoke, Active, NoWindow, Windows
  <2>2. /\ Len(window') = Len(window)
        /\ \A q \in Windows : /\ window'[q].role = window[q].role /\ window'[q].start = window[q].start
                              /\ window'[q].end = window[q].end
                              /\ window'[q].over = IF q = Current(r) THEN now ELSE window[q].over
    <3>1. /\ Len(window') = Len(window)
          /\ \A q \in Windows : window'[q] = IF q = Current(r) THEN [window[q] EXCEPT !.over = now] ELSE window[q]
      BY <1>0, <2>1 DEF Windows
    <3>2. \A q \in Windows : window[q] \in [role : Roles, start : Nat, end : Nat, over : Nat]
      BY <1>0 DEF Window
    <3> QED BY <3>1, <3>2
  <2> QED BY <1>2, <2>1, <2>2 DEF LastsInv, DistinctStarts, Windows, Over
<1>3. ASSUME window' = window PROVE LastsInv' /\ DistinctStarts'
  BY <1>3 DEF LastsInv, DistinctStarts, Windows, Over
<1>4. ASSUME NEW r \in Roles, Expire(r) PROVE Revoke(r) /\ window[Current(r)].start < now
  <2>1. Current(r) \in Windows /\ window[Current(r)].end <= now /\ Revoke(r)
    BY <1>4, RowType DEF Expire, Active, NoWindow, Windows
  <2> QED BY <1>0, <2>1 DEF LastsInv, Window, Windows
<1>5. ASSUME NEW p \in Procs, NEW r \in Roles, DownRevoked(p, r) PROVE Revoke(r) /\ window[Current(r)].start < now
  <2>1. Current(r) \in Windows /\ now >= window[Current(r)].start + MinActive /\ Revoke(r)
    BY <1>5, RowType DEF DownRevoked, Active, NoWindow, Windows
  <2> QED BY <1>0, <2>1 DEF Window
<1>6. CASE \E r \in Roles : ARM(r)
  BY <1>2, <1>3, <1>4, <1>6 DEF ARM, ElsewhereUp, ElsewhereDown, CatchUp
<1>7. CASE \E p \in Procs, r \in Roles : Up(p, r) \/ Down(p, r)
  BY <1>1, <1>2, <1>3, <1>5, <1>7 DEF Up, Down, UpGranted, UpExists, DownNotActive, arm
<1>8. CASE Tick \/ StepClockBack \/ UNCHANGED vars
  BY <1>3, <1>8 DEF Tick, StepClockBack, vars, arm
<1>9. CASE \E p \in Procs : RecordResult(p) \/ LockAndRead(p) \/ WriteResult(p) \/ Status(p) \/ Die(p)
  BY <1>3, <1>9 DEF RecordResult, LockAndRead, WriteResult, Status, Die, ReadLocalRecord, ListActivations,
     VerifyConfirming, AskAll, WriteReconciled, Forget, arm
<1> QED BY <1>6, <1>7, <1>8, <1>9 DEF Next

\* Where roles change hands only through pimctl and PIM's floor is not zero, they do.
LEMMA StartsDiffer == ASSUME ~Elsewhere, MinActive > 0 PROVE Spec => []DistinctStarts
<1>1. Init => LastsInv /\ DistinctStarts
  <2> SUFFICES ASSUME Init PROVE LastsInv /\ DistinctStarts
    OBVIOUS
  <2>1. Windows = {}
    BY DEF Init, Windows
  <2> QED BY <2>1 DEF LastsInv, DistinctStarts
<1>2. TypeInv /\ TypeInv' /\ TimesInv /\ LastsInv /\ DistinctStarts /\ [Next]_vars => (LastsInv /\ DistinctStarts)'
  BY LastsStep DEF TimesInv
<1> QED BY <1>1, <1>2, TypeInvariant, TimesInvariant, PTL DEF Spec

\* So of roles that only pimctl changes none is reported lost without one of the reasons.
THEOREM NothingLostHere == ASSUME ~Elsewhere, MinActive > 0 PROVE Spec => []NoLossButMislisted
<1>1. Spec => []DistinctStarts
  BY StartsDiffer
<1> QED BY <1>1, NothingLostUnawares, PTL

=============================================================================
