-------------------------- MODULE ActivationRecord --------------------------
(***************************************************************************)
(* Several pimctl processes, one activation record, and an ARM whose       *)
(* listing runs behind its own writes.                                     *)
(*                                                                         *)
(* Each process runs one command at a time.  `up` and `down` send a request *)
(* for one role and then record its outcome; `status` reads the record,    *)
(* lists ARM, asks ARM about the activations the listing omits, rewrites   *)
(* the record and prints.  Processes share nothing but the record file and *)
(* the advisory lock beside it.  ARM is external: it is modelled by the    *)
(* answers the code distinguishes.                                         *)
(***************************************************************************)
EXTENDS ActivationEntries, Sequences

CONSTANTS
  Procs,        \* pimctl processes
  Commands,     \* Commands[p]: what p may run, of "up", "down" and "status"
  None,         \* no process, no role
  Scopes,       \* scopes, each listed by a call of its own
  ScopeOf,      \* the scope of each role
  Durations,    \* lengths of the windows ARM grants
  MinActive,    \* PIM's floor: how long a role is active before it can be given up
  MaxLag,       \* bound: how far ARM's listing runs behind
  MaxRun,       \* bound: how long one command runs
  Ahead,        \* how far the local clock runs ahead of ARM's to begin with
  SlipSizes,    \* how far the local clock may be stepped back, once
  MaxRequests,  \* bound: activations granted in a behaviour
  MaxCommands,  \* bound: `up` and `down` commands run in a behaviour
  LastChange,   \* bound: nobody activates or gives up a role later
  MaxTime,      \* bound: the clock stops here
  Elsewhere,    \* whether roles are also activated and ended somewhere else
  Told,         \* whether ARM's responses carry the window they granted
  Flock         \* whether the filesystem honours flock(2)

ASSUME RecordAssumption ==
  /\ None \notin Procs \union Roles
  /\ ScopeOf \in [Roles -> Scopes]
  /\ Durations \subseteq Nat \ {0}
  /\ MinActive \in Nat /\ MaxLag \in Nat /\ MaxRun \in Nat
  /\ Ahead \in Nat /\ SlipSizes \subseteq Nat
  /\ Commands \in [Procs -> SUBSET {"up", "down", "status"}]
  /\ MaxRequests \in Nat /\ MaxCommands \in Nat
  /\ LastChange \in Nat /\ MaxTime \in Nat
  /\ Elsewhere \in BOOLEAN /\ Told \subseteq BOOLEAN /\ Flock \in BOOLEAN

VARIABLES
  now,       \* ARM's clock
  commands,  \* `up` and `down` commands run so far
  slip,      \* how far this machine's clock has been stepped back
  window,    \* window[q]: the activation the q-th granted request opened
  view,      \* view[r]: what the listing shows of r, then what it has yet to show
  file,      \* the record on disk
  holder,    \* who holds the record's lock
  pc,        \* where each process is in its command
  target,    \* the role an `up` or `down` is about
  givenUp,   \* history: activations whose deactivation is the last thing recorded
             \* here of their role
  started,   \* when the command started
  answer,    \* how ARM answered the request of an `up` or `down`
  fresh,     \* the entry an `up` or `down` is about to record
  copy,      \* the record as read under the lock
  seen,      \* status: the record as first read
  confirming,\* status: the rows of seen rendered as RowConfirming
  unread,    \* status: roles at scopes that did not answer
  listing,   \* status: the rows ARM listed
  verdict    \* status: what ARM said of each request asked about

arm     == <<window, view>>
clock   == <<now, slip, commands>>
mine    == <<target, answer, fresh>>
reading == <<seen, confirming, unread, listing, verdict>>
vars    == <<clock, arm, file, givenUp, holder, pc, started, mine, copy, reading>>

NoWindow == 0
Window   == [role : Roles, start : Nat, end : Nat, over : Nat]
Shown    == [window : Nat, at : Nat]

\* How ARM answered, as far as the record is concerned.
Outcomes == {"NONE", "ACTIVATED", "ALREADY ACTIVE", "DEACTIVATED", "NOT ACTIVE"}
\* ended is history: the activation a deactivation ended.
Answer   == [outcome : Outcomes, request : Nat, since : Nat, until : Nat,
             ended : Nat]
NoAnswer == [outcome |-> "NONE", request |-> NoRequest,
             since |-> NoTime, until |-> NoTime, ended |-> NoWindow]

Verdict   == [request : Nat, gone : BOOLEAN]
NoVerdict == [request |-> NoRequest, gone |-> FALSE]

Points == {"idle", "submitted", "landed", "writing",
           "listing", "listed", "asked", "verified", "reconciling"}

TypeOK ==
  /\ now \in Nat /\ slip \in Nat /\ commands \in Nat
  /\ window \in Seq(Window)
  /\ view \in [Roles -> Seq(Shown) \ {<<>>}]
  /\ file \in Record
  /\ givenUp \subseteq Nat
  /\ holder \in Procs \union {None}
  /\ pc \in [Procs -> Points]
  /\ target \in [Procs -> Roles \union {None}]
  /\ started \in [Procs -> Nat]
  /\ answer \in [Procs -> Answer]
  /\ fresh \in [Procs -> Entry]
  /\ copy \in [Procs -> Record]
  /\ seen \in [Procs -> Record]
  /\ confirming \in [Procs -> SUBSET Roles]
  /\ unread \in [Procs -> SUBSET Roles]
  /\ listing \in [Procs -> Listing]
  /\ verdict \in [Procs -> [Roles -> Verdict]]

\* This machine's clock.
local == now + Ahead - slip

Init ==
  /\ now = 1 /\ slip = 0 /\ commands = 0
  /\ window = <<>>
  /\ view = [r \in Roles |-> <<[window |-> NoWindow, at |-> 0]>>]
  /\ file = EmptyRecord
  /\ givenUp = {}
  /\ holder = None
  /\ pc = [p \in Procs |-> "idle"]
  /\ started = [p \in Procs |-> 0]
  /\ target = [p \in Procs |-> None]
  /\ answer = [p \in Procs |-> NoAnswer]
  /\ fresh = [p \in Procs |-> NoEntry]
  /\ copy = [p \in Procs |-> EmptyRecord]
  /\ seen = [p \in Procs |-> EmptyRecord]
  /\ confirming = [p \in Procs |-> {}]
  /\ unread = [p \in Procs |-> {}]
  /\ listing = [p \in Procs |-> [r \in Roles |-> NotListed]]
  /\ verdict = [p \in Procs |-> [r \in Roles |-> NoVerdict]]

-----------------------------------------------------------------------------
(* ARM.  A role's activation changes at once; what the listing shows of it *)
(* follows in order, at most MaxLag later.                                 *)

Current(r) == view[r][Len(view[r])].window
Listed(r)  == Head(view[r]).window
Lagging(r) == Len(view[r]) > 1

Over(q)   == window[q].over # NoTime
Active(r) == Current(r) # NoWindow

Row(r) ==
  IF Listed(r) = NoWindow THEN NotListed
  ELSE [listed |-> TRUE, start |-> window[Listed(r)].start,
        end |-> window[Listed(r)].end]

Change(r, q) == view' = [view EXCEPT ![r] = Append(@, [window |-> q, at |-> now])]

Grant(r, d) ==
  /\ ~Active(r)
  /\ Len(window) < MaxRequests
  /\ window' = Append(window, [role |-> r, start |-> now, end |-> now + d,
                               over |-> NoTime])
  /\ Change(r, Len(window) + 1)

Revoke(r) ==
  /\ Active(r)
  /\ window' = [window EXCEPT ![Current(r)].over = now]
  /\ Change(r, NoWindow)

\* The role's window closes of itself.
Expire(r) ==
  /\ Active(r) /\ window[Current(r)].end <= now
  /\ Revoke(r)
  /\ UNCHANGED <<clock, file, givenUp, holder, pc, started, mine, copy, reading>>

\* Somebody activates the role, or ends its activation, somewhere else.
ElsewhereUp(r) ==
  /\ Elsewhere /\ now <= LastChange
  /\ \E d \in Durations : Grant(r, d)
  /\ UNCHANGED <<clock, file, givenUp, holder, pc, started, mine, copy, reading>>

ElsewhereDown(r) ==
  /\ Elsewhere /\ now <= LastChange
  /\ Revoke(r)
  /\ UNCHANGED <<clock, file, givenUp, holder, pc, started, mine, copy, reading>>

CatchUp(r) ==
  /\ Lagging(r)
  /\ view' = [view EXCEPT ![r] = Tail(@)]
  /\ UNCHANGED <<clock, window, file, givenUp, holder, pc, started, mine, copy, reading>>

Tick ==
  /\ now < MaxTime
  /\ \A r \in Roles : Active(r) => window[Current(r)].end > now
  /\ \A r \in Roles : Lagging(r) => now < view[r][2].at + MaxLag
  /\ \A p \in Procs : pc[p] # "idle" => now < started[p] + MaxRun
  /\ now' = now + 1
  /\ UNCHANGED <<slip, commands, arm, file, givenUp, holder, pc, started, mine, copy, reading>>

\* This machine's clock is stepped back, once.
StepClockBack ==
  /\ slip = 0
  /\ slip' \in SlipSizes \ {0}
  /\ UNCHANGED <<now, commands, arm, file, givenUp, holder, pc, started, mine, copy, reading>>

-----------------------------------------------------------------------------
(* `up` and `down`: send the request, then record how it was answered.     *)

Submit(p, r, a) ==
  /\ pc[p] = "idle"
  /\ now <= LastChange
  /\ commands < MaxCommands /\ commands' = commands + 1
  /\ pc' = [pc EXCEPT ![p] = "submitted"]
  /\ started' = [started EXCEPT ![p] = now]
  /\ target' = [target EXCEPT ![p] = r]
  /\ answer' = [answer EXCEPT ![p] = a]
  /\ UNCHANGED <<now, slip, file, givenUp, holder, fresh, copy, reading>>

\* SelfActivate is granted; the response may or may not carry the window.
UpGranted(p, r) ==
  \E d \in Durations, told \in Told :
    /\ Grant(r, d)
    /\ Submit(p, r, [NoAnswer EXCEPT
                       !.outcome = "ACTIVATED",
                       !.request = Len(window) + 1,
                       !.since   = IF told THEN now ELSE NoTime,
                       !.until   = IF told THEN now + d ELSE NoTime])

\* RoleAssignmentExists: the role is active, or has just stopped being so.  The
\* window's end is known only if the plan had matched a listed activation.
UpExists(p, r) ==
  /\ Active(r) \/ Lagging(r)
  /\ \E until \in {NoTime, Row(r).end} :
       Submit(p, r, [NoAnswer EXCEPT !.outcome = "ALREADY ACTIVE",
                                     !.until = until])
  /\ UNCHANGED arm

DownRevoked(p, r) ==
  /\ Active(r) /\ now >= window[Current(r)].start + MinActive
  /\ Revoke(r)
  /\ Submit(p, r, [NoAnswer EXCEPT !.outcome = "DEACTIVATED",
                                !.ended = Current(r)])

\* RoleAssignmentDoesNotExist: the role is not active, or has been for no longer than
\* a grant takes to be seen, and no listing that came in time showed it to this command.
DownNotActive(p, r) ==
  /\ Active(r) => now <= window[Current(r)].start + MaxLag
  /\ Submit(p, r, [NoAnswer EXCEPT !.outcome = "NOT ACTIVE"])
  /\ UNCHANGED arm

\* recordActivations and forgetActivations build the entry before they lock.
ActivationEntry(a, t) ==
  [status    |-> a.outcome,
   request   |-> a.request,
   start     |-> IF a.since = NoTime THEN t ELSE a.since,
   source    |-> IF a.since = NoTime THEN "local" ELSE "arm",
   end       |-> a.until,
   listed    |-> FALSE,
   writtenAt |-> t]

\* MUTATION: a tombstone carries the outcome that led to it.
TombstoneByOutcome(t) == [NoEntry EXCEPT !.status = "DEACTIVATED", !.writtenAt = t]

Tombstone(t) ==
  [status |-> "REVOKED", request |-> NoRequest, start |-> NoTime, source |-> "none",
   end |-> NoTime, listed |-> FALSE, writtenAt |-> t]

RecordResult(p) ==
  /\ pc[p] = "submitted"
  /\ pc' = [pc EXCEPT ![p] = "landed"]
  /\ fresh' = [fresh EXCEPT ![p] =
       IF answer[p].outcome \in {"ACTIVATED", "ALREADY ACTIVE"}
         THEN ActivationEntry(answer[p], local)
         ELSE Tombstone(local)]
  /\ UNCHANGED <<clock, arm, file, givenUp, holder, started, target, answer, copy, reading>>

-----------------------------------------------------------------------------
(* updateRecord: lock, read, merge, write, unlock.  The copy is the file's *)
(* content; entries that have gone stale are dropped from it when the      *)
(* merge is computed.                                                      *)

\* MUTATION: a lock somebody else holds is taken for granted.
ReadUnlocked(p) ==
  /\ \/ pc[p] = "landed"   /\ pc' = [pc EXCEPT ![p] = "writing"]
     \/ pc[p] = "verified" /\ pc' = [pc EXCEPT ![p] = "reconciling"]
  /\ holder' = p
  /\ copy' = [copy EXCEPT ![p] = file]
  /\ UNCHANGED <<clock, arm, file, givenUp, started, mine, reading>>

LockAndRead(p) ==
  /\ \/ pc[p] = "landed"   /\ pc' = [pc EXCEPT ![p] = "writing"]
     \/ pc[p] = "verified" /\ pc' = [pc EXCEPT ![p] = "reconciling"]
  /\ IF Flock THEN holder = None /\ holder' = p ELSE UNCHANGED holder
  /\ copy' = [copy EXCEPT ![p] = file]
  /\ UNCHANGED <<clock, arm, file, givenUp, started, mine, reading>>

\* The command ends, or its process is killed: the lock is released with its
\* descriptor, and all that is left is the file.
Forget(p) ==
  /\ pc' = [pc EXCEPT ![p] = "idle"]
  /\ started' = [started EXCEPT ![p] = 0]
  /\ target' = [target EXCEPT ![p] = None]
  /\ answer' = [answer EXCEPT ![p] = NoAnswer]
  /\ fresh' = [fresh EXCEPT ![p] = NoEntry]
  /\ copy' = [copy EXCEPT ![p] = EmptyRecord]
  /\ seen' = [seen EXCEPT ![p] = EmptyRecord]
  /\ confirming' = [confirming EXCEPT ![p] = {}]
  /\ unread' = [unread EXCEPT ![p] = {}]
  /\ listing' = [listing EXCEPT ![p] = [r \in Roles |-> NotListed]]
  /\ verdict' = [verdict EXCEPT ![p] = [r \in Roles |-> NoVerdict]]
  /\ holder' = IF holder = p THEN None ELSE holder
  /\ UNCHANGED <<clock, arm>>

WriteResult(p) ==
  /\ pc[p] = "writing"
  /\ file' = Live(MergeEntries(Live(copy[p], local),
                               [EmptyRecord EXCEPT ![target[p]] = fresh[p]]),
                  local)
  /\ givenUp' = IF Revoked(fresh[p])
                  THEN givenUp \union ({answer[p].ended} \ {NoWindow})
                  ELSE {q \in givenUp : window[q].role # target[p]}
  /\ Forget(p)

-----------------------------------------------------------------------------
(* `status`                                                                *)

ReadLocalRecord(p) ==
  /\ pc[p] = "idle" /\ "status" \in Commands[p]
  /\ pc' = [pc EXCEPT ![p] = "listing"]
  /\ started' = [started EXCEPT ![p] = now]
  /\ seen' = [seen EXCEPT ![p] = Live(file, local)]
  /\ confirming' = [confirming EXCEPT ![p] =
       {r \in Roles : Confirming(Live(file, local)[r], local)}]
  /\ UNCHANGED <<clock, arm, file, givenUp, holder, mine, copy, unread, listing, verdict>>

\* The fan-out: each scope answers with what the listing shows, or is unread.
ListActivations(p) ==
  /\ pc[p] = "listing"
  /\ pc' = [pc EXCEPT ![p] = "listed"]
  /\ \E silent \in SUBSET Scopes :
       /\ unread' = [unread EXCEPT ![p] = {r \in Roles : ScopeOf[r] \in silent}]
       /\ listing' = [listing EXCEPT ![p] =
            [r \in Roles |-> IF ScopeOf[r] \in silent THEN NotListed ELSE Row(r)]]
  /\ UNCHANGED <<clock, arm, file, givenUp, holder, started, mine, copy, seen, confirming,
                 verdict>>

\* verifyConfirming reads the record again to decide which requests to ask about.
Questions(rec, t, rows, silent) ==
  {r \in Roles : /\ Confirming(rec[r], t)
                 /\ ~rows[r].listed /\ r \notin silent
                 /\ rec[r].request # NoRequest}

VerifyConfirming(p) ==
  /\ pc[p] = "listed"
  /\ pc' = [pc EXCEPT ![p] = "asked"]
  /\ LET ask == Questions(Live(file, local), local, listing[p], unread[p])
     IN  verdict' = [verdict EXCEPT ![p] =
           [r \in Roles |-> IF r \in ask
                              THEN [NoVerdict EXCEPT !.request = file[r].request]
                              ELSE NoVerdict]]
  /\ UNCHANGED <<clock, arm, file, givenUp, holder, started, mine, copy, seen, confirming,
                 unread, listing>>

\* A request reads as gone only once its activation is over; a read that fails,
\* or a request that still reads Provisioned, leaves the entry standing.
AskAll(p) ==
  /\ pc[p] = "asked"
  /\ pc' = [pc EXCEPT ![p] = "verified"]
  /\ \E gone \in SUBSET {r \in Roles : /\ verdict[p][r].request # NoRequest
                                       /\ Over(verdict[p][r].request)} :
       verdict' = [verdict EXCEPT ![p] =
         [r \in Roles |-> [@[r] EXCEPT !.gone = r \in gone]]]
  /\ UNCHANGED <<clock, arm, file, givenUp, holder, started, mine, copy, seen, confirming,
                 unread, listing>>

Gone(p) == {r \in Roles : verdict[p][r].gone}

WriteReconciled(p) ==
  /\ pc[p] = "reconciling"
  /\ file' = Live(ReconcileRecord(Live(copy[p], local), listing[p], unread[p],
                                  Gone(p), local),
                  local)
  /\ Forget(p)
  /\ UNCHANGED givenUp

\* Killed, or interrupted, or answered with something that is not recorded.
Die(p) ==
  /\ pc[p] # "idle"
  /\ Forget(p)
  /\ UNCHANGED <<file, givenUp>>

-----------------------------------------------------------------------------
(* What a status prints, once it has reconciled.                           *)

\* mergeActive
ShowsListed(p, r) == listing[p][r].listed /\ ~DeniesListed(seen[p][r], listing[p][r], local)
ShowsRecorded(p, r) ==
  /\ Held(seen[p][r]) /\ ~listing[p][r].listed
  /\ Stands(r \in confirming[p], r \in unread[p], r \in Gone(p))

\* statusDelta: the roles reported as no longer held.
ReportsLost(p, r) ==
  /\ Held(seen[p][r]) /\ ~listing[p][r].listed
  /\ ~Stands(r \in confirming[p], r \in unread[p], r \in Gone(p))

-----------------------------------------------------------------------------
Up(p, r)   == "up" \in Commands[p] /\ (UpGranted(p, r) \/ UpExists(p, r))
Down(p, r) == "down" \in Commands[p] /\ (DownRevoked(p, r) \/ DownNotActive(p, r))

Status(p) ==
  \/ ReadLocalRecord(p)
  \/ ListActivations(p)
  \/ VerifyConfirming(p)
  \/ AskAll(p)
  \/ WriteReconciled(p)

ARM(r) == Expire(r) \/ ElsewhereUp(r) \/ ElsewhereDown(r) \/ CatchUp(r)

Next ==
  \/ Tick
  \/ StepClockBack
  \/ \E r \in Roles : ARM(r)
  \/ \E p \in Procs, r \in Roles : Up(p, r) \/ Down(p, r)
  \/ \E p \in Procs : \/ RecordResult(p)
                      \/ LockAndRead(p)
                      \/ WriteResult(p)
                      \/ Status(p)
                      \/ Die(p)

Spec == Init /\ [][Next]_vars

-----------------------------------------------------------------------------
(* Properties of the record.                                               *)

\* Between the read and the write of one update nobody else writes: what an
\* update merges into is what is on disk (updateRecord, lockRecord).
UpdatesAreAtomic ==
  \A p \in Procs :
    pc[p] \in {"writing", "reconciling"} => holder = p /\ copy[p] = file

\* While ARM's listing still shows an activation this machine has given up, and
\* its window has yet to close, the record denies it, unless the role has been
\* recorded as active since
\* (forgetActivations, keepAgainstListing, listedEntries).
GivenUpStaysDenied ==
  \A r \in Roles :
    Listed(r) \in givenUp /\ window[Listed(r)].end > now =>
      Denies(file[r], window[Listed(r)].start, local)

\* An activation in force by ARM's clock and by this machine's, that the listing has yet
\* to show, recorded with its request, inside the ceiling and not in the future.
Provisioned(r) ==
  /\ Confirming(file[r], local) /\ ~WrittenInFuture(file[r], local)
  /\ file[r].request # NoRequest
  /\ ~Over(file[r].request) /\ window[file[r].request].end > now
  /\ window[file[r].request].end > local

\* r's entry still stands for the same activation.
SameActivation(r) == Held(file'[r]) /\ file'[r].request = file[r].request

\* What ARM said of r's request it said of another than e's: a verdict is filed under
\* the role (askAll).
OldVerdict(p, r, e) == verdict[p][r].gone /\ verdict[p][r].request # e.request

\* The row listed for r is another activation's than e's.
OtherRow(p, r, e) ==
  LET row == listing[p][r]
  IN  row.listed /\ (row.start # window[e.request].start \/ row.end # window[e.request].end)

\* The end of e's window was taken from another activation's: an `up` that finds the
\* role active records the end of the row its plan had matched.
EndOfAnother(e) == e.end # NoTime /\ e.end # window[e.request].end

\* The record of such an activation leaves the file only when a command about
\* the same role says so: no concurrent update drops it, save by an answer about
\* another activation of that role, or by an end taken from one (mergeEntries,
\* keepAgainstListing, updateRecord).
KeptButForOldAnswer ==
  [][\A r \in Roles :
       Provisioned(r) /\ ~SameActivation(r) =>
         \/ EndOfAnother(file[r])
         \/ \E p \in Procs : \/ pc[p] = "writing" /\ target[p] = r
                             \/ /\ pc[p] = "reconciling"
                                /\ OldVerdict(p, r, file[r]) \/ OtherRow(p, r, file[r])]_vars

-----------------------------------------------------------------------------
(* Properties of what a status prints.                                     *)

\* The activation an entry is about: the request it carries or, without one,
\* the window ARM listed.
IsAbout(e, r, q) ==
  /\ window[q].role = r
  /\ \/ e.request = q
     \/ e.request = NoRequest /\ e.source = "arm" /\ e.start = window[q].start

\* Listed was set by a row showing another activation of the role.
ListedForAnother(e) ==
  e.listed /\ e.request # NoRequest /\ e.start # window[e.request].start

\* No role is reported as no longer held while the activation the record had
\* for it is in force, unless the record had outranked the listing for as long
\* as the ceiling allows, or the entry was marked Listed by the row of an
\* activation that had ended (listedEntries copies the request of the entry it
\* replaces), or ARM was asked about another request, read from a record written
\* since (statusDelta, stands, verifyConfirming).
NoLossButMislisted ==
  \A p \in Procs, r \in Roles :
    pc[p] = "reconciling" /\ ReportsLost(p, r) =>
      \/ ~seen[p][r].listed /\ r \notin confirming[p]
      \/ ListedForAnother(seen[p][r])
      \/ OldVerdict(p, r, seen[p][r])
      \/ \A q \in 1..Len(window) : IsAbout(seen[p][r], r, q) => Over(q)

\* The listing showed an activation that is in force, and status leaves it out.
Hides(p, r) ==
  /\ pc[p] = "reconciling"
  /\ listing[p][r].listed /\ ~ShowsListed(p, r)
  /\ \E q \in 1..Len(window) : /\ window[q].role = r /\ ~Over(q)
                               /\ window[q].start = listing[p][r].start

\* Access in force is not hidden for longer than the record may outrank the listing
\* (recordCeiling, recordClockTolerance): the ceiling, from a tombstone written by a
\* command that was running when the access began, or that ARM told there was none
\* before the grant could be seen (deactivateOne, forgetActivations).
HiddenBriefly ==
  \A p \in Procs, r \in Roles :
    Hides(p, r) =>
      now <= listing[p][r].start + MaxLag + MaxRun + Ceiling + Tolerance + MaxRun

\* When the role was last active.
LastActive(r) ==
  LET ends == {window[q].over : q \in {w \in 1..Len(window) : window[w].role = r}}
  IN  IF Active(r) \/ ends = {} THEN now
      ELSE CHOOSE t \in ends : \A u \in ends : u <= t

\* A scope that answered is not claimed to hold a role for longer than the
\* ceiling after the role was given up or lost, plus what ARM's listing and one
\* command may lag (stands, Confirming, recordCeiling).
ClaimsAreBounded ==
  \A p \in Procs, r \in Roles :
    pc[p] = "reconciling" /\ r \notin unread[p] /\ ShowsRecorded(p, r)
    => now <= LastActive(r) + MaxLag + MaxRun + Ceiling + Tolerance + MaxRun

-----------------------------------------------------------------------------
(* The record implements atomic updates.                                   *)

intent == [p \in Procs |->
  CASE pc[p] \in {"landed", "writing"} ->
         [kind |-> "result", role |-> target[p], entry |-> fresh[p]]
    [] pc[p] \in {"verified", "reconciling"} ->
         [kind |-> "listing", rows |-> listing[p], unread |-> unread[p],
          gone |-> Gone(p)]
    [] OTHER -> [kind |-> "none"]]

Atomic == INSTANCE RecordUpdates WITH clock <- local, record <- file

\* Processes sharing the file lose none of each other's updates (updateRecord).
ImplementsAtomicUpdates == Atomic!Spec

-----------------------------------------------------------------------------
(* Liveness.  ARM's listing catches up, the clock goes on, and somebody     *)
(* keeps asking for the status; `up` and `down` stop by themselves         *)
(* (LastChange), and a process that has taken the lock goes on to write.  *)

Fairness ==
  /\ WF_vars(Tick)
  /\ \A r \in Roles : WF_vars(CatchUp(r)) /\ WF_vars(Expire(r))
  /\ \A p \in Procs : /\ WF_vars(Status(p)) /\ WF_vars(LockAndRead(p))
                      /\ WF_vars(RecordResult(p)) /\ WF_vars(WriteResult(p))

FairSpec == Spec /\ Fairness

\* A process dies short of what it was about to do, or a scope does not answer.
Fault == \E p \in Procs : \/ Die(p) /\ ~WriteResult(p) /\ ~WriteReconciled(p)
                          \/ unread'[p] # {}

Agrees == \A r \in Roles : Held(file[r]) <=> Active(r)

\* Once nothing fails any more, the record comes to say what ARM says, however
\* the commands before it interleaved, and stays there.
Converges == <>[][~Fault]_vars => <>[]Agrees

=============================================================================
