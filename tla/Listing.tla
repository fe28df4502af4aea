------------------------------ MODULE Listing ------------------------------
(***************************************************************************)
(* What Azure says is activated right now: open the sessions, read the     *)
(* eligibilities, fan out over the scopes they and the record suggest, and *)
(* say what could not be read (internal/cli/session.go, eligible.go,       *)
(* active.go, run.go, list.go, status.go, and the paging of                *)
(* internal/armclient/client.go).                                          *)
(*                                                                         *)
(* A call is one listing read from ARM: the eligibilities of a context, or *)
(* the activations at a scope or tenant-wide.  One role is eligible or     *)
(* active per scope, named by its scope.  The windows and the times of the *)
(* record's entries are ActivationEntries.tla's; the retries and the token *)
(* refresh under a call are Submission.tla's.  A definition marked         *)
(* MUTATION is the one below it with a mistake in it.                      *)
(***************************************************************************)
EXTENDS Integers, FiniteSets

CONSTANTS
  Contexts,       \* the contexts the run resolved to, numbered as they were named
  Scopes,         \* every ARM scope, each in one context
  ContextOf,      \* the context a scope is in
  Under,          \* the scopes whose activations a read at a scope lists
  Whole,          \* the empty scope id: a context's tenant-wide listing
  Eligibilities,  \* stands for a scope id in the call that lists eligibilities
  NoCache,        \* no eligibilities are cached for a context
  Eligible,       \* what the user may be eligible for, for each context
  Kinds,          \* what the record may hold of a role
  Commands,       \* the commands to run
  MaxScopeFanOut, \* maxScopeFanOut
  MaxPages,       \* maxPages
  MaxOthers       \* bound: how often others change the record during the run

ASSUME ListingAssumption ==
  /\ Contexts \subseteq Nat
  /\ ContextOf \in [Scopes -> Contexts]
  /\ Under \in [Scopes -> SUBSET Scopes]
  /\ \A s \in Scopes : s \in Under[s] /\ \A t \in Under[s] : ContextOf[t] = ContextOf[s]
  /\ Whole \notin Scopes /\ Eligibilities \notin Scopes /\ Whole # Eligibilities
  /\ \A c \in Contexts : NoCache \notin Eligible[c]
  /\ \A c \in Contexts : \A e \in Eligible[c] : \A s \in e : ContextOf[s] = c
  /\ Kinds \subseteq {"none", "confirming", "listed", "revoked"}
  /\ Commands \subseteq {"list", "status", "up"}
  /\ MaxScopeFanOut \in Nat \ {0} /\ MaxPages \in Nat \ {0} /\ MaxOthers \in Nat

VARIABLES
  command,    \* "status", "list", or an `up` that notes what its listing missed
  allScopes,  \* --all-scopes
  eligible,   \* ARM: what the user is eligible for, in each context
  visible,    \* ARM: the activations its listing shows
  cache,      \* the fresh cached eligibilities of each context; none under --refresh
  record,     \* the activation record, each role's entry
  others,     \* how often others changed it during the run
  unnamed,    \* history: roles it did not name when the fan-out read it for their scopes
  sessions,   \* the contexts that have a session
  cancelled,  \* rc.Ctx is cancelled
  phase,      \* where the command is
  local,      \* readLocalRecord: the record as the command read it
  given,      \* the scopes the command passes to the listing; {} is nil
  listErrs,   \* contexts whose eligibilities the command could not list
  stage,      \* where the listing's goroutine is
  calls,      \* the calls to ARM
  targets,    \* the calls of the fan-out, or of the tenant-wide listing
  res,        \* what the listing returned: rows, errs and unconfirmed
  report      \* what the command said at its end

asked   == <<command, allScopes>>
arm     == <<eligible, visible>>
files   == <<cache, record, others, unnamed>>
listing == <<stage, calls, targets, res>>
vars    == <<asked, arm, files, sessions, cancelled, phase, local, given, listErrs, listing, report>>

ScopeIds == Scopes \union {Whole}
Targets  == (Contexts \X ScopeIds) \union (Contexts \X {Eligibilities})

\* activationScope
Unread(c, id, errored) == [context |-> c, id |-> id, errored |-> errored]
UnreadMarks == [context : Contexts, id : ScopeIds, errored : BOOLEAN]

CallStates == {"none", "queued", "reading", "read", "late", "throttled", "failed"}
NoCall     == [state |-> "none", pages |-> 0, got |-> {}]
NoResult   == [rows |-> {}, errs |-> {}, unconfirmed |-> {}]
NoReport   == [lost |-> {}, named |-> {}, late |-> {}, errs |-> {}, exit |-> "none"]

TypeOK ==
  /\ command \in Commands /\ allScopes \in BOOLEAN /\ cancelled \in BOOLEAN
  /\ \A c \in Contexts : eligible[c] \in Eligible[c]
  /\ visible \subseteq Scopes /\ unnamed \subseteq Scopes /\ others \in Nat
  /\ cache \in [Contexts -> {NoCache} \union SUBSET Scopes]
  /\ record \in [Scopes -> Kinds \union {"none", "listed"}]
  /\ local \in [Scopes -> Kinds \union {"none", "listed"}]
  /\ sessions \subseteq Contexts /\ listErrs \subseteq sessions
  /\ given \subseteq sessions \X ScopeIds
  /\ targets \subseteq sessions \X ScopeIds
  /\ phase \in {"opening", "eligibility", "local", "waiting", "reconciling", "reporting", "finishing", "done"}
  /\ stage \in {"idle", "starting", "eligibility", "fanOut", "tenantWide", "landed"}
  /\ calls \in [Targets -> [state : CallStates, pages : 0..MaxPages, got : SUBSET Scopes]]
  /\ res.rows \subseteq Scopes /\ res.errs \subseteq Targets /\ res.unconfirmed \subseteq UnreadMarks
  /\ report.lost \subseteq Scopes /\ report.named \subseteq UnreadMarks /\ report.late \subseteq UnreadMarks
  /\ report.exit \in {"none", "ok", "failed", "interrupted"}

Init ==
  /\ command \in Commands /\ allScopes \in BOOLEAN
  /\ eligible \in [Contexts -> SUBSET Scopes] /\ \A c \in Contexts : eligible[c] \in Eligible[c]
  /\ visible \in SUBSET Scopes
  /\ cache \in [Contexts -> {NoCache} \union SUBSET Scopes]
  /\ \A c \in Contexts : cache[c] \in {NoCache} \union Eligible[c]
  /\ record \in [Scopes -> Kinds] /\ others = 0 /\ unnamed = {}
  /\ sessions = {} /\ cancelled = FALSE
  /\ phase = "opening"
  /\ local = [s \in Scopes |-> "none"]
  /\ given = {} /\ listErrs = {}
  /\ stage = "idle"
  /\ calls = [t \in Targets |-> NoCall]
  /\ targets = {}
  /\ res = NoResult /\ report = NoReport

-----------------------------------------------------------------------------
(* Pure functions.                                                         *)

\* scopesFor
ScopesFor(c, elig) == IF elig = {} THEN {<<c, Whole>>} ELSE {c} \X elig

\* withRecordedScopes: every entry's scope, tombstones included.
withRecordedScopes(scopes) ==
  scopes \union {<<ContextOf[s], s>> : s \in {r \in Scopes : record[r] # "none" /\ ContextOf[r] \in sessions}}

scopeFanOutFor(n) == IF n >= MaxScopeFanOut THEN MaxScopeFanOut ELSE IF n = 0 THEN 1 ELSE n

\* MUTATION: only the scope's own mark; a failed tenant-wide read or a failed
\* eligibility listing marks the whole context.
ScopeIsMarked(unconfirmed, s) == \E u \in unconfirmed : u.id = s

\* scopeIsUnread
scopeIsUnread(unconfirmed, s) ==
  \E u \in unconfirmed : u.context = ContextOf[s] /\ u.id \in {s, Whole}

\* localRecord.stands, for an entry the listing omits
Stands(kind, unread, gone) == unread \/ (kind = "confirming" /\ ~gone)

\* keepAgainstListing
Keeps(kind, isListed, unread, gone) ==
  CASE kind = "revoked" -> isListed \/ unread
    [] kind = "none"    -> FALSE
    [] OTHER            -> ~isListed /\ Stands(kind, unread, gone)

\* reconcileRecord for every session; gone holds the roles whose own request says so.
Reconciled(previous, rows, unconfirmed, gone) ==
  [s \in Scopes |->
    IF ContextOf[s] \notin sessions THEN previous[s]
    ELSE IF Keeps(previous[s], s \in rows, scopeIsUnread(unconfirmed, s), s \in gone) THEN previous[s]
    ELSE IF s \in rows THEN "listed"
    ELSE "none"]

\* statusDelta: the roles the command says are no longer held.
Dropped(rows, unconfirmed, gone) ==
  {s \in Scopes : /\ local[s] \in {"listed", "confirming"} /\ s \notin rows
                  /\ ~Stands(local[s], scopeIsUnread(unconfirmed, s), s \in gone)}

-----------------------------------------------------------------------------
(* One call: listAll's pages, and how a call can end without them.         *)

Finished(t) == calls[t].state \in {"read", "late", "throttled", "failed"}
Move(t, how) == calls' = [calls EXCEPT ![t] = [NoCall EXCEPT !.state = how]]

\* What ARM has for a call.  Per scope it answers in full; tenant-wide it loses rows.
Answers(t) ==
  CASE t[2] = Eligibilities -> {eligible[t[1]]}
    [] t[2] = Whole         -> SUBSET {s \in visible : ContextOf[s] = t[1]}
    [] OTHER                -> {visible \intersect Under[t[2]]}

\* ListAssignmentsAtScope's deadline; the other calls have the HTTP client's only.
HasDeadline(t) == stage = "fanOut" /\ t \in targets

\* listActivationsAtScope: the semaphore, then the request.
StartCall(t) ==
  /\ stage = "fanOut" /\ calls[t].state = "queued"
  /\ Cardinality({u \in targets : calls[u].state = "reading"}) < scopeFanOutFor(Cardinality(targets))
  /\ Move(t, "reading")
  /\ UNCHANGED <<asked, arm, files, sessions, cancelled, phase, local, given, listErrs,
                 stage, targets, res, report>>

\* MUTATION: nextLinks are followed without end.
EndlessAfter(pages) == "reading"

\* MUTATION: when the pages run out, listAll returns what it has.
ShortAfter(pages) == "read"

\* listAll: a nextLink after maxPages pages is an error, never a short list.
MoreAfter(pages) == IF pages = MaxPages THEN "failed" ELSE "reading"

\* listAll: one page, of which the last has no nextLink.  A complete listing of
\* eligibilities goes to the cache at once.
ReadPage(t) ==
  /\ calls[t].state = "reading" /\ ~cancelled
  /\ \E answer \in Answers(t) : \E part \in SUBSET answer, more \in BOOLEAN :
       LET pages == calls[t].pages + 1
           got   == calls[t].got \union part
           how   == IF more THEN MoreAfter(pages) ELSE "read"
       IN /\ more \/ got = answer
          /\ calls' = [calls EXCEPT ![t] =
               [state |-> how, pages |-> IF how = "reading" THEN pages ELSE 0,
                got |-> IF how = "failed" THEN {} ELSE got]]
          /\ cache' = IF how = "read" /\ t[2] = Eligibilities THEN [cache EXCEPT ![t[1]] = got] ELSE cache
  /\ UNCHANGED <<asked, arm, record, others, unnamed, sessions, cancelled, phase, local, given, listErrs,
                 stage, targets, res, report>>

\* ARM refuses, after the client's retries; or the transport fails, or the run is cancelled.
\* Only a fan-out's call tells throttling from failure (isThrottled).
Refuse(t) ==
  /\ calls[t].state = "reading"
  /\ Move(t, "failed") \/ (HasDeadline(t) /\ Move(t, "throttled"))
  /\ UNCHANGED <<asked, arm, files, sessions, cancelled, phase, local, given, listErrs,
                 stage, targets, res, report>>

\* The call's own deadline passes, with the run still on.
MissDeadline(t) ==
  /\ calls[t].state = "reading" /\ HasDeadline(t) /\ ~cancelled
  /\ Move(t, "late")
  /\ UNCHANGED <<asked, arm, files, sessions, cancelled, phase, local, given, listErrs,
                 stage, targets, res, report>>

Call(t) == StartCall(t) \/ ReadPage(t) \/ Refuse(t) \/ MissDeadline(t)

\* The first step of listing a context's eligibilities: the cache, or ARM.
EligibilityCall(c) ==
  IF cache[c] # NoCache
    THEN [state |-> "read", pages |-> 0, got |-> cache[c]]
    ELSE [state |-> "reading", pages |-> 0, got |-> {}]

Elig(c) == <<c, Eligibilities>>
FailedEligibilities == {c \in sessions : calls[Elig(c)].state = "failed"}
ReadEligibilities   == {c \in sessions : calls[Elig(c)].state = "read"}
KnownScopes == UNION {ScopesFor(c, calls[Elig(c)].got) : c \in ReadEligibilities}

-----------------------------------------------------------------------------
(* The listing: the goroutine of startActivationListing, or runStatus.     *)

\* The calls of a listing that is about to read ts.
CallsOf(ts) == [t \in Targets |-> IF t \in ts THEN [NoCall EXCEPT !.state = "queued"] ELSE calls[t]]

\* listTenantWide: every session at once.
StartTenantWide ==
  /\ stage' = "tenantWide" /\ UNCHANGED unnamed
  /\ targets' = sessions \X {Whole}
  /\ calls' = [t \in Targets |-> IF t \in sessions \X {Whole} THEN [NoCall EXCEPT !.state = "reading"] ELSE calls[t]]

\* MUTATION: a session whose eligibilities nobody knows is not marked.
NotMarked(scopes, unconfirmed) == {}

\* listActivations: the sessions nothing is known of.
Uncovered(scopes, unconfirmed) ==
  {c \in sessions : /\ \A s \in scopes : s[1] # c
                    /\ \A u \in unconfirmed : u.context # c}

\* listActivations, from the scopes on: the recorded scopes are read as well.
StartFanOut(scopes, errs, unconfirmed) ==
  /\ stage' = "fanOut"
  /\ targets' = withRecordedScopes(scopes)
  /\ calls' = CallsOf(withRecordedScopes(scopes))
  /\ unnamed' = {s \in Scopes : record[s] = "none"}
  /\ res' = [rows |-> {}, errs |-> errs,
             unconfirmed |-> unconfirmed \union {Unread(c, Whole, FALSE) : c \in Uncovered(scopes, unconfirmed)}]

StartListing ==
  /\ stage = "starting"
  /\ \/ /\ allScopes
        /\ StartTenantWide /\ UNCHANGED res
     \/ /\ ~allScopes /\ given # {}
        /\ StartFanOut(given, {}, {})
     \/ /\ ~allScopes /\ given = {}
        /\ stage' = "eligibility"
        /\ calls' = [t \in Targets |-> NoCall]
        /\ UNCHANGED <<unnamed, targets, res>>
  /\ UNCHANGED <<asked, arm, cache, record, others, sessions, cancelled, phase, local, given, listErrs, report>>

\* eligibleScopes: one session after the other.
ReadNextEligibility ==
  /\ stage = "eligibility"
  /\ \E c \in sessions :
       /\ calls[Elig(c)].state = "none"
       /\ \A d \in sessions : d < c => Finished(Elig(d))
       /\ calls' = [calls EXCEPT ![Elig(c)] = EligibilityCall(c)]
  /\ UNCHANGED <<asked, arm, files, sessions, cancelled, phase, local, given, listErrs,
                 stage, targets, res, report>>

\* listActivations after eligibleScopes.  No scope means that every session failed, as
\* one with no eligibilities gives its tenant-wide scope: the errors are the answer.
UseEligibility ==
  /\ stage = "eligibility" /\ \A c \in sessions : Finished(Elig(c))
  /\ LET errs   == {Elig(c) : c \in FailedEligibilities}
         marks  == {Unread(c, Whole, TRUE) : c \in FailedEligibilities}
     IN IF KnownScopes = {}
          THEN /\ stage' = "landed"
               /\ res' = [rows |-> {}, errs |-> errs, unconfirmed |-> marks]
               /\ UNCHANGED <<unnamed, calls, targets>>
          ELSE StartFanOut(KnownScopes, errs, marks)
  /\ UNCHANGED <<asked, arm, cache, record, others, sessions, cancelled, phase, local, given, listErrs, report>>

\* MUTATION: a scope that missed its deadline, or that ARM throttled, reads as empty.
FailedOnly(t) == calls[t].state = "failed"

\* listActivationsAtScope: a scope without an answer is unknown, not empty.
Unanswered(t) == calls[t].state \in {"late", "throttled", "failed"}

\* listActivationsAtScope: whether the mark carries an error.  listTenantWide's all do.
Errored(t) == stage = "tenantWide" \/ calls[t].state = "failed"

\* The tally, as every call left it.
Land ==
  /\ stage \in {"fanOut", "tenantWide"} /\ \A t \in targets : Finished(t)
  /\ stage' = "landed"
  /\ LET unread == {t \in targets : Unanswered(t)}
     IN res' = [rows |-> UNION {calls[t].got : t \in {u \in targets : calls[u].state = "read"}},
                errs |-> res.errs \union {t \in unread : Errored(t)},
                unconfirmed |-> res.unconfirmed \union {Unread(t[1], t[2], Errored(t)) : t \in unread}]
  /\ UNCHANGED <<asked, arm, files, sessions, cancelled, phase, local, given, listErrs,
                 calls, targets, report>>

-----------------------------------------------------------------------------
(* The command.                                                            *)

\* openSessionsWith and prepare: a context that cannot be opened is not fatal, all are.
Open ==
  /\ phase = "opening"
  /\ \E opened \in SUBSET Contexts :
       /\ sessions' = opened
       /\ IF opened = {}
            THEN phase' = "done" /\ report' = [NoReport EXCEPT !.exit = "failed"] /\ UNCHANGED calls
          ELSE IF command = "status"
            THEN phase' = "local" /\ UNCHANGED <<calls, report>>
          ELSE /\ phase' = "eligibility"
               /\ calls' = [t \in Targets |->
                     IF t[2] = Eligibilities /\ t[1] \in opened THEN EligibilityCall(t[1]) ELSE NoCall]
               /\ UNCHANGED report
  /\ UNCHANGED <<asked, arm, files, cancelled, local, given, listErrs, stage, targets, res>>

\* readEligibilityRows and startActivationListing: every session's goroutine is back.
GatherEligibilities ==
  /\ phase = "eligibility" /\ \A c \in sessions : Finished(Elig(c))
  /\ given' = KnownScopes /\ listErrs' = FailedEligibilities
  /\ stage' = "starting"
  /\ phase' = IF command = "list" /\ cancelled THEN "finishing"
              ELSE IF command = "list" THEN "local" ELSE "waiting"
  /\ report' = IF command = "list" /\ cancelled THEN [report EXCEPT !.exit = "interrupted"] ELSE report
  /\ UNCHANGED <<asked, arm, files, sessions, cancelled, local, calls, targets, res>>

\* readLocalRecord: before the listing in `status`, beside it in `list`.
ReadLocal ==
  /\ phase = "local"
  /\ local' = [s \in Scopes |-> IF ContextOf[s] \in sessions THEN record[s] ELSE "none"]
  /\ phase' = "waiting"
  /\ stage' = IF command = "status" THEN "starting" ELSE stage
  /\ UNCHANGED <<asked, arm, files, sessions, cancelled, given, listErrs, calls, targets, res, report>>

\* reconcileActive: which confirming entries' requests say they are gone; it asks of
\* those the listing read and omits, and a cancelled run has no answers.
Reconcile ==
  /\ phase = "waiting" /\ command # "up" /\ stage = "landed"
  /\ \E gone \in SUBSET {s \in Scopes : record[s] = "confirming" /\ ~cancelled
                                       /\ s \notin res.rows /\ ~scopeIsUnread(res.unconfirmed, s)} :
       /\ record' = Reconciled(record, res.rows, res.unconfirmed, gone)
       /\ report' = [report EXCEPT !.lost = Dropped(res.rows, res.unconfirmed, gone)]
  /\ phase' = "reporting"
  /\ UNCHANGED <<asked, arm, cache, others, unnamed, sessions, cancelled, local, given, listErrs, listing>>

\* MUTATION: `list` forgets the eligibilities it could not read itself.
ListingErrsOnly == res.errs

\* What `list` and `status` report as failures, on top of the contexts not opened.
Failures == res.errs \union {Elig(c) : c \in listErrs}

\* runList, runStatus: name what is unconfirmed, then the failures, and exit.
Report ==
  /\ phase = "reporting"
  /\ report' =
       IF cancelled THEN [report EXCEPT !.exit = "interrupted"]
       ELSE [report EXCEPT !.named = res.unconfirmed, !.errs = Failures,
               !.exit = IF Failures = {} /\ sessions = Contexts THEN "ok" ELSE "failed"]
  /\ phase' = "finishing"
  /\ UNCHANGED <<asked, arm, files, sessions, cancelled, local, given, listErrs, listing>>

\* finishActivation: reportUnreadScopes, of a listing that has landed.  The requests are
\* Submission.tla's, and the exit code is theirs but for the contexts that failed.
Note ==
  /\ phase = "waiting" /\ command = "up"
  /\ report' =
       LET landed == stage = "landed"
       IN [report EXCEPT
            !.late = IF landed THEN {u \in res.unconfirmed : ~u.errored} ELSE {},
            !.errs = (IF landed THEN res.errs ELSE {}) \union {Elig(c) : c \in listErrs},
            !.exit = IF listErrs = {} /\ sessions = Contexts THEN "ok" ELSE "failed"]
  /\ phase' = "finishing"
  /\ UNCHANGED <<asked, arm, files, sessions, cancelled, local, given, listErrs, listing>>

\* runContext.finish: cancel, ...
Finish ==
  /\ phase = "finishing" /\ ~cancelled
  /\ cancelled' = TRUE
  /\ UNCHANGED <<asked, arm, files, sessions, phase, local, given, listErrs, listing, report>>

\* ... and wait for the goroutine.
Exit ==
  /\ phase = "finishing" /\ cancelled /\ stage \in {"idle", "landed"}
  /\ phase' = "done"
  /\ UNCHANGED <<asked, arm, files, sessions, cancelled, local, given, listErrs, listing, report>>

Interrupt ==
  /\ phase \notin {"opening", "finishing", "done"} /\ ~cancelled
  /\ cancelled' = TRUE
  /\ UNCHANGED <<asked, arm, files, sessions, phase, local, given, listErrs, listing, report>>

\* Another process records the role, removes it or gives it up (a reconciliation, an
\* `up` or `down`, `cache clear --all`), or its entry expires.  Bound: MaxOthers times,
\* while this run may still read the record; an earlier one is an initial state.
RecordElsewhere(s) ==
  /\ phase \in {"local", "waiting"} /\ command # "up"
  /\ others < MaxOthers /\ others' = others + 1
  /\ \E kind \in (Kinds \union {"none", "listed"}) \ {record[s]} : record' = [record EXCEPT ![s] = kind]
  /\ UNCHANGED <<asked, arm, cache, unnamed, sessions, cancelled, phase, local, given, listErrs, listing,
                 report>>

Ended == phase = "done" /\ UNCHANGED vars

Goroutine == StartListing \/ ReadNextEligibility \/ UseEligibility \/ Land
Command   == Open \/ GatherEligibilities \/ ReadLocal \/ Reconcile \/ Report \/ Note \/ Finish \/ Exit

Next ==
  \/ Command \/ Goroutine \/ Interrupt \/ Ended
  \/ \E t \in Targets : Call(t)
  \/ \E s \in Scopes : RecordElsewhere(s)

Spec == Init /\ [][Next]_vars

-----------------------------------------------------------------------------
(* Properties.                                                             *)

\* An activation that ARM shows at a scope the fan-out asked about, and that is missing
\* from its answer, has its scope marked unread: no page limit, deadline, throttling,
\* error or interrupt makes a held role look released (active.go:296, client.go:236).
MissedIsUnread ==
  stage = "landed" => \A t \in targets :
    t[2] # Whole => \A s \in visible \intersect Under[t[2]] :
      s \in res.rows \/ scopeIsUnread(res.unconfirmed, t[2])

\* Once the listing is in, of each session the eligibilities are known, or all of it was
\* asked for, or all of it is marked unread: a context that could not be listed is never
\* taken for one in which nothing is held (active.go:384).
EveryContextIsAccountedFor ==
  stage = "landed" => \A c \in sessions :
    \/ calls[Elig(c)].state = "read"
    \/ <<c, Whole>> \in targets
    \/ \E u \in res.unconfirmed : u.context = c /\ u.id = Whole

\* What enters the eligibility cache is a complete listing, never a page of one or what
\* was read before an error (eligible.go:79, client.go:236).
OnlyCompleteIsCached ==
  [][\A c \in Contexts : cache'[c] # cache[c] => cache'[c] = eligible[c]]_cache

\* A role that a run drops from the record, or reports as no longer held, is at a
\* scope this run read, unless others had removed it when the run took the recorded
\* scopes, or recorded it only then (reconcile.go:171, localrecord.go:204).
WasRead(s) == \E id \in {s, Whole} : calls[<<ContextOf[s], id>>].state = "read"
NothingLostUnread ==
  [][phase = "waiting" /\ phase' = "reporting" =>
       \A s \in Scopes :
         ((record[s] # "none" /\ record'[s] = "none") \/ s \in report'.lost)
           => WasRead(s) \/ s \in unnamed]_vars

\* When `list` or `status` exits 0, every context was opened and its eligibilities
\* listed, or all of it asked for, and each scope asked for was read or is named as
\* unconfirmed (exit.go:57, list.go:92).
ExitOkIsComplete ==
  report.exit = "ok" /\ command # "up" =>
    /\ sessions = Contexts
    /\ \A c \in sessions : calls[Elig(c)].state = "read" \/ <<c, Whole>> \in targets
    /\ \A t \in targets : calls[t].state = "read" \/ Unread(t[1], t[2], FALSE) \in report.named

\* The comment at run.go:199-202: a scope is named as having missed its deadline only if
\* it did, not if the reason is an error already printed (or that it was never asked).
LateMeansLate ==
  \A u \in report.late : calls[<<u.context, u.id>>].state \in {"late", "throttled"}

\* The comment at status.go:212-213: a role is said to be no longer held only if Azure
\* answered for its scope, at the scope, above it or for the whole context.
LostIsAnswered ==
  \A s \in report.lost :
    \E t \in targets : /\ calls[t].state = "read" /\ t[1] = ContextOf[s]
                       /\ t[2] = Whole \/ s \in Under[t[2]]
=============================================================================
