----------------------------- MODULE Submission -----------------------------
(***************************************************************************)
(* One batch of `up` or `down`: every role's request is submitted, polled  *)
(* and reported by a goroutine of its own, all through one session whose   *)
(* credential ARM may stop accepting and whose user may interrupt it       *)
(* (internal/cli/execute.go, request.go, session.go, and the retry and     *)
(* poll loops of internal/armclient/client.go).                            *)
(*                                                                         *)
(* ARM is external.  A request is created by the first PUT ARM processes   *)
(* and settles by itself; a PUT sent again carries the same name and finds *)
(* the same request.  A definition marked MUTATION is the one below it     *)
(* with a mistake in it.                                                   *)
(***************************************************************************)
EXTENDS Integers, FiniteSets

CONSTANTS
  Items,           \* the roles of the batch
  None,            \* no item
  RequestTypes,    \* what a batch may ask: "SelfActivate" (`up`), "SelfDeactivate" (`down`)
  SeenActive,      \* `down`: items the activation listing showed as held
  NoWait,          \* --no-wait
  FromCache,       \* whether the session opened with a cached token
  MaxConcurrency,  \* maxConcurrency
  MaxRetries       \* armclient.DefaultMaxRetries

ASSUME SubmissionAssumption ==
  /\ None \notin Items
  /\ RequestTypes \subseteq {"SelfActivate", "SelfDeactivate"}
  /\ SeenActive \subseteq Items
  /\ NoWait \in BOOLEAN /\ FromCache \in BOOLEAN
  /\ MaxConcurrency \in Nat \ {0} /\ MaxRetries \in Nat

VARIABLES
  RequestType, \* what this batch asks
  plan,        \* what the plan says of each item: "send" it, "keep" its activation as
               \* it is (KeepActive), or "unprepared" (PrepErr); constant, like RequestType
  interrupted, \* the context was cancelled
  pc,          \* where each item's goroutine is
  call,        \* the call it makes: "put" or "poll"
  again,       \* items whose call is the second one under retryOn401
  attempt,     \* how often do has sent the PUT already
  sent,        \* the credential the call in flight carries
  last,        \* the last request status the item has seen
  readErr,     \* how the poll's last completed read failed
  outcome,     \* results[idx].Outcome
  bearer,      \* the client's credential
  trusted,     \* the credentials ARM accepts
  refresh,     \* refreshOnce: how far the session's one refresh has got
  mints,       \* tokens asked for since the session opened
  cache,       \* the token cache file
  request,     \* ARM's status of each item's request
  unheard,     \* history: items of which ARM processed a PUT it did not answer
  reporter,    \* who holds reportMu
  copy,        \* the record as the reporting item read it
  recorded,    \* items whose outcome is in the record
  policies,    \* items whose PIM policy is in the policy cache
  hand,        \* the policy cache as the dropping item read it
  drops,       \* DropPolicy calls an item has left; -1 until ARM rejects its policy
  exit         \* the process's exit code

batch   == <<pc, call, again, attempt, sent, last, readErr, outcome>>
session == <<bearer, refresh, mints, cache>>
policy  == <<policies, hand, drops>>
report  == <<reporter, copy, recorded, policy>>
asked   == <<RequestType, plan>>
vars    == <<asked, interrupted, batch, session, trusted, request, unheard, report, exit>>

\* The statuses the predicates of types.go tell apart; "settling" is any that
\* is not terminal.
Statuses  == {"none", "settling", "approval", "provisioned", "revoked", "failed"}
Outcomes  == {"none", "ACTIVATED", "DEACTIVATED", "ALREADY ACTIVE", "PENDING APPROVAL",
              "SUBMITTED", "STILL PENDING", "FAILED", "ABORTED", "SKIPPED", "NOT ACTIVE"}
Tokens    == {"cached", "fresh", "other"}
NoExit    == -1

TypeOK ==
  /\ RequestType \in RequestTypes
  /\ plan \in [Items -> {"send", "keep", "unprepared"}]
  /\ interrupted \in BOOLEAN
  /\ pc \in [Items -> {"queued", "entered", "ready", "sent", "backoff", "rejected",
                       "policy", "dropping", "landed", "reporting", "done"}]
  /\ call \in [Items -> {"put", "poll"}]
  /\ again \subseteq Items /\ unheard \subseteq Items /\ recorded \subseteq Items
  /\ attempt \in [Items -> 0..MaxRetries]
  /\ sent \in [Items -> Tokens \union {"none"}]
  /\ last \in [Items -> Statuses] /\ request \in [Items -> Statuses]
  /\ readErr \in [Items -> {"none", "other", "timeout"}]
  /\ outcome \in [Items -> Outcomes]
  /\ bearer \in Tokens /\ trusted \subseteq Tokens
  /\ refresh \in {"none", "minting", "storing", "done", "failed"}
  /\ mints \in Nat
  /\ cache \in Tokens \union {"none"}
  /\ reporter \in Items \union {None}
  /\ copy \in [Items -> SUBSET Items]
  /\ policies \subseteq Items /\ hand \in [Items -> SUBSET Items]
  /\ drops \in [Items -> -1..2]
  /\ exit \in {NoExit, 0, 1, 2, 130}

Init ==
  /\ RequestType \in RequestTypes
  /\ plan \in [Items -> {"send"} \union
                          IF RequestType = "SelfActivate" THEN {"keep", "unprepared"} ELSE {}]
  /\ interrupted = FALSE
  /\ pc = [i \in Items |-> "queued"]
  /\ call = [i \in Items |-> "put"]
  /\ again = {} /\ unheard = {} /\ recorded = {}
  /\ attempt = [i \in Items |-> 0]
  /\ sent = [i \in Items |-> "none"]
  /\ last = [i \in Items |-> "none"]
  /\ readErr = [i \in Items |-> "none"]
  /\ outcome = [i \in Items |-> "none"]
  /\ bearer = IF FromCache THEN "cached" ELSE "fresh"
  /\ cache = bearer
  /\ trusted \in {{"cached", "fresh"}, {"cached"}}
  /\ refresh = "none" /\ mints = 0
  /\ request = [i \in Items |-> "none"]
  /\ reporter = None
  /\ copy = [i \in Items |-> {}]
  /\ policies = Items
  /\ hand = [i \in Items |-> {}]
  /\ drops = [i \in Items |-> -1]
  /\ exit = NoExit

-----------------------------------------------------------------------------
(* Statuses and outcomes.                                                  *)

SuccessOutcome == IF RequestType = "SelfActivate" THEN "ACTIVATED" ELSE "DEACTIVATED"

\* MUTATION: the predicate does not look at the request's type.
SuccessOfAnyType(s) == s \in {"provisioned", "revoked"}

IsSuccessStatusFor(s) ==
  s = "provisioned" \/ (s = "revoked" /\ RequestType = "SelfDeactivate")
IsTerminalStatus(s) == s \in {"provisioned", "revoked", "approval", "failed"}

\* classifyRequest
Classified(s, polled) ==
  CASE IsSuccessStatusFor(s)                       -> SuccessOutcome
    [] s = "approval"                              -> "PENDING APPROVAL"
    [] s \in {"revoked", "failed"}
       /\ ~IsSuccessStatusFor(s)                   -> "FAILED"
    [] s = "settling" /\ polled                    -> "STILL PENDING"
    [] s = "settling" /\ ~polled                   -> "SUBMITTED"

\* MUTATION: a request that could not be read back counts as refused.
UnreadIsFailed(s) == IF IsTerminalStatus(s) THEN Classified(s, TRUE) ELSE "FAILED"

\* classifyUnread
Unread(s) == IF IsTerminalStatus(s) THEN Classified(s, TRUE) ELSE "STILL PENDING"

\* The ways ARM refuses a PUT that the code tells apart.
Refusals == {"already active", "request exists", "policy", "claims", "not active",
             "minimum duration", "other"}

\* What deactivateOne and applyRequestError make of a refusal.
RefusedOutcome(i, kind) ==
  CASE kind = "already active" -> "ALREADY ACTIVE"
    [] kind = "not active" /\ RequestType = "SelfDeactivate" /\ i \notin SeenActive
                               -> "NOT ACTIVE"
    [] OTHER                   -> "FAILED"

Recordable == {"ACTIVATED", "ALREADY ACTIVE", "DEACTIVATED", "NOT ACTIVE"}

\* MUTATION: a request that never settled is not a failure.
ExitWithoutUnfinished(results) ==
  IF results \intersect {"FAILED", "ABORTED", "SKIPPED"} # {} THEN 1
  ELSE IF "PENDING APPROVAL" \in results THEN 2 ELSE 0

exitCodeFor(results) ==
  IF results \intersect {"FAILED", "STILL PENDING", "ABORTED", "SKIPPED"} # {} THEN 1
  ELSE IF "PENDING APPROVAL" \in results THEN 2 ELSE 0

-----------------------------------------------------------------------------
(* submitAll: a semaphore of MaxConcurrency, held until the result has been *)
(* reported.                                                               *)

Inside == {i \in Items : pc[i] \notin {"queued", "done"}}

Enter(i) ==
  /\ pc[i] = "queued" /\ Cardinality(Inside) < MaxConcurrency
  /\ pc' = [pc EXCEPT ![i] = "entered"]
  /\ UNCHANGED <<asked, interrupted, call, again, attempt, sent, last, readErr, outcome, session,
                 trusted, request, unheard, report, exit>>

\* The item's call is over; what it held of the call no longer matters.
Land(i, o) ==
  /\ pc' = [pc EXCEPT ![i] = "landed"]
  /\ outcome' = [outcome EXCEPT ![i] = o]
  /\ call' = [call EXCEPT ![i] = "put"]
  /\ again' = again \ {i}
  /\ attempt' = [attempt EXCEPT ![i] = 0]
  /\ sent' = [sent EXCEPT ![i] = "none"]
  /\ last' = [last EXCEPT ![i] = "none"]
  /\ readErr' = [readErr EXCEPT ![i] = "none"]

\* A preserved window is checked again, and may have expired since the plan.
Start(i) ==
  /\ pc[i] = "entered"
  /\ \/ plan[i] = "keep" /\ \E o \in {"ALREADY ACTIVE", "FAILED"} : Land(i, o)
     \/ plan[i] = "unprepared" /\ Land(i, "FAILED")
     \/ plan[i] = "send" /\ interrupted /\ Land(i, "SKIPPED")
     \/ /\ plan[i] = "send" /\ ~interrupted
        /\ pc' = [pc EXCEPT ![i] = "ready"]
        /\ UNCHANGED <<call, again, attempt, sent, last, readErr, outcome>>
  /\ UNCHANGED <<asked, interrupted, session, trusted, request, unheard, report, exit>>

\* MUTATION: progress is called without the mutex.
ReportUnserialised(i) ==
  /\ pc[i] = "landed"
  /\ reporter' = i
  /\ copy' = [copy EXCEPT ![i] = recorded]
  /\ pc' = [pc EXCEPT ![i] = "reporting"]
  /\ UNCHANGED <<asked, interrupted, call, again, attempt, sent, last, readErr, outcome, session,
                 trusted, request, unheard, recorded, policy, exit>>

\* The progress callback reads, merges and writes the record under reportMu; the
\* record's own lock is left out, for it may not be there (lockRecord).
BeginReport(i) ==
  /\ pc[i] = "landed" /\ reporter = None
  /\ reporter' = i
  /\ copy' = [copy EXCEPT ![i] = recorded]
  /\ pc' = [pc EXCEPT ![i] = "reporting"]
  /\ UNCHANGED <<asked, interrupted, call, again, attempt, sent, last, readErr, outcome, session,
                 trusted, request, unheard, recorded, policy, exit>>

EndReport(i) ==
  /\ pc[i] = "reporting"
  /\ recorded' = copy[i] \union {j \in {i} : outcome[j] \in Recordable}
  /\ copy' = [copy EXCEPT ![i] = {}]
  /\ reporter' = None
  /\ pc' = [pc EXCEPT ![i] = "done"]
  /\ UNCHANGED <<asked, interrupted, call, again, attempt, sent, last, readErr, outcome, session,
                 trusted, request, unheard, policy, exit>>

-----------------------------------------------------------------------------
(* One call.  doOnce reads the bearer and sends; ARM answers the credential *)
(* it was sent with.                                                       *)

Send(i) ==
  /\ pc[i] = "ready" /\ ~interrupted
  /\ sent' = [sent EXCEPT ![i] = bearer]
  /\ pc' = [pc EXCEPT ![i] = "sent"]
  /\ UNCHANGED <<asked, interrupted, call, again, attempt, last, readErr, outcome, session,
                 trusted, request, unheard, report, exit>>

\* A PUT fails for good: the interrupt is checked before the error is read.
PutFails(i, o) == Land(i, IF interrupted THEN "ABORTED" ELSE o)

\* ARM processes a PUT: the first one creates the request.
Process(i) ==
  request' = [request EXCEPT ![i] = IF @ = "none" THEN "settling" ELSE @]

\* 401: the credential is refused before ARM looks at anything else.
Unauthorized(i) ==
  /\ pc[i] = "sent" /\ sent[i] \notin trusted
  /\ pc' = [pc EXCEPT ![i] = "rejected"]
  /\ UNCHANGED <<asked, interrupted, call, again, attempt, sent, last, readErr, outcome, session,
                 trusted, request, unheard, report, exit>>

\* A PUT that ARM processed or not, and did not answer.
Unanswered(i) ==
  /\ pc[i] = "sent" /\ call[i] = "put" /\ sent[i] \in trusted
  /\ \/ UNCHANGED <<request, unheard>>
     \/ Process(i) /\ unheard' = unheard \union {i}

\* MUTATION: one attempt too many.
PutUnavailableOnceMore(i) ==
  /\ Unanswered(i)
  /\ IF attempt[i] <= MaxRetries
       THEN /\ pc' = [pc EXCEPT ![i] = "backoff"]
            /\ UNCHANGED <<call, again, attempt, sent, last, readErr, outcome>>
       ELSE PutFails(i, "FAILED")
  /\ UNCHANGED <<asked, interrupted, session, trusted, report, exit>>

\* 429, 503 or 504: do waits and sends it again, MaxRetries times.
PutUnavailable(i) ==
  /\ Unanswered(i)
  /\ IF attempt[i] < MaxRetries
       THEN /\ pc' = [pc EXCEPT ![i] = "backoff"]
            /\ UNCHANGED <<call, again, attempt, sent, last, readErr, outcome>>
       ELSE PutFails(i, "FAILED")
  /\ UNCHANGED <<asked, interrupted, session, trusted, report, exit>>

Backoff(i) ==
  /\ pc[i] = "backoff"
  /\ \/ /\ interrupted
        /\ Land(i, "ABORTED")
     \/ /\ pc' = [pc EXCEPT ![i] = "ready"]
        /\ attempt' = [attempt EXCEPT ![i] = @ + 1]
        /\ UNCHANGED <<call, again, sent, last, readErr, outcome>>
  /\ UNCHANGED <<asked, interrupted, session, trusted, request, unheard, report, exit>>

\* The connection breaks, or the interrupt breaks it off.
PutBroken(i) ==
  /\ Unanswered(i)
  /\ PutFails(i, "FAILED")
  /\ UNCHANGED <<asked, interrupted, session, trusted, report, exit>>

\* The interrupt comes before the call is sent: the dead context fails it.
NotSent(i) ==
  /\ pc[i] = "ready" /\ interrupted
  /\ Land(i, "ABORTED")
  /\ UNCHANGED <<asked, interrupted, session, trusted, request, unheard, report, exit>>

\* ARM refuses the request.  A claims challenge drops the cached token, a failed
\* policy rule the cached policy.
PutRefused(i) ==
  /\ pc[i] = "sent" /\ call[i] = "put" /\ sent[i] \in trusted /\ request[i] = "none"
  /\ \E kind \in Refusals \ (IF interrupted THEN {} ELSE {"policy"}) :
       /\ PutFails(i, RefusedOutcome(i, kind))
       /\ cache' = IF kind = "claims" /\ ~interrupted THEN "none" ELSE cache
  /\ UNCHANGED <<asked, interrupted, bearer, refresh, mints, trusted, request, unheard, report, exit>>

\* activateOne drops the policy, and applyRequestError drops it again.
PolicyRejected(i) ==
  /\ pc[i] = "sent" /\ call[i] = "put" /\ sent[i] \in trusted /\ request[i] = "none"
  /\ ~interrupted
  /\ pc' = [pc EXCEPT ![i] = "policy"]
  /\ drops' = [drops EXCEPT ![i] = IF RequestType = "SelfActivate" THEN 2 ELSE 1]
  /\ UNCHANGED <<asked, interrupted, call, again, attempt, sent, last, readErr, outcome, session,
                 trusted, request, unheard, reporter, copy, recorded, policies, hand, exit>>

\* DropPolicy reads the whole file, and writes it back without the one entry; no
\* lock is held in between.
ReadPolicies(i) ==
  /\ pc[i] = "policy"
  /\ hand' = [hand EXCEPT ![i] = policies]
  /\ pc' = [pc EXCEPT ![i] = "dropping"]
  /\ UNCHANGED <<asked, interrupted, call, again, attempt, sent, last, readErr, outcome, session,
                 trusted, request, unheard, reporter, copy, recorded, policies, drops, exit>>

WritePolicies(i) ==
  /\ pc[i] = "dropping"
  /\ policies' = hand[i] \ {i}
  /\ hand' = [hand EXCEPT ![i] = {}]
  /\ drops' = [drops EXCEPT ![i] = @ - 1]
  /\ IF drops[i] > 1
       THEN /\ pc' = [pc EXCEPT ![i] = "policy"]
            /\ UNCHANGED <<call, again, attempt, sent, last, readErr, outcome>>
       ELSE Land(i, "FAILED")
  /\ UNCHANGED <<asked, interrupted, session, trusted, request, unheard, reporter, copy, recorded,
                 exit>>

\* ARM answers with the request.  Unless --no-wait is given it is polled, by a
\* call under a retryOn401 of its own; a terminal status is not polled.
PutAccepted(i) ==
  /\ pc[i] = "sent" /\ call[i] = "put" /\ sent[i] \in trusted
  /\ Process(i)
  /\ IF NoWait \/ IsTerminalStatus(request'[i])
       THEN Land(i, Classified(request'[i], ~NoWait))
       ELSE /\ pc' = [pc EXCEPT ![i] = "ready"]
            /\ call' = [call EXCEPT ![i] = "poll"]
            /\ again' = again \ {i}
            /\ attempt' = [attempt EXCEPT ![i] = 0]
            /\ sent' = [sent EXCEPT ![i] = "none"]
            /\ last' = [last EXCEPT ![i] = request'[i]]
            /\ UNCHANGED <<readErr, outcome>>
  /\ unheard' = unheard \ {i}
  /\ UNCHANGED <<asked, interrupted, session, trusted, report, exit>>

-----------------------------------------------------------------------------
(* Poll: reads until a status is terminal or the budget is gone.           *)

Reading(i) == pc[i] = "sent" /\ call[i] = "poll" /\ sent[i] \in trusted

Read(i) ==
  /\ Reading(i)
  /\ IF IsTerminalStatus(request[i])
       THEN Land(i, Classified(request[i], TRUE))
       ELSE /\ pc' = [pc EXCEPT ![i] = "ready"]
            /\ sent' = [sent EXCEPT ![i] = "none"]
            /\ last' = [last EXCEPT ![i] = request[i]]
            /\ readErr' = [readErr EXCEPT ![i] = "none"]
            /\ UNCHANGED <<call, again, attempt, outcome>>
  /\ UNCHANGED <<asked, interrupted, session, trusted, request, unheard, report, exit>>

\* A read fails; one cut off by the HTTP client's own timeout fails with an
\* error that is context.DeadlineExceeded.
ReadFails(i) ==
  /\ Reading(i)
  /\ \E e \in {"other", "timeout"} : readErr' = [readErr EXCEPT ![i] = e]
  /\ pc' = [pc EXCEPT ![i] = "ready"]
  /\ sent' = [sent EXCEPT ![i] = "none"]
  /\ UNCHANGED <<asked, interrupted, call, again, attempt, last, outcome, session,
                 trusted, request, unheard, report, exit>>

\* 403 ends the poll at once, and no refresh is tried.
ReadForbidden(i) ==
  /\ Reading(i)
  /\ Land(i, Unread(last[i]))
  /\ UNCHANGED <<asked, interrupted, session, trusted, request, unheard, report, exit>>

\* MUTATION: a poll whose last read failed goes on.
BudgetSpentWhenRead(i) ==
  /\ pc[i] \in {"ready", "sent"} /\ call[i] = "poll" /\ ~interrupted
  /\ readErr[i] = "none"
  /\ Land(i, Classified(last[i], TRUE))
  /\ UNCHANGED <<asked, interrupted, session, trusted, request, unheard, report, exit>>

\* The poll's budget ends: an answer on its way is not looked at, and what is
\* left is the last status and how the last completed read failed, if it did.
BudgetSpent(i) ==
  /\ pc[i] \in {"ready", "sent"} /\ call[i] = "poll" /\ ~interrupted
  /\ Land(i, CASE readErr[i] = "none"    -> Classified(last[i], TRUE)
               [] readErr[i] = "other"   -> Unread(last[i])
               [] readErr[i] = "timeout" -> "ABORTED")
  /\ UNCHANGED <<asked, interrupted, session, trusted, request, unheard, report, exit>>

\* The interrupt ends a poll wherever it is, an answer on its way included.
PollInterrupted(i) ==
  /\ pc[i] = "sent" /\ call[i] = "poll" /\ interrupted
  /\ Land(i, "ABORTED")
  /\ UNCHANGED <<asked, interrupted, session, trusted, request, unheard, report, exit>>

-----------------------------------------------------------------------------
(* retryOn401 and refreshSession.                                          *)

\* A call is rejected for good.  Its error is ARM's 401, with or without a
\* claims challenge; for a poll, one more error it could not read through.
RejectedForGood(i) ==
  IF call[i] = "poll"
    THEN Land(i, Unread(last[i])) /\ UNCHANGED cache
    ELSE /\ PutFails(i, "FAILED")
         /\ \/ UNCHANGED cache
            \/ ~interrupted /\ cache' = "none"

\* MUTATION: a caller waits for the refresh to succeed.
RejectedUntilRefreshed(i) ==
  /\ pc[i] = "rejected"
  /\ \/ /\ i \in again \/ ~FromCache
        /\ RejectedForGood(i)
     \/ /\ i \notin again /\ FromCache /\ refresh = "done"
        /\ again' = again \union {i}
        /\ pc' = [pc EXCEPT ![i] = "ready"]
        /\ attempt' = [attempt EXCEPT ![i] = 0]
        /\ sent' = [sent EXCEPT ![i] = "none"]
        /\ readErr' = [readErr EXCEPT ![i] = "none"]
        /\ UNCHANGED <<call, last, outcome, cache>>
  /\ UNCHANGED <<asked, interrupted, bearer, refresh, mints, trusted, request, unheard, report, exit>>

\* A rejected call waits for the session's one refresh, whoever began it; an
\* interrupt does not end the wait.
Rejected(i) ==
  /\ pc[i] = "rejected"
  /\ \/ /\ i \in again \/ ~FromCache \/ refresh = "failed"
        /\ RejectedForGood(i)
     \/ /\ i \notin again /\ FromCache /\ refresh = "done"
        /\ again' = again \union {i}
        /\ pc' = [pc EXCEPT ![i] = "ready"]
        /\ attempt' = [attempt EXCEPT ![i] = 0]
        /\ sent' = [sent EXCEPT ![i] = "none"]
        /\ readErr' = [readErr EXCEPT ![i] = "none"]
        /\ UNCHANGED <<call, last, outcome, cache>>
  /\ UNCHANGED <<asked, interrupted, bearer, refresh, mints, trusted, request, unheard, report, exit>>

\* MUTATION: every rejected call refreshes the session again.
RefreshEachTime ==
  /\ refresh \in {"none", "done"} /\ FromCache
  /\ \E i \in Items \ again : pc[i] = "rejected"
  /\ refresh' = "minting" /\ cache' = "none"
  /\ UNCHANGED <<asked, interrupted, batch, bearer, mints, trusted, request, unheard, report, exit>>

\* MUTATION: the rejected token stays in the cache until it is replaced.
RefreshWithoutDrop ==
  /\ refresh = "none" /\ FromCache
  /\ \E i \in Items \ again : pc[i] = "rejected"
  /\ refresh' = "minting"
  /\ UNCHANGED <<asked, interrupted, batch, bearer, mints, cache, trusted, request, unheard, report, exit>>

\* refreshOnce: the first rejected call drops the cached token; the others wait.
BeginRefresh ==
  /\ refresh = "none" /\ FromCache
  /\ \E i \in Items \ again : pc[i] = "rejected"
  /\ refresh' = "minting" /\ cache' = "none"
  /\ UNCHANGED <<asked, interrupted, batch, bearer, mints, trusted, request, unheard, report, exit>>

\* MUTATION: whoever is signed in will do.
MintForAnyone ==
  /\ refresh = "minting"
  /\ mints' = mints + 1
  /\ \/ refresh' = "failed" /\ UNCHANGED bearer
     \/ refresh' = "storing" /\ bearer' \in {"fresh", "other"}
  /\ UNCHANGED <<asked, interrupted, batch, cache, trusted, request, unheard, report, exit>>

\* Acquire fails, or answers for another account, or replaces the bearer.
Mint ==
  /\ refresh = "minting"
  /\ mints' = mints + 1
  /\ \E token \in {"none", "other", "fresh"} :
       IF token = "fresh" THEN refresh' = "storing" /\ bearer' = token
                          ELSE refresh' = "failed" /\ UNCHANGED bearer
  /\ UNCHANGED <<asked, interrupted, batch, cache, trusted, request, unheard, report, exit>>

StoreToken ==
  /\ refresh = "storing"
  /\ refresh' = "done" /\ cache' = bearer
  /\ UNCHANGED <<asked, interrupted, batch, bearer, mints, trusted, request, unheard, report, exit>>

-----------------------------------------------------------------------------
(* ARM, the user, and the end of the run.                                  *)

Settle(i) ==
  /\ request[i] = "settling"
  /\ \E s \in Statuses \ {"none", "settling"} : request' = [request EXCEPT ![i] = s]
  /\ UNCHANGED <<asked, interrupted, batch, session, trusted, unheard, report, exit>>

\* ARM stops accepting the cached token: it is revoked, or expires mid-run.
Distrust ==
  /\ exit = NoExit /\ "cached" \in trusted
  /\ trusted' = trusted \ {"cached"}
  /\ UNCHANGED <<asked, interrupted, batch, session, request, unheard, report, exit>>

Interrupt ==
  /\ exit = NoExit /\ ~interrupted
  /\ interrupted' = TRUE
  /\ UNCHANGED <<asked, batch, session, trusted, request, unheard, report, exit>>

\* wg.Wait, reportRun, and main's check of the context.
Finish ==
  /\ exit = NoExit /\ \A i \in Items : pc[i] = "done"
  /\ exit' = IF interrupted THEN 130 ELSE exitCodeFor({outcome[i] : i \in Items})
  /\ UNCHANGED <<asked, interrupted, batch, session, trusted, request, unheard, report>>

\* The process is gone; without this, its end would look like a deadlock.
Ended == exit # NoExit /\ UNCHANGED vars

-----------------------------------------------------------------------------
Put(i)  == PutUnavailable(i) \/ Backoff(i) \/ PutBroken(i) \/ NotSent(i)
           \/ PutRefused(i) \/ PolicyRejected(i) \/ PutAccepted(i)
Drop(i) == ReadPolicies(i) \/ WritePolicies(i)
Poll(i) == Read(i) \/ ReadFails(i) \/ ReadForbidden(i) \/ BudgetSpent(i)
           \/ PollInterrupted(i)
Refresh == BeginRefresh \/ Mint \/ StoreToken

Step(i) == Enter(i) \/ Start(i) \/ Send(i) \/ Unauthorized(i) \/ Put(i) \/ Drop(i) \/ Poll(i)
           \/ Rejected(i) \/ BeginReport(i) \/ EndReport(i)

Next ==
  \/ \E i \in Items : Step(i) \/ Settle(i)
  \/ Refresh \/ Distrust \/ Interrupt \/ Finish \/ Ended

Spec == Init /\ [][Next]_vars

\* A goroutine goes on, a call ends one way or another (the HTTP client's
\* timeout), and so does a poll's budget.  Nothing makes a refresh go on: it runs
\* az and cloudctx, which execRunner waits for without a timeout.
Fairness ==
  /\ \A i \in Items : WF_vars(Step(i)) /\ WF_vars(BudgetSpent(i))
  /\ WF_vars(Finish)

FairSpec == Spec /\ Fairness

-----------------------------------------------------------------------------
(* Properties.                                                             *)

\* ARM did what the request asked for.
Granted(i) ==
  request[i] \in IF RequestType = "SelfActivate" THEN {"provisioned"}
                                                ELSE {"provisioned", "revoked"}

\* A role is said to be refused or never tried only if ARM has not granted its
\* request, or granted one whose answer never arrived (activateOne,
\* pollToOutcome, classifyUnread).
DeniedIsNotGranted ==
  \A i \in Items :
    outcome[i] \in {"FAILED", "SKIPPED"} /\ Granted(i) => i \in unheard

\* A role is said to have been activated or given up only if ARM did it
\* (classifyRequest and the type-aware predicates).
ClaimedIsGranted ==
  \A i \in Items : outcome[i] = SuccessOutcome => Granted(i)

\* Of a batch that waits, exit 0 means every role is as it was asked to be, and
\* exit 2 that nothing failed and an approver holds a request (exitCodeFor, run).
ExitTellsTheTruth ==
  /\ exit = 0 /\ ~NoWait =>
       \A i \in Items : Granted(i) \/ outcome[i] \in {"ALREADY ACTIVE", "NOT ACTIVE"}
  /\ exit = 2 /\ ~NoWait =>
       /\ \E i \in Items : request[i] = "approval"
       /\ \A i \in Items : request[i] = "failed" => i \in unheard

\* No call is made with another account's credential, and none is stored
\* (refreshSession).
OneIdentity == bearer # "other" /\ cache # "other"

\* However many calls are rejected, a session asks for one token (refreshOnce).
RefreshedOnce == mints <= 1

\* A cached token that ARM rejected does not outlive the run (refreshSession).
RejectedTokenIsDropped ==
  exit # NoExit /\ refresh # "none" => cache # "cached"

\* Every outcome worth recording is in the record when the run ends, though the
\* record itself may not be locked (submitAll, onEachResult).
AllRecorded ==
  exit # NoExit => recorded = {i \in Items : outcome[i] \in Recordable}

\* Only the user's interrupt is reported as one (pollToOutcome).
AbortedIsInterrupted ==
  \A i \in Items : outcome[i] = "ABORTED" => interrupted

\* A policy that ARM rejected is not in the cache for the next run to plan with
\* (applyRequestError, DropPolicy).
RejectedPolicyIsDropped == \A i \in Items : drops[i] = 0 => i \notin policies

\* A call waits for a refresh, which waits for az or cloudctx.
Hung ==
  /\ FromCache /\ refresh \notin {"done", "failed"}
  /\ \E i \in Items \ again : pc[i] = "rejected"

\* Whatever ARM answers or leaves unanswered, and however many calls it rejects at
\* once, the run ends, unless the child process a refresh waits for never does
\* (submitAll, retryOn401, execRunner).
Terminates == <>(exit # NoExit) \/ <>[]Hung

=============================================================================
