--------------------------- MODULE SubmissionProofs ---------------------------
(***************************************************************************)
(* Theorems about Submission, for every set of items, every plan and every *)
(* bound: types, the one refresh of a session, the reports that reach the  *)
(* record, and that what the user is told, item by item and by the exit    *)
(* code, is what ARM did.                                                  *)
(***************************************************************************)
EXTENDS Submission, TLAPS

-----------------------------------------------------------------------------
(* The session.  Only the three steps of a refresh and the drops of the     *)
(* cached token change it, and a refresh begins once.                      *)

SessionInv ==
  /\ bearer # "other" /\ cache # "other"
  /\ mints \in {0, 1}
  /\ refresh \in {"none", "minting"} => mints = 0
  /\ refresh \in {"storing", "done"} => bearer = "fresh"
  /\ refresh # "none" => cache # "cached"

\* A session starts with one credential and no refresh.
LEMMA SessionInit == Init => SessionInv
BY DEF Init, SessionInv

\* Every step keeps the session's invariant.
LEMMA SessionStep == SessionInv /\ [Next]_vars => SessionInv'
<1> SUFFICES ASSUME SessionInv, [Next]_vars
             PROVE  SessionInv'
  OBVIOUS
<1> USE DEF SessionInv
<1>1. ASSUME UNCHANGED session PROVE SessionInv'
  BY <1>1 DEF session
<1>2. ASSUME UNCHANGED <<bearer, refresh, mints>>, cache' \in {cache, "none"}
      PROVE  SessionInv'
  BY <1>2
<1>3. ASSUME NEW i \in Items, Step(i) PROVE SessionInv'
  <2>1. CASE PutRefused(i) BY <2>1, <1>2 DEF PutRefused
  <2>2. CASE Rejected(i)
    BY <2>2, <1>2 DEF Rejected, RejectedForGood
  <2>3. CASE Put(i) /\ ~PutRefused(i)
    BY <2>3, <1>1 DEF Put, PutUnavailable, Backoff, PutBroken, NotSent, PolicyRejected, PutAccepted
  <2>4. CASE Drop(i) \/ Poll(i)
    BY <2>4, <1>1 DEF Drop, ReadPolicies, WritePolicies, Poll, Read, ReadFails, ReadForbidden,
                      BudgetSpent, PollInterrupted
  <2>5. CASE Enter(i) \/ Start(i) \/ Send(i) \/ Unauthorized(i) \/ BeginReport(i) \/ EndReport(i)
    BY <2>5, <1>1 DEF Enter, Start, Send, Unauthorized, BeginReport, EndReport
  <2> QED BY <1>3, <2>1, <2>2, <2>3, <2>4, <2>5 DEF Step
<1>4. CASE BeginRefresh
  BY <1>4 DEF BeginRefresh
<1>5. CASE Mint
  BY <1>5 DEF Mint
<1>6. CASE StoreToken
  BY <1>6 DEF StoreToken
<1>7. ASSUME NEW i \in Items, Settle(i) PROVE SessionInv'
  BY <1>7, <1>1 DEF Settle
<1>8. CASE Distrust \/ Interrupt \/ Finish \/ Ended \/ UNCHANGED vars
  BY <1>8, <1>1 DEF Distrust, Interrupt, Finish, Ended, vars
<1> QED BY <1>3, <1>4, <1>5, <1>6, <1>7, <1>8 DEF Next, Refresh

\* So it holds throughout.
LEMMA SessionInvariant == Spec => []SessionInv
BY SessionInit, SessionStep, PTL DEF Spec

\* However many calls ARM rejects, the session mints one token (refreshOnce).
THEOREM RefreshedOnlyOnce == Spec => []RefreshedOnce
<1>1. SessionInv => RefreshedOnce
  BY DEF SessionInv, RefreshedOnce
<1> QED BY <1>1, SessionInvariant, PTL

\* No call is made with another account's credential, and none is stored
\* (refreshSession).
THEOREM IdentityKept == Spec => []OneIdentity
<1>1. SessionInv => OneIdentity
  BY DEF SessionInv, OneIdentity
<1> QED BY <1>1, SessionInvariant, PTL

\* A cached token that ARM rejected does not outlive the run (refreshSession).
THEOREM RejectedTokenDropped == Spec => []RejectedTokenIsDropped
<1>1. SessionInv => RejectedTokenIsDropped
  BY DEF SessionInv, RejectedTokenIsDropped
<1> QED BY <1>1, SessionInvariant, PTL

-----------------------------------------------------------------------------
(* Types.  They hold together with what each point of an item's goroutine   *)
(* promises (ItemInv): a poll follows an accepted request, a backoff leaves *)
(* an attempt, and a result says what ARM had done when it landed.          *)

Landed == {"landed", "reporting", "done"}

\* What result o says of item i is what ARM has done.
Fits(i, o) ==
  /\ o \in {"ACTIVATED", "DEACTIVATED"} => o = SuccessOutcome /\ Granted(i)
  /\ o \in {"FAILED", "SKIPPED"} =>
       i \in unheard \/ request[i] = "none" \/ (IsTerminalStatus(request[i]) /\ ~Granted(i))
  /\ o \in {"ALREADY ACTIVE", "NOT ACTIVE"} => i \in unheard \/ request[i] = "none"
  /\ o = "PENDING APPROVAL" => request[i] = "approval"
  /\ o = "SUBMITTED" => NoWait

ItemInv(i) ==
  /\ call[i] = "poll" => /\ last[i] = "settling" /\ request[i] # "none"
                         /\ pc[i] \in {"ready", "sent", "rejected"}
  /\ pc[i] = "backoff" => attempt[i] < MaxRetries
  /\ pc[i] \in {"policy", "dropping"} => drops[i] \in {1, 2}
  /\ call[i] = "put" /\ pc[i] \notin Landed => request[i] = "none" \/ i \in unheard
  /\ pc[i] \in Landed <=> outcome[i] # "none"
  /\ outcome[i] # "none" => Fits(i, outcome[i])

ReportInv ==
  /\ \A i \in Items : pc[i] = "reporting" => reporter = i /\ copy[i] = recorded
  /\ recorded = {i \in Items : pc[i] = "done" /\ outcome[i] \in Recordable}
  /\ exit # NoExit => \A i \in Items : pc[i] = "done"

\* The exit code is the one its results had, and results are final.
ExitInv ==
  /\ exit \in {0, 2} =>
       \A i \in Items : outcome[i] \notin {"FAILED", "STILL PENDING", "ABORTED", "SKIPPED"}
  /\ exit = 0 => \A i \in Items : outcome[i] # "PENDING APPROVAL"
  /\ exit = 2 => \E i \in Items : outcome[i] = "PENDING APPROVAL"

Inv == TypeOK /\ (\A i \in Items : ItemInv(i)) /\ ReportInv /\ ExitInv

\* The conjuncts of TypeOK about the variables that one call changes.
BatchType ==
  /\ pc \in [Items -> {"queued", "entered", "ready", "sent", "backoff", "rejected",
                       "policy", "dropping", "landed", "reporting", "done"}]
  /\ call \in [Items -> {"put", "poll"}]
  /\ again \subseteq Items
  /\ attempt \in [Items -> 0..MaxRetries]
  /\ sent \in [Items -> Tokens \union {"none"}]
  /\ last \in [Items -> Statuses]
  /\ readErr \in [Items -> {"none", "other", "timeout"}]
  /\ outcome \in [Items -> Outcomes]

\* A landing item keeps the types.
LEMMA LandType ==
  ASSUME BatchType, NEW i \in Items, NEW o \in Outcomes, Land(i, o)
  PROVE  BatchType'
<1> USE DEF BatchType
<1>1. 0 \in 0..MaxRetries
  BY SubmissionAssumption
<1>2. "none" \in Statuses
  BY DEF Statuses
<1> QED BY <1>1, <1>2 DEF Land

\* What a goroutine reads off a status is an outcome.
LEMMA ClassifiedType ==
  ASSUME RequestType \in RequestTypes, NEW s \in Statuses \ {"none"}, NEW b \in BOOLEAN
  PROVE  Classified(s, b) \in Outcomes \ {"none"}
BY SubmissionAssumption DEF Classified, Statuses, Outcomes, SuccessOutcome, IsSuccessStatusFor

\* What an outcome read off status s says of it.
Meant(s, o) ==
  /\ o \in {"ACTIVATED", "DEACTIVATED"} =>
       /\ o = SuccessOutcome
       /\ s = "provisioned" \/ (s = "revoked" /\ RequestType = "SelfDeactivate")
  /\ o = "FAILED" => s = "failed" \/ (s = "revoked" /\ RequestType = "SelfActivate")
  /\ o = "PENDING APPROVAL" => s = "approval"
  /\ o = "SUBMITTED" => NoWait
  /\ o \notin {"SKIPPED", "ALREADY ACTIVE", "NOT ACTIVE"}

\* classifyRequest says of a status what it means.
LEMMA ClassifiedMeans ==
  ASSUME RequestType \in RequestTypes, NEW s \in Statuses \ {"none"}, NEW b \in BOOLEAN,
         b \/ NoWait
  PROVE  Meant(s, Classified(s, b))
BY SubmissionAssumption DEF Meant, Classified, Statuses, SuccessOutcome, IsSuccessStatusFor

\* So a result read off the request's own status fits, also after the step that
\* reads it.
LEMMA MeantFits ==
  ASSUME RequestType \in RequestTypes, RequestType' = RequestType,
         NEW i \in Items, NEW o, Meant(request'[i], o)
  PROVE  Fits(i, o)'
BY SubmissionAssumption DEF Meant, Fits, SuccessOutcome, Granted, IsTerminalStatus

-----------------------------------------------------------------------------
(* A step of one item leaves the others alone.                             *)

SameItem(j) ==
  /\ pc'[j] = pc[j] /\ call'[j] = call[j] /\ attempt'[j] = attempt[j] /\ last'[j] = last[j]
  /\ outcome'[j] = outcome[j] /\ drops'[j] = drops[j] /\ request'[j] = request[j]
  /\ j \in unheard' <=> j \in unheard

\* An item that nothing touched keeps its promises.
LEMMA SameItemInv ==
  ASSUME NEW j \in Items, ItemInv(j), SameItem(j), RequestType' = RequestType
  PROVE  ItemInv(j)'
BY DEF ItemInv, SameItem, Landed, Fits, SuccessOutcome, Granted, IsTerminalStatus

\* A goroutine touches its own item only.
LEMMA OthersSame ==
  ASSUME TypeOK, NEW i \in Items, Step(i) \/ Settle(i), NEW j \in Items \ {i}
  PROVE  SameItem(j)
<1> USE DEF SameItem, TypeOK, batch, session, report, policy
<1>1. ASSUME NEW o, Land(i, o)
      PROVE  /\ pc'[j] = pc[j] /\ call'[j] = call[j] /\ attempt'[j] = attempt[j]
             /\ last'[j] = last[j] /\ outcome'[j] = outcome[j]
  BY <1>1 DEF Land
<1>2. ASSUME Process(i) PROVE request'[j] = request[j]
  BY <1>2 DEF Process
<1>3. CASE Enter(i) BY <1>3 DEF Enter
<1>4. CASE Start(i) BY <1>4, <1>1 DEF Start
<1>5. CASE Send(i) BY <1>5 DEF Send
<1>6. CASE Unauthorized(i) BY <1>6 DEF Unauthorized
<1>7. CASE PutUnavailable(i) BY <1>7, <1>1, <1>2 DEF PutUnavailable, Unanswered, PutFails
<1>8. CASE Backoff(i) BY <1>8, <1>1 DEF Backoff
<1>9. CASE PutBroken(i) BY <1>9, <1>1, <1>2 DEF PutBroken, Unanswered, PutFails
<1>10. CASE NotSent(i) BY <1>10, <1>1 DEF NotSent
<1>11. CASE PutRefused(i) BY <1>11, <1>1 DEF PutRefused, PutFails
<1>12. CASE PolicyRejected(i) BY <1>12 DEF PolicyRejected
<1>13. CASE PutAccepted(i) BY <1>13, <1>1, <1>2 DEF PutAccepted
<1>14. CASE ReadPolicies(i) BY <1>14 DEF ReadPolicies
<1>15. CASE WritePolicies(i) BY <1>15, <1>1 DEF WritePolicies
<1>16. CASE Read(i)
  <2>1. CASE Land(i, Classified(request[i], TRUE)) BY <1>16, <2>1, <1>1 DEF Read
  <2>2. CASE ~IsTerminalStatus(request[i]) BY <1>16, <2>2 DEF Read
  <2> QED BY <1>16, <2>1, <2>2 DEF Read
<1>17. CASE ReadFails(i) BY <1>17 DEF ReadFails
<1>18. CASE ReadForbidden(i) BY <1>18, <1>1 DEF ReadForbidden
<1>19. CASE BudgetSpent(i) BY <1>19, <1>1 DEF BudgetSpent
<1>20. CASE PollInterrupted(i) BY <1>20, <1>1 DEF PollInterrupted
<1>21. CASE Rejected(i) BY <1>21, <1>1 DEF Rejected, RejectedForGood, PutFails
<1>22. CASE BeginReport(i) BY <1>22 DEF BeginReport
<1>23. CASE EndReport(i) BY <1>23 DEF EndReport
<1>24. CASE Settle(i) BY <1>24 DEF Settle
<1> QED
  BY <1>3, <1>4, <1>5, <1>6, <1>7, <1>8, <1>9, <1>10, <1>11, <1>12, <1>13, <1>14, <1>15, <1>16,
     <1>17, <1>18, <1>19, <1>20, <1>21, <1>22, <1>23, <1>24 DEF Step, Put, Drop, Poll

-----------------------------------------------------------------------------
(* A step of one item keeps the types and that item's promises.            *)

\* A result that fits may land.
LEMMA LandItem ==
  ASSUME TypeOK, NEW i \in Items, NEW o \in Outcomes \ {"none"}, Land(i, o), Fits(i, o)'
  PROVE  BatchType' /\ ItemInv(i)'
<1>1. BatchType
  BY DEF TypeOK, BatchType
<1>2. BatchType'
  BY <1>1, LandType
<1>3. /\ pc'[i] = "landed" /\ call'[i] = "put" /\ outcome'[i] = o
  BY DEF Land, TypeOK
<1>4. ItemInv(i)'
  BY <1>3 DEF ItemInv, Landed
<1> QED BY <1>2, <1>4

\* A result that claims nothing fits at any time.
LEMMA ClaimsNothing ==
  ASSUME NEW i \in Items, NEW o \in {"ABORTED", "STILL PENDING"}
  PROVE  Fits(i, o)'
BY DEF Fits

\* A PUT that is over fits as a failure: ARM has not processed it, or has not
\* answered one that it processed.
LEMMA FailureFits ==
  ASSUME NEW i \in Items, i \in unheard' \/ request'[i] = "none",
         NEW o \in {"FAILED", "ABORTED", "SKIPPED", "ALREADY ACTIVE", "NOT ACTIVE"}
  PROVE  Fits(i, o)'
BY DEF Fits

\* A PUT that got no answer leaves its item unheard, or without a request.
LEMMA UnansweredPut ==
  ASSUME TypeOK, NEW i \in Items, ItemInv(i), Unanswered(i)
  PROVE  /\ request' \in [Items -> Statuses] /\ unheard' \subseteq Items
         /\ i \in unheard' \/ request'[i] = "none"
BY DEF TypeOK, ItemInv, Unanswered, Process, Landed, Statuses

\* The steps up to a call, and the waits between its attempts.
LEMMA CallStep ==
  ASSUME TypeOK, NEW i \in Items, ItemInv(i),
         Enter(i) \/ Start(i) \/ Send(i) \/ Unauthorized(i) \/ Backoff(i) \/ NotSent(i)
  PROVE  TypeOK' /\ ItemInv(i)'
<1>a. ItemInv(i) /\ TypeOK
  OBVIOUS
<1>b. {"FAILED", "ABORTED", "SKIPPED", "ALREADY ACTIVE", "NOT ACTIVE"} \subseteq Outcomes \ {"none"}
  BY DEF Outcomes
<1>1. CASE Enter(i)
  <2>1. TypeOK' BY <1>1 DEF TypeOK, Enter, session, report, policy, asked
  <2>2. ItemInv(i)'
    BY <1>1 DEF ItemInv, Enter, session, report, policy, asked, TypeOK, Landed, Fits,
                Granted, SuccessOutcome, IsTerminalStatus
  <2> QED BY <2>1, <2>2
<1>2. ASSUME NEW o \in {"FAILED", "ABORTED", "SKIPPED", "ALREADY ACTIVE", "NOT ACTIVE"},
             Land(i, o), call[i] = "put", pc[i] \notin Landed,
             UNCHANGED <<asked, interrupted, session, trusted, request, unheard, report, exit>>
      PROVE  TypeOK' /\ ItemInv(i)'
  <2>1. Fits(i, o)'
    BY <1>2, FailureFits DEF ItemInv
  <2>2. BatchType' /\ ItemInv(i)'
    BY <1>2, <1>b, <2>1, LandItem
  <2>3. TypeOK'
    BY <1>2, <2>2 DEF TypeOK, BatchType, session, report, policy, asked
  <2> QED BY <2>2, <2>3
<1>3. CASE Start(i)
  <2>1. call[i] = "put" /\ pc[i] \notin Landed
    BY <1>3 DEF Start, ItemInv, TypeOK, Landed
  <2>2. CASE plan[i] = "send" /\ ~interrupted
    <3>1. TypeOK' BY <1>3, <2>2 DEF TypeOK, Start, session, report, policy, asked
    <3>2. ItemInv(i)'
      <4>1. /\ pc'[i] = "ready" /\ call'[i] = "put" /\ outcome'[i] = "none"
            /\ request'[i] = "none" \/ i \in unheard'
        BY <1>3, <2>1, <2>2 DEF ItemInv, Start, TypeOK
      <4> QED BY <4>1 DEF ItemInv, Landed
    <3> QED BY <3>1, <3>2
  <2>3. CASE ~(plan[i] = "send" /\ ~interrupted)
    <3>1. PICK o \in {"FAILED", "SKIPPED", "ALREADY ACTIVE"} : Land(i, o)
      BY <1>3, <2>3 DEF Start
    <3> QED BY <1>3, <2>1, <3>1, <1>2 DEF Start
  <2> QED BY <2>2, <2>3
<1>4. CASE Send(i)
  <2>1. TypeOK' BY <1>4 DEF TypeOK, Send, session, report, policy, asked
  <2>2. ItemInv(i)'
    BY <1>4 DEF ItemInv, Send, session, report, policy, asked, TypeOK, Landed, Fits,
                Granted, SuccessOutcome, IsTerminalStatus
  <2> QED BY <2>1, <2>2
<1>5. CASE Unauthorized(i)
  <2>1. TypeOK' BY <1>5 DEF TypeOK, Unauthorized, session, report, policy, asked
  <2>2. ItemInv(i)'
    BY <1>5 DEF ItemInv, Unauthorized, session, report, policy, asked, TypeOK, Landed, Fits,
                Granted, SuccessOutcome, IsTerminalStatus
  <2> QED BY <2>1, <2>2
<1>6. CASE Backoff(i)
  <2>1. call[i] = "put" /\ pc[i] \notin Landed
    BY <1>6 DEF Backoff, ItemInv, TypeOK, Landed
  <2>2. CASE Land(i, "ABORTED")
    BY <1>6, <2>1, <2>2, <1>2 DEF Backoff
  <2>3. CASE /\ pc' = [pc EXCEPT ![i] = "ready"]
             /\ attempt' = [attempt EXCEPT ![i] = @ + 1]
             /\ UNCHANGED <<call, again, sent, last, readErr, outcome>>
    <3>0. attempt[i] + 1 \in 0..MaxRetries
      BY <1>6, SubmissionAssumption DEF Backoff, ItemInv, TypeOK
    <3>1. TypeOK' BY <1>6, <2>3, <3>0 DEF TypeOK, Backoff, session, report, policy, asked
    <3>2. ItemInv(i)'
      BY <1>6, <2>3 DEF ItemInv, Backoff, session, report, policy, asked, TypeOK, Landed, Fits,
                        Granted, SuccessOutcome, IsTerminalStatus
    <3> QED BY <3>1, <3>2
  <2> QED BY <1>6, <2>2, <2>3 DEF Backoff
<1>7. CASE NotSent(i)
  <2>1. CASE call[i] = "put"
    BY <1>7, <2>1, <1>2 DEF NotSent, Landed
  <2>2. CASE call[i] = "poll"
    <3>1. Fits(i, "ABORTED")' BY ClaimsNothing
    <3>2. BatchType' /\ ItemInv(i)' BY <1>7, <1>b, <3>1, LandItem DEF NotSent
    <3>3. TypeOK' BY <1>7, <3>2 DEF NotSent, TypeOK, BatchType, session, report, policy, asked
    <3> QED BY <3>2, <3>3
  <2> QED BY <2>1, <2>2 DEF TypeOK
<1> QED BY <1>1, <1>3, <1>4, <1>5, <1>6, <1>7

\* The ends of a PUT.
LEMMA PutStep ==
  ASSUME TypeOK, NEW i \in Items, ItemInv(i),
         PutUnavailable(i) \/ PutBroken(i) \/ PutRefused(i) \/ PutAccepted(i)
  PROVE  TypeOK' /\ ItemInv(i)'
<1>b. {"FAILED", "ABORTED", "SKIPPED", "ALREADY ACTIVE", "NOT ACTIVE"} \subseteq Outcomes \ {"none"}
  BY DEF Outcomes
<1>1. ASSUME NEW o \in {"FAILED", "ALREADY ACTIVE", "NOT ACTIVE"}, PutFails(i, o),
             i \in unheard' \/ request'[i] = "none"
      PROVE  BatchType' /\ ItemInv(i)'
  <2>1. PICK f \in {"FAILED", "ABORTED", "ALREADY ACTIVE", "NOT ACTIVE"} : Land(i, f)
    BY <1>1 DEF PutFails
  <2>2. Fits(i, f)' BY <1>1, FailureFits
  <2> QED BY <1>b, <2>1, <2>2, LandItem
<1>2. CASE PutUnavailable(i)
  <2>1. /\ request' \in [Items -> Statuses] /\ unheard' \subseteq Items
        /\ i \in unheard' \/ request'[i] = "none"
    BY <1>2, UnansweredPut DEF PutUnavailable
  <2>2. CASE attempt[i] < MaxRetries
    <3>0. BatchType' BY <1>2, <2>2 DEF BatchType, TypeOK, PutUnavailable
    <3>1. TypeOK'
      BY <1>2, <2>1, <3>0 DEF TypeOK, BatchType, PutUnavailable, session, report, policy, asked
    <3>2. /\ pc'[i] = "backoff" /\ call'[i] = "put" /\ outcome'[i] = "none"
          /\ attempt'[i] < MaxRetries
      BY <1>2, <2>2 DEF PutUnavailable, Unanswered, ItemInv, Landed, TypeOK
    <3>3. ItemInv(i)' BY <2>1, <3>2 DEF ItemInv, Landed
    <3> QED BY <3>1, <3>3
  <2>3. CASE ~(attempt[i] < MaxRetries)
    <3>1. BatchType' /\ ItemInv(i)' BY <1>1, <1>2, <2>1, <2>3 DEF PutUnavailable
    <3>2. TypeOK'
      BY <1>2, <2>1, <3>1 DEF TypeOK, BatchType, PutUnavailable, session, report, policy, asked
    <3> QED BY <3>1, <3>2
  <2> QED BY <2>2, <2>3
<1>3. CASE PutBroken(i)
  <2>1. /\ request' \in [Items -> Statuses] /\ unheard' \subseteq Items
        /\ i \in unheard' \/ request'[i] = "none"
    BY <1>3, UnansweredPut DEF PutBroken
  <2>2. BatchType' /\ ItemInv(i)' BY <1>1, <1>3, <2>1 DEF PutBroken
  <2>3. TypeOK'
    BY <1>3, <2>1, <2>2 DEF TypeOK, BatchType, PutBroken, session, report, policy, asked
  <2> QED BY <2>2, <2>3
<1>4. CASE PutRefused(i)
  <2>1. PICK kind \in Refusals : PutFails(i, RefusedOutcome(i, kind))
    BY <1>4 DEF PutRefused
  <2>2. RefusedOutcome(i, kind) \in {"FAILED", "ALREADY ACTIVE", "NOT ACTIVE"}
    BY DEF RefusedOutcome
  <2>3. i \in unheard' \/ request'[i] = "none"
    BY <1>4 DEF PutRefused
  <2>4. BatchType' /\ ItemInv(i)' BY <1>1, <2>1, <2>2, <2>3
  <2>5. TypeOK'
    BY <1>4, <2>4 DEF TypeOK, BatchType, PutRefused, session, report, policy, asked, Tokens
  <2> QED BY <2>4, <2>5
<1>5. CASE PutAccepted(i)
  <2>1. /\ request' \in [Items -> Statuses] /\ request'[i] \in Statuses \ {"none"}
        /\ unheard' \subseteq Items
    BY <1>5 DEF PutAccepted, Process, TypeOK, Statuses
  <2>0. RequestType' \in RequestTypes /\ RequestType' = RequestType
    BY <1>5 DEF PutAccepted, asked, TypeOK
  <2>n. NoWait \in BOOLEAN
    BY SubmissionAssumption
  <2>2. CASE NoWait \/ IsTerminalStatus(request'[i])
    <3>1. PICK s \in Statuses \ {"none"} : s = request'[i] BY <2>1
    <3>2. PICK o \in Outcomes \ {"none"} : o = Classified(s, ~NoWait)
      BY <2>n, ClassifiedType DEF TypeOK
    <3>3. Fits(i, o)' /\ Land(i, o)
      <4>1. Land(i, o) BY <1>5, <2>2, <3>1, <3>2 DEF PutAccepted
      <4>2. Fits(i, o)'
        <5>1. Meant(s, o) BY <2>n, <3>2, ClassifiedMeans DEF TypeOK
        <5> QED BY <2>0, <3>1, <5>1, MeantFits DEF TypeOK
      <4> QED BY <4>1, <4>2
    <3>4. BatchType' /\ ItemInv(i)' BY <3>3, LandItem
    <3>5. TypeOK'
      BY <1>5, <2>1, <3>4 DEF TypeOK, BatchType, PutAccepted, session, report, policy, asked
    <3> QED BY <3>4, <3>5
  <2>3. CASE ~(NoWait \/ IsTerminalStatus(request'[i]))
    <3>0. 0 \in 0..MaxRetries BY SubmissionAssumption
    <3>b. BatchType'
      BY <1>5, <2>1, <2>3, <3>0 DEF TypeOK, BatchType, PutAccepted
    <3>1. TypeOK'
      BY <1>5, <2>1, <3>b DEF TypeOK, BatchType, PutAccepted, session, report, policy, asked
    <3>2. /\ pc'[i] = "ready" /\ call'[i] = "poll" /\ outcome'[i] = "none"
          /\ last'[i] = request'[i]
      BY <1>5, <2>3 DEF PutAccepted, ItemInv, Landed, TypeOK
    <3>3. request'[i] = "settling"
      BY <2>1, <2>3 DEF Statuses, IsTerminalStatus
    <3> QED BY <3>1, <3>2, <3>3 DEF ItemInv, Landed
  <2> QED BY <2>2, <2>3
<1> QED BY <1>2, <1>3, <1>4, <1>5

\* A policy that ARM rejected is dropped, and its item has failed.
LEMMA DropStep ==
  ASSUME TypeOK, NEW i \in Items, ItemInv(i), PolicyRejected(i) \/ Drop(i)
  PROVE  TypeOK' /\ ItemInv(i)'
<1>1. CASE PolicyRejected(i)
  <2>1. TypeOK' BY <1>1 DEF TypeOK, PolicyRejected, session, asked
  <2>2. /\ pc'[i] = "policy" /\ call'[i] = "put" /\ outcome'[i] = "none"
        /\ drops'[i] \in {1, 2}
        /\ i \in unheard' \/ request'[i] = "none"
    BY <1>1 DEF PolicyRejected, ItemInv, Landed, TypeOK
  <2> QED BY <2>1, <2>2 DEF ItemInv, Landed
<1>2. CASE ReadPolicies(i)
  <2>1. TypeOK' BY <1>2 DEF TypeOK, ReadPolicies, session, asked
  <2>2. /\ pc'[i] = "dropping" /\ call'[i] = "put" /\ outcome'[i] = "none"
        /\ drops'[i] \in {1, 2}
        /\ i \in unheard' \/ request'[i] = "none"
    BY <1>2 DEF ReadPolicies, ItemInv, Landed, TypeOK
  <2> QED BY <2>1, <2>2 DEF ItemInv, Landed
<1>3. CASE WritePolicies(i)
  <2>1. /\ drops[i] \in {1, 2} /\ call[i] = "put" /\ outcome[i] = "none"
        /\ i \in unheard' \/ request'[i] = "none"
    BY <1>3 DEF WritePolicies, ItemInv, Landed, TypeOK
  <2>2. policies' \subseteq Items /\ hand' \in [Items -> SUBSET Items] /\ drops' \in [Items -> -1..2]
    BY <1>3, <2>1 DEF WritePolicies, TypeOK
  <2>3. CASE drops[i] > 1
    <3>1. TypeOK' BY <1>3, <2>2, <2>3 DEF TypeOK, WritePolicies, session, asked
    <3>2. /\ pc'[i] = "policy" /\ call'[i] = "put" /\ outcome'[i] = "none" /\ drops'[i] = 1
      BY <1>3, <2>1, <2>3 DEF WritePolicies, TypeOK
    <3> QED BY <2>1, <3>1, <3>2 DEF ItemInv, Landed
  <2>4. CASE ~(drops[i] > 1)
    <3>1. Land(i, "FAILED") BY <1>3, <2>4 DEF WritePolicies
    <3>2. Fits(i, "FAILED")' BY <2>1, FailureFits
    <3>3. BatchType' /\ ItemInv(i)' BY <3>1, <3>2, LandItem DEF Outcomes
    <3>4. TypeOK' BY <1>3, <2>2, <3>3 DEF TypeOK, BatchType, WritePolicies, session, asked
    <3> QED BY <3>3, <3>4
  <2> QED BY <2>3, <2>4
<1> QED BY <1>1, <1>2, <1>3 DEF Drop

\* A poll that never read a terminal status claims nothing.
LEMMA SettlingPending ==
  Unread("settling") = "STILL PENDING" /\ Classified("settling", TRUE) = "STILL PENDING"
BY DEF Unread, Classified, IsTerminalStatus, IsSuccessStatusFor

\* The steps of a poll.
LEMMA PollStep ==
  ASSUME TypeOK, NEW i \in Items, ItemInv(i), Poll(i)
  PROVE  TypeOK' /\ ItemInv(i)'
<1>a. /\ pc[i] \in {"ready", "sent"} /\ call[i] = "poll" /\ outcome[i] = "none"
      /\ last[i] = "settling" /\ request[i] \in Statuses \ {"none"}
  BY DEF Poll, Read, ReadFails, ReadForbidden, BudgetSpent, PollInterrupted, Reading, ItemInv,
         Landed, TypeOK
<1>b. UNCHANGED <<asked, interrupted, session, trusted, request, unheard, report, exit>>
  BY DEF Poll, Read, ReadFails, ReadForbidden, BudgetSpent, PollInterrupted
<1>c. ASSUME BatchType' PROVE TypeOK'
  BY <1>b, <1>c DEF TypeOK, BatchType, session, report, policy, asked
<1>1. ASSUME NEW o \in {"ABORTED", "STILL PENDING"}, Land(i, o)
      PROVE  TypeOK' /\ ItemInv(i)'
  <2>1. Fits(i, o)' BY ClaimsNothing
  <2>2. BatchType' /\ ItemInv(i)' BY <1>1, <2>1, LandItem DEF Outcomes
  <2> QED BY <1>c, <2>2
<1>2. CASE Read(i)
  <2>1. CASE IsTerminalStatus(request[i])
    <3>1. PICK s \in Statuses \ {"none"} : s = request[i] BY <1>a
    <3>2. PICK o \in Outcomes \ {"none"} : o = Classified(s, TRUE)
      BY ClassifiedType DEF TypeOK
    <3>3. Land(i, o) BY <1>2, <2>1, <3>1, <3>2 DEF Read
    <3>4. Meant(s, o) BY <3>2, ClassifiedMeans DEF TypeOK
    <3>5. request'[i] = s /\ RequestType' = RequestType
      BY <1>b, <3>1 DEF asked
    <3>6. Fits(i, o)' BY <3>4, <3>5, MeantFits DEF TypeOK
    <3>7. BatchType' /\ ItemInv(i)' BY <3>3, <3>6, LandItem
    <3> QED BY <1>c, <3>7
  <2>2. CASE ~IsTerminalStatus(request[i])
    <3>1. BatchType' BY <1>2, <2>2, <1>a DEF Read, BatchType, TypeOK
    <3>2. /\ pc'[i] = "ready" /\ call'[i] = "poll" /\ outcome'[i] = "none"
          /\ last'[i] = request'[i] /\ request'[i] = "settling"
      BY <1>2, <2>2, <1>a, <1>b DEF Read, TypeOK, Statuses, IsTerminalStatus
    <3>3. ItemInv(i)' BY <3>2 DEF ItemInv, Landed
    <3> QED BY <1>c, <3>1, <3>3
  <2> QED BY <2>1, <2>2
<1>3. CASE ReadFails(i)
  <2>1. BatchType' BY <1>3, <1>a DEF ReadFails, BatchType, TypeOK
  <2>2. /\ pc'[i] = "ready" /\ call'[i] = "poll" /\ outcome'[i] = "none"
        /\ last'[i] = "settling" /\ request'[i] # "none"
    BY <1>3, <1>a, <1>b DEF ReadFails, TypeOK
  <2>3. ItemInv(i)' BY <2>2 DEF ItemInv, Landed
  <2> QED BY <1>c, <2>1, <2>3
<1>4. CASE ReadForbidden(i)
  BY <1>4, <1>a, <1>1, SettlingPending DEF ReadForbidden
<1>5. CASE BudgetSpent(i)
  <2>1. CASE readErr[i] = "none"
    <3>1. Land(i, Classified(last[i], TRUE)) BY <1>5, <2>1 DEF BudgetSpent
    <3>2. Land(i, "STILL PENDING") BY <1>a, <3>1, SettlingPending
    <3> QED BY <1>1, <3>2
  <2>2. CASE readErr[i] = "other"
    <3>1. Land(i, Unread(last[i])) BY <1>5, <2>2 DEF BudgetSpent
    <3>2. Land(i, "STILL PENDING") BY <1>a, <3>1, SettlingPending
    <3> QED BY <1>1, <3>2
  <2>3. CASE readErr[i] = "timeout"
    BY <1>1, <1>5, <2>3 DEF BudgetSpent
  <2> QED BY <2>1, <2>2, <2>3 DEF TypeOK
<1>6. CASE PollInterrupted(i)
  BY <1>6, <1>1 DEF PollInterrupted
<1> QED BY <1>2, <1>3, <1>4, <1>5, <1>6 DEF Poll

\* A rejected call is made again or is over.
LEMMA RejectedStep ==
  ASSUME TypeOK, NEW i \in Items, ItemInv(i), Rejected(i)
  PROVE  TypeOK' /\ ItemInv(i)'
<1>a. /\ pc[i] = "rejected" /\ outcome[i] = "none"
      /\ call[i] = "put" => request[i] = "none" \/ i \in unheard
  BY DEF Rejected, ItemInv, Landed
<1>b. /\ UNCHANGED <<asked, interrupted, bearer, refresh, mints, trusted, request, unheard, report, exit>>
      /\ cache' \in {cache, "none"}
  BY DEF Rejected, RejectedForGood
<1>c. ASSUME BatchType' PROVE TypeOK'
  BY <1>b, <1>c DEF TypeOK, BatchType, session, report, policy, asked
<1>1. CASE RejectedForGood(i)
  <2>1. PICK o \in {"ABORTED", "STILL PENDING", "FAILED"} :
          Land(i, o) /\ (o = "FAILED" => call[i] = "put")
    <3>1. CASE call[i] = "poll"
      <4>1. Land(i, Unread(last[i])) BY <1>1, <3>1 DEF RejectedForGood
      <4>2. Land(i, "STILL PENDING") BY <3>1, <4>1, SettlingPending DEF ItemInv
      <4> QED BY <4>2
    <3>2. CASE call[i] = "put" /\ interrupted
      <4>1. Land(i, "ABORTED") BY <1>1, <3>2 DEF RejectedForGood, PutFails
      <4> QED BY <4>1
    <3>3. CASE call[i] = "put" /\ ~interrupted
      <4>1. Land(i, "FAILED") BY <1>1, <3>3 DEF RejectedForGood, PutFails
      <4> QED BY <3>3, <4>1
    <3>4. call[i] \in {"put", "poll"}
      BY DEF TypeOK
    <3> QED BY <3>1, <3>2, <3>3, <3>4
  <2>2. Fits(i, o)'
    <3>1. CASE o = "FAILED"
      <4>1. i \in unheard' \/ request'[i] = "none" BY <1>a, <1>b, <2>1, <3>1
      <4> QED BY <3>1, <4>1, FailureFits
    <3> QED BY <3>1, ClaimsNothing
  <2>3. BatchType' /\ ItemInv(i)' BY <2>1, <2>2, LandItem DEF Outcomes
  <2> QED BY <1>c, <2>3
<1>2. CASE ~RejectedForGood(i)
  <2>0. 0 \in 0..MaxRetries BY SubmissionAssumption
  <2>1. BatchType' BY <1>2, <2>0 DEF Rejected, BatchType, TypeOK
  <2>2. /\ pc'[i] = "ready" /\ call'[i] = call[i] /\ outcome'[i] = "none"
        /\ last'[i] = last[i] /\ request'[i] = request[i] /\ unheard' = unheard
    BY <1>2, <1>a, <1>b DEF Rejected, TypeOK
  <2>3. ItemInv(i)' BY <1>a, <2>2 DEF ItemInv, Landed, TypeOK
  <2> QED BY <1>c, <2>1, <2>3
<1> QED BY <1>1, <1>2

\* A report changes neither the call nor its result.
LEMMA ReportStep ==
  ASSUME TypeOK, NEW i \in Items, ItemInv(i), BeginReport(i) \/ EndReport(i)
  PROVE  TypeOK' /\ ItemInv(i)'
<1>1. TypeOK'
  BY DEF TypeOK, BeginReport, EndReport, session, policy, asked
<1>2. /\ pc[i] \in Landed /\ pc'[i] \in Landed \ {"landed"} /\ outcome' = outcome
      /\ request' = request /\ unheard' = unheard /\ RequestType' = RequestType /\ call' = call
  BY DEF BeginReport, EndReport, TypeOK, Landed, asked
<1>3. ItemInv(i)'
  BY <1>2 DEF ItemInv, Landed, Fits, SuccessOutcome, Granted, IsTerminalStatus
<1> QED BY <1>1, <1>3

\* ARM settles a request: what was said of an unsettled one still fits.
LEMMA SettleStep ==
  ASSUME TypeOK, NEW i \in Items, ItemInv(i), Settle(i)
  PROVE  TypeOK' /\ ItemInv(i)'
<1>1. TypeOK'
  BY DEF TypeOK, Settle, batch, session, report, policy, asked, Statuses
<1>2. /\ request[i] = "settling" /\ request'[i] \in Statuses \ {"none", "settling"}
      /\ UNCHANGED <<pc, call, attempt, last, outcome, drops, unheard, RequestType>>
  BY DEF Settle, TypeOK, batch, report, policy, asked
<1>3. ItemInv(i)'
  BY <1>2, SubmissionAssumption
  DEF ItemInv, Landed, Fits, SuccessOutcome, Granted, IsTerminalStatus, TypeOK, Statuses
<1> QED BY <1>1, <1>3

\* The session, ARM's trust and the user change nothing of an item.
LEMMA SessionKeeps ==
  ASSUME TypeOK, \A i \in Items : ItemInv(i),
         Refresh \/ Distrust \/ Interrupt \/ Finish \/ UNCHANGED vars
  PROVE  TypeOK' /\ \A i \in Items : ItemInv(i)'
<1>1. TypeOK'
  <2>1. CASE Refresh
    <3>1. CASE BeginRefresh
      BY <3>1 DEF TypeOK, BeginRefresh, batch, report, policy, asked
    <3>2. CASE Mint
      <4>1. /\ bearer' \in Tokens /\ refresh' \in {"storing", "failed"} /\ mints' \in Nat
        BY <3>2 DEF TypeOK, Mint, Tokens
      <4> QED BY <3>2, <4>1 DEF TypeOK, Mint, batch, report, policy, asked
    <3>3. CASE StoreToken
      BY <3>3 DEF TypeOK, StoreToken, batch, report, policy, asked
    <3> QED BY <2>1, <3>1, <3>2, <3>3 DEF Refresh
  <2>2. CASE Distrust
    BY <2>2 DEF TypeOK, Distrust, batch, session, report, policy, asked
  <2>3. CASE Interrupt
    BY <2>3 DEF TypeOK, Interrupt, batch, session, report, policy, asked
  <2>4. CASE Finish
    BY <2>4 DEF TypeOK, Finish, exitCodeFor, batch, session, report, policy, asked
  <2>5. CASE UNCHANGED vars
    BY <2>5 DEF TypeOK, vars, batch, session, report, policy, asked
  <2> QED BY <2>1, <2>2, <2>3, <2>4, <2>5
<1>2. UNCHANGED <<pc, call, attempt, last, outcome, drops, request, unheard, RequestType>>
  BY DEF Refresh, BeginRefresh, Mint, StoreToken, Distrust, Interrupt, Finish, vars, batch,
         report, policy, asked
<1>3. ASSUME NEW i \in Items PROVE ItemInv(i)'
  BY <1>2, SameItemInv DEF SameItem
<1> QED BY <1>1, <1>3

-----------------------------------------------------------------------------
(* The reports: one at a time, and each one kept.                          *)

\* Nothing is reported at the start.
LEMMA ReportInit == Init => ReportInv
BY SubmissionAssumption DEF Init, ReportInv, NoExit

\* Only a report moves an item beyond its result.
LEMMA StepInside ==
  ASSUME TypeOK, NEW i \in Items, Step(i), ~BeginReport(i), ~EndReport(i)
  PROVE  pc[i] \notin {"reporting", "done"} /\ pc'[i] \notin {"reporting", "done"}
<1>1. ASSUME NEW o, Land(i, o) PROVE pc'[i] = "landed"
  BY <1>1 DEF Land, TypeOK
<1> USE DEF TypeOK
<1>2. CASE Enter(i) \/ Send(i) \/ Unauthorized(i)
  BY <1>2 DEF Enter, Send, Unauthorized
<1>3. CASE Start(i) BY <1>3, <1>1 DEF Start
<1>4. CASE PutUnavailable(i) BY <1>4, <1>1 DEF PutUnavailable, Unanswered, PutFails
<1>5. CASE Backoff(i) BY <1>5, <1>1 DEF Backoff
<1>6. CASE PutBroken(i) BY <1>6, <1>1 DEF PutBroken, Unanswered, PutFails
<1>7. CASE NotSent(i) BY <1>7, <1>1 DEF NotSent
<1>8. CASE PutRefused(i) BY <1>8, <1>1 DEF PutRefused, PutFails
<1>9. CASE PolicyRejected(i) BY <1>9 DEF PolicyRejected
<1>10. CASE PutAccepted(i) BY <1>10, <1>1 DEF PutAccepted
<1>11. CASE ReadPolicies(i) BY <1>11 DEF ReadPolicies
<1>12. CASE WritePolicies(i) BY <1>12, <1>1 DEF WritePolicies
<1>13. CASE Read(i)
  <2>1. CASE Land(i, Classified(request[i], TRUE)) BY <1>13, <2>1, <1>1 DEF Read, Reading
  <2>2. CASE ~IsTerminalStatus(request[i]) BY <1>13, <2>2 DEF Read, Reading
  <2> QED BY <1>13, <2>1, <2>2 DEF Read
<1>14. CASE ReadFails(i) BY <1>14 DEF ReadFails, Reading
<1>15. CASE ReadForbidden(i) BY <1>15, <1>1 DEF ReadForbidden, Reading
<1>16. CASE BudgetSpent(i) BY <1>16, <1>1 DEF BudgetSpent
<1>17. CASE PollInterrupted(i) BY <1>17, <1>1 DEF PollInterrupted
<1>18. CASE Rejected(i) BY <1>18, <1>1 DEF Rejected, RejectedForGood, PutFails
<1> QED
  BY <1>2, <1>3, <1>4, <1>5, <1>6, <1>7, <1>8, <1>9, <1>10, <1>11, <1>12, <1>13, <1>14, <1>15,
     <1>16, <1>17, <1>18 DEF Step, Put, Drop, Poll

\* A step that leaves the reports alone, and no result that is reported.
LEMMA ReportSame ==
  ASSUME ReportInv, UNCHANGED <<reporter, copy, recorded, exit>>,
         \A j \in Items : pc[j] \in {"reporting", "done"} \/ pc'[j] \in {"reporting", "done"} =>
                           pc'[j] = pc[j] /\ outcome'[j] = outcome[j]
  PROVE  ReportInv'
BY DEF ReportInv

\* A report adds its result to all those before it.
LEMMA ReportKept ==
  ASSUME TypeOK, ReportInv, Next
  PROVE  ReportInv'
<1>1. ASSUME NEW i \in Items, BeginReport(i) PROVE ReportInv'
  <2>1. /\ pc[i] = "landed" /\ reporter = None /\ pc' = [pc EXCEPT ![i] = "reporting"]
        /\ reporter' = i /\ copy' = [copy EXCEPT ![i] = recorded]
        /\ UNCHANGED <<outcome, recorded, exit>>
    BY <1>1 DEF BeginReport
  <2>2. \A j \in Items : pc'[j] = "reporting" => j = i
    BY <2>1, SubmissionAssumption DEF ReportInv, TypeOK
  <2>3. \A j \in Items : pc'[j] = "done" <=> pc[j] = "done"
    BY <2>1 DEF TypeOK
  <2>4. exit = NoExit
    BY <2>1 DEF ReportInv
  <2> QED BY <2>1, <2>2, <2>3, <2>4 DEF ReportInv, TypeOK
<1>2. ASSUME NEW i \in Items, EndReport(i) PROVE ReportInv'
  <2>1. /\ pc[i] = "reporting" /\ pc' = [pc EXCEPT ![i] = "done"]
        /\ recorded' = copy[i] \union {j \in {i} : outcome[j] \in Recordable}
        /\ UNCHANGED <<outcome, exit>>
    BY <1>2 DEF EndReport, batch
  <2>2. reporter = i /\ copy[i] = recorded
    BY <2>1 DEF ReportInv
  <2>3. \A j \in Items : pc'[j] = "reporting" => FALSE
    BY <2>1, <2>2 DEF ReportInv, TypeOK
  <2>4. \A j \in Items : pc'[j] = "done" <=> pc[j] = "done" \/ j = i
    BY <2>1 DEF TypeOK
  <2>5. recorded' = {j \in Items : pc'[j] = "done" /\ outcome'[j] \in Recordable}
    BY <2>1, <2>2, <2>4 DEF ReportInv
  <2>6. exit = NoExit
    BY <2>1 DEF ReportInv
  <2> QED BY <2>1, <2>3, <2>5, <2>6 DEF ReportInv
<1>3. ASSUME NEW i \in Items, Step(i) \/ Settle(i), ~BeginReport(i), ~EndReport(i)
      PROVE  ReportInv'
  <2>1. UNCHANGED <<reporter, copy, recorded, exit>>
    BY <1>3 DEF Step, Settle, Enter, Start, Send, Unauthorized, Put, Drop, Poll, PutUnavailable,
                Backoff, PutBroken, NotSent, PutRefused, PolicyRejected, PutAccepted, ReadPolicies,
                WritePolicies, Read, ReadFails, ReadForbidden, BudgetSpent, PollInterrupted,
                Rejected, report, policy
  <2>2. CASE Settle(i)
    BY <2>1, <2>2, ReportSame DEF Settle, batch
  <2>3. CASE Step(i)
    <3>1. \A j \in Items \ {i} : pc'[j] = pc[j] /\ outcome'[j] = outcome[j]
      BY <2>3, OthersSame DEF SameItem
    <3>2. pc[i] \notin {"reporting", "done"} /\ pc'[i] \notin {"reporting", "done"}
      BY <1>3, <2>3, StepInside
    <3> QED BY <2>1, <3>1, <3>2, ReportSame
  <2> QED BY <1>3, <2>2, <2>3
<1>4. CASE Finish
  BY <1>4 DEF Finish, ReportInv, batch, report
<1>5. CASE Refresh \/ Distrust \/ Interrupt \/ Ended
  <2>1. UNCHANGED <<reporter, copy, recorded, exit, pc, outcome>>
    BY <1>5 DEF Refresh, BeginRefresh, Mint, StoreToken, Distrust, Interrupt, Ended, vars, batch, report
  <2> QED BY <2>1, ReportSame
<1> QED BY <1>1, <1>2, <1>3, <1>4, <1>5 DEF Next

-----------------------------------------------------------------------------
(* The exit code: nothing changes a result once the run has one.            *)

\* What an exit code says of the results it was made of (exitCodeFor).
LEMMA ExitCodeMeans ==
  ASSUME NEW results
  PROVE  /\ exitCodeFor(results) \in {0, 2} =>
              \A o \in {"FAILED", "STILL PENDING", "ABORTED", "SKIPPED"} : o \notin results
         /\ exitCodeFor(results) = 0 => "PENDING APPROVAL" \notin results
         /\ exitCodeFor(results) = 2 => "PENDING APPROVAL" \in results
<1>1. CASE results \intersect {"FAILED", "STILL PENDING", "ABORTED", "SKIPPED"} # {}
  <2>1. exitCodeFor(results) = 1
    BY <1>1 DEF exitCodeFor
  <2> QED BY <2>1
<1>2. CASE results \intersect {"FAILED", "STILL PENDING", "ABORTED", "SKIPPED"} = {}
  <2>1. "PENDING APPROVAL" \in results => exitCodeFor(results) = 2
    BY <1>2 DEF exitCodeFor
  <2>2. "PENDING APPROVAL" \notin results => exitCodeFor(results) = 0
    BY <1>2 DEF exitCodeFor
  <2>3. \A o \in {"FAILED", "STILL PENDING", "ABORTED", "SKIPPED"} : o \notin results
    BY <1>2
  <2>4. 2 # 0 OBVIOUS
  <2> QED BY <2>1, <2>2, <2>3, <2>4
<1> QED BY <1>1, <1>2

\* Finish reads the results, and no step changes them afterwards.
LEMMA ExitKept ==
  ASSUME TypeOK, ReportInv, ExitInv, Next
  PROVE  ExitInv'
<1>1. CASE Finish
  <2>1. exit' \in {0, 2} => exit' = exitCodeFor({outcome[i] : i \in Items})
    BY <1>1 DEF Finish
  <2>2. outcome' = outcome
    BY <1>1 DEF Finish, batch
  <2> QED BY <2>1, <2>2, ExitCodeMeans DEF ExitInv
<1>2. CASE ~Finish /\ exit = NoExit
  <2>1. exit' = NoExit
    BY <1>2 DEF Next, Refresh, BeginRefresh, Mint, StoreToken, Distrust, Interrupt, Ended, Settle,
                Step, Enter, Start, Send, Unauthorized, Put, Drop, Poll, PutUnavailable, Backoff,
                PutBroken, NotSent, PutRefused, PolicyRejected, PutAccepted, ReadPolicies,
                WritePolicies, Read, ReadFails, ReadForbidden, BudgetSpent, PollInterrupted,
                Rejected, BeginReport, EndReport
  <2>2. exit' \notin {0, 2}
    BY <2>1 DEF NoExit
  <2> QED BY <2>2 DEF ExitInv
<1>3. CASE exit # NoExit
  <2>1. \A i \in Items : pc[i] = "done"
    BY <1>3 DEF ReportInv
  <2>2. ASSUME NEW i \in Items PROVE ~Step(i)
    BY <2>1, StepInside DEF BeginReport, EndReport
  <2>3. UNCHANGED <<outcome, exit>>
    BY <1>3, <2>2 DEF Next, Settle, Refresh, BeginRefresh, Mint, StoreToken, Distrust, Interrupt,
                      Finish, Ended, vars, batch
  <2> QED BY <2>3 DEF ExitInv
<1> QED BY <1>1, <1>2, <1>3

-----------------------------------------------------------------------------
(* The invariant, and what it says.                                        *)

\* Every initial state satisfies the invariant.
LEMMA InvInit == Init => Inv
<1> SUFFICES ASSUME Init PROVE Inv
  OBVIOUS
<1>1. TypeOK
  <2>1. 0 \in 0..MaxRetries /\ -1 \in -1..2
    BY SubmissionAssumption
  <2>2. bearer \in Tokens /\ cache \in Tokens /\ trusted \subseteq Tokens
    BY DEF Init, Tokens
  <2>3. plan \in [Items -> {"send", "keep", "unprepared"}]
    BY DEF Init
  <2> QED BY <2>1, <2>2, <2>3 DEF Init, TypeOK, Statuses, Outcomes
<1>2. ASSUME NEW i \in Items PROVE ItemInv(i)
  BY DEF Init, ItemInv, Landed
<1>3. ExitInv
  BY DEF Init, ExitInv, NoExit
<1> QED BY <1>1, <1>2, <1>3, ReportInit DEF Inv

\* Every step keeps it.
LEMMA InvStep == Inv /\ [Next]_vars => Inv'
<1> SUFFICES ASSUME Inv, [Next]_vars PROVE Inv'
  OBVIOUS
<1>1. TypeOK /\ (\A i \in Items : ItemInv(i)) /\ ReportInv /\ ExitInv
  BY DEF Inv
<1>2. ASSUME NEW i \in Items, Step(i) \/ Settle(i)
      PROVE  TypeOK' /\ \A j \in Items : ItemInv(j)'
  <2>1. TypeOK' /\ ItemInv(i)'
    BY <1>1, <1>2, CallStep, PutStep, DropStep, PollStep, RejectedStep, ReportStep, SettleStep
    DEF Step, Put, Drop
  <2>2. RequestType' = RequestType
    BY <1>2 DEF Step, Settle, Enter, Start, Send, Unauthorized, Put, Drop, Poll, PutUnavailable,
                Backoff, PutBroken, NotSent, PutRefused, PolicyRejected, PutAccepted, ReadPolicies,
                WritePolicies, Read, ReadFails, ReadForbidden, BudgetSpent, PollInterrupted,
                Rejected, BeginReport, EndReport, asked
  <2>3. ASSUME NEW j \in Items \ {i} PROVE ItemInv(j)'
    BY <1>1, <1>2, <2>2, OthersSame, SameItemInv
  <2> QED BY <2>1, <2>3
<1>3. ASSUME Refresh \/ Distrust \/ Interrupt \/ Finish \/ Ended \/ UNCHANGED vars
      PROVE  TypeOK' /\ \A i \in Items : ItemInv(i)'
  BY <1>1, <1>3, SessionKeeps DEF Ended
<1>4. TypeOK' /\ \A i \in Items : ItemInv(i)'
  BY <1>2, <1>3 DEF Next
<1>5. CASE UNCHANGED vars
  <2>1. ReportInv'
    BY <1>1, <1>5 DEF ReportInv, vars, batch, report
  <2>2. ExitInv'
    BY <1>1, <1>5 DEF ExitInv, vars, batch
  <2> QED BY <1>4, <2>1, <2>2 DEF Inv
<1>6. CASE Next
  BY <1>1, <1>4, <1>6, ReportKept, ExitKept DEF Inv
<1> QED BY <1>5, <1>6

\* So it holds throughout.
LEMMA Invariant == Spec => []Inv
BY InvInit, InvStep, PTL DEF Spec

\* Every variable keeps its type.
THEOREM TypeCorrect == Spec => []TypeOK
<1>1. Inv => TypeOK
  BY DEF Inv
<1> QED BY <1>1, Invariant, PTL

\* A role is said to have been activated or given up only if ARM did it
\* (classifyRequest and the type-aware predicates).
THEOREM ClaimsAreGranted == Spec => []ClaimedIsGranted
<1>1. Inv => ClaimedIsGranted
  BY DEF Inv, ItemInv, Fits, ClaimedIsGranted, SuccessOutcome
<1> QED BY <1>1, Invariant, PTL

\* A role is said to be refused or never tried only if ARM has not granted its
\* request, or granted one whose answer never arrived (activateOne,
\* pollToOutcome, classifyUnread).
THEOREM DenialsAreNotGranted == Spec => []DeniedIsNotGranted
<1>1. Inv => DeniedIsNotGranted
  BY DEF Inv, ItemInv, Fits, DeniedIsNotGranted, Granted
<1> QED BY <1>1, Invariant, PTL

\* Every outcome worth recording is in the record when the run ends (submitAll,
\* onEachResult).
THEOREM EveryResultRecorded == Spec => []AllRecorded
<1>1. Inv => AllRecorded
  BY DEF Inv, ReportInv, AllRecorded
<1> QED BY <1>1, Invariant, PTL

\* Of a batch that waits, exit 0 means every role is as it was asked to be, and
\* exit 2 that nothing failed and an approver holds a request (exitCodeFor, run).
THEOREM ExitIsTrue == Spec => []ExitTellsTheTruth
<1>1. ASSUME Inv PROVE ExitTellsTheTruth
  <2>1. ASSUME exit \in {0, 2}, NEW i \in Items
        PROVE  /\ outcome[i] \in Outcomes \ {"none", "FAILED", "STILL PENDING", "ABORTED", "SKIPPED"}
               /\ Fits(i, outcome[i])
    <3>1. exit # NoExit
      BY <2>1 DEF NoExit
    <3>2. outcome[i] # "none" /\ Fits(i, outcome[i])
      BY <1>1, <3>1 DEF Inv, ReportInv, ItemInv, Landed
    <3>3. outcome[i] \notin {"FAILED", "STILL PENDING", "ABORTED", "SKIPPED"}
      BY <1>1, <2>1 DEF Inv, ExitInv
    <3>4. outcome[i] \in Outcomes
      BY <1>1 DEF Inv, TypeOK
    <3> QED BY <3>2, <3>3, <3>4
  <2>2. ASSUME exit = 0, ~NoWait, NEW i \in Items
        PROVE  Granted(i) \/ outcome[i] \in {"ALREADY ACTIVE", "NOT ACTIVE"}
    <3>1. outcome[i] # "PENDING APPROVAL"
      BY <1>1, <2>2 DEF Inv, ExitInv
    <3> QED BY <2>1, <2>2, <3>1 DEF Fits, Outcomes
  <2>3. ASSUME exit = 2 PROVE \E i \in Items : request[i] = "approval"
    <3>1. PICK i \in Items : outcome[i] = "PENDING APPROVAL"
      BY <1>1, <2>3 DEF Inv, ExitInv
    <3>2. Fits(i, "PENDING APPROVAL")
      BY <2>1, <2>3, <3>1
    <3> QED BY <3>2 DEF Fits
  <2>4. ASSUME exit = 2, ~NoWait, NEW i \in Items, request[i] = "failed"
        PROVE  i \in unheard
    BY <2>1, <2>4 DEF Fits, Granted, Outcomes
  <2> QED BY <2>2, <2>3, <2>4 DEF ExitTellsTheTruth
<1> QED BY <1>1, Invariant, PTL

=============================================================================
