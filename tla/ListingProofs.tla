--------------------------- MODULE ListingProofs ---------------------------
(***************************************************************************)
(* Theorems about Listing, for every set of contexts and scopes and every  *)
(* page and fan-out limit: what a listing missed is marked unread, no      *)
(* context is forgotten, nothing is given up that was not read, and what   *)
(* is cached is complete.                                                  *)
(***************************************************************************)
EXTENDS Listing, TLAPS

-----------------------------------------------------------------------------
(* What each call has read, and what is asked for.                         *)

\* A context's scopes.
Inside(c) == {s \in Scopes : ContextOf[s] = c}

\* A call that reads a scope, not a whole context or its eligibilities.
OfScope(t) == t[2] \notin {Whole, Eligibilities}

\* The calls a listing may be given: each at a scope of its context, or all of it.
Askable(set) == \A t \in set : t \in Contexts \X ScopeIds /\ (t[2] # Whole => ContextOf[t[2]] = t[1])

MarkedWhole(c) == \E u \in res.unconfirmed : u.context = c /\ u.id = Whole

CallsInv == calls \in [Targets -> [state : CallStates, pages : Nat, got : SUBSET Scopes]]

EligibleInv ==
  /\ visible \subseteq Scopes
  /\ cache \in [Contexts -> {NoCache} \union SUBSET Scopes]
  /\ \A c \in Contexts : cache[c] # NoCache => cache[c] \subseteq Inside(c)
  /\ \A c \in Contexts : eligible[c] \subseteq Inside(c)
  /\ \A c \in Contexts : calls[Elig(c)].got \subseteq Inside(c)
  /\ \A c \in Contexts : calls[Elig(c)].state \in {"none", "reading", "read", "failed"}

AskedInv ==
  /\ sessions \subseteq Contexts
  /\ Askable(given) /\ Askable(targets)
  /\ \A t \in given : calls[Elig(t[1])].state = "read"

\* Where the command and its listing can be: opening comes before everything,
\* and nothing is asked for before the listing starts.
OrderInv ==
  /\ phase \in {"opening", "eligibility"} => stage = "idle"
  /\ phase = "opening" => given = {}
  /\ phase = "local" /\ command = "status" => stage = "idle"
  /\ stage \in {"idle", "starting", "eligibility"} => targets = {}

\* What a call at a scope has read in full is what ARM shows there.
ReadInv ==
  \A t \in targets : OfScope(t) /\ calls[t].state = "read" =>
    calls[t].got = visible \intersect Under[t[2]]

\* What the tally holds once the listing is in.
LandedInv ==
  stage = "landed" => \A t \in targets :
    /\ Finished(t)
    /\ calls[t].state = "read" => calls[t].got \subseteq res.rows
    /\ calls[t].state # "read" => \E u \in res.unconfirmed : u.context = t[1] /\ u.id = t[2]

Asking == stage \in {"fanOut", "tenantWide", "landed"}

\* From its start the listing has an account of every context, and of every role
\* that was in the record then.
AccountInv ==
  Asking => \A c \in sessions :
    calls[Elig(c)].state = "read" \/ <<c, Whole>> \in targets \/ MarkedWhole(c)

RecordedInv ==
  Asking => \A s \in Scopes \ unnamed : ContextOf[s] \in sessions =>
    \/ <<ContextOf[s], s>> \in targets \/ <<ContextOf[s], Whole>> \in targets
    \/ MarkedWhole(ContextOf[s])

\* What the command read of the record is of its own contexts.
LocalInv ==
  \A s \in Scopes : local[s] # "none" => phase # "opening" /\ ContextOf[s] \in sessions

ReportInv == {"lost", "named", "exit"} \subseteq DOMAIN report

ShapeInv == CallsInv /\ EligibleInv /\ AskedInv /\ OrderInv
ListingInv == ShapeInv /\ ReadInv /\ LandedInv /\ AccountInv /\ RecordedInv /\ LocalInv /\ ReportInv

\* A run starts with nothing asked and nothing read.
LEMMA ListingInit == Init => ListingInv
<1> SUFFICES ASSUME Init PROVE ListingInv
  OBVIOUS
<1> USE ListingAssumption
<1>1. visible \subseteq Scopes /\ cache \in [Contexts -> {NoCache} \union SUBSET Scopes]
  BY DEF Init
<1>2. ASSUME NEW c \in Contexts PROVE eligible[c] \subseteq Inside(c)
  BY DEF Init, Inside
<1>3. ASSUME NEW c \in Contexts, cache[c] # NoCache PROVE cache[c] \subseteq Inside(c)
  <2>1. cache[c] \in Eligible[c] /\ cache[c] \subseteq Scopes
    BY <1>3 DEF Init
  <2>2. \A s \in cache[c] : ContextOf[s] = c
    BY <2>1
  <2> QED BY <2>1, <2>2 DEF Inside
<1>4. calls \in [Targets -> [state : CallStates, pages : Nat, got : SUBSET Scopes]]
  BY DEF Init, NoCall, CallStates
<1>5. \A c \in Contexts : Elig(c) \in Targets /\ calls[Elig(c)].got = {} /\ calls[Elig(c)].state = "none"
  BY DEF Init, NoCall, Elig, Targets
<1> QED BY <1>1, <1>2, <1>3, <1>4, <1>5
         DEF Init, ListingInv, ShapeInv, CallsInv, EligibleInv, AskedInv, OrderInv, ReadInv, LandedInv,
             AccountInv, RecordedInv, LocalInv, ReportInv, NoReport, Asking, Askable

-----------------------------------------------------------------------------
(* Lemmas about the pure functions.                                        *)

\* A context is one of the calls' own.
LEMMA EligIsTarget == \A c \in Contexts : Elig(c) \in Targets /\ Elig(c)[1] = c /\ Elig(c)[2] = Eligibilities
BY DEF Elig, Targets

\* The scopes eligibilities give are askable, and of a context that was read.
LEMMA KnownAskable ==
  ASSUME CallsInv, EligibleInv, sessions \subseteq Contexts
  PROVE  Askable(KnownScopes) /\ \A t \in KnownScopes : t[1] \in sessions /\ calls[Elig(t[1])].state = "read"
<1> SUFFICES ASSUME NEW c \in ReadEligibilities, NEW t \in ScopesFor(c, calls[Elig(c)].got)
             PROVE  /\ t \in Contexts \X ScopeIds /\ (t[2] # Whole => ContextOf[t[2]] = t[1])
                    /\ t[1] \in sessions /\ calls[Elig(t[1])].state = "read"
  BY DEF Askable, KnownScopes
<1>1. c \in Contexts /\ c \in sessions /\ calls[Elig(c)].state = "read" /\ calls[Elig(c)].got \subseteq Inside(c)
  BY DEF ReadEligibilities, EligibleInv
<1>2. t[1] = c /\ (t = <<c, Whole>> \/ t \in {c} \X calls[Elig(c)].got)
  BY DEF ScopesFor
<1> QED BY <1>1, <1>2 DEF Inside, ScopeIds

\* A context that was read gives at least one scope.
LEMMA KnownOfRead == \A c \in ReadEligibilities : \E t \in KnownScopes : t[1] = c
<1> SUFFICES ASSUME NEW c \in ReadEligibilities
             PROVE  \E t \in ScopesFor(c, calls[Elig(c)].got) : t[1] = c
  BY DEF KnownScopes
<1>1. CASE calls[Elig(c)].got = {}
  BY <1>1 DEF ScopesFor
<1>2. CASE calls[Elig(c)].got # {}
  <2>1. PICK s \in calls[Elig(c)].got : TRUE
    BY <1>2
  <2>2. <<c, s>> \in ScopesFor(c, calls[Elig(c)].got)
    BY <1>2, <2>1 DEF ScopesFor
  <2> QED BY <2>2
<1> QED BY <1>1, <1>2

\* The recorded scopes are askable too.
LEMMA RecordedAskable ==
  ASSUME sessions \subseteq Contexts, NEW scopes, Askable(scopes)
  PROVE  /\ Askable(withRecordedScopes(scopes)) /\ scopes \subseteq withRecordedScopes(scopes)
         /\ \A s \in Scopes : record[s] # "none" /\ ContextOf[s] \in sessions =>
              <<ContextOf[s], s>> \in withRecordedScopes(scopes)
BY ListingAssumption DEF Askable, withRecordedScopes, ScopeIds


\* What one step may leave of a call.
CallRecords == [state : CallStates, pages : Nat, got : SUBSET Scopes]
Left(t, k) ==
  /\ k.state = "read" =>
       /\ OfScope(t) => k.got = visible \intersect Under[t[2]]
       /\ t[2] = Eligibilities => k.got = eligible[t[1]]
  /\ t[2] = Eligibilities => k.got \subseteq calls[t].got \union eligible[t[1]]
  /\ t \notin targets => k.state \in {"reading", "read", "failed"}

\* One call of the listing changes that call alone, and the cache when it has
\* read a context's eligibilities.
LEMMA CallChanges ==
  ASSUME CallsInv, EligibleInv, NEW t \in Targets, Call(t)
  PROVE  /\ \E k \in CallRecords : calls' = [calls EXCEPT ![t] = k] /\ Left(t, k)
         /\ calls[t].state \in {"queued", "reading"}
         /\ cache' = cache \/ (t[2] = Eligibilities /\ cache' = [cache EXCEPT ![t[1]] = eligible[t[1]]])
<1> USE ListingAssumption DEF CallsInv
<1>1. calls[t] \in CallRecords
  BY DEF CallRecords
<1>2. ASSUME NEW how \in {"reading", "failed", "throttled", "late"}, Move(t, how),
             t \notin targets => how \in {"reading", "failed"}
      PROVE  \E k \in CallRecords : calls' = [calls EXCEPT ![t] = k] /\ Left(t, k)
  <2> DEFINE k == [NoCall EXCEPT !.state = how]
  <2>1. k \in CallRecords /\ k.state = how /\ k.got = {}
    BY DEF NoCall, CallStates, CallRecords
  <2>2. calls' = [calls EXCEPT ![t] = k]
    BY <1>2 DEF Move
  <2> HIDE DEF k
  <2>3. Left(t, k)
    BY <1>2, <2>1 DEF Left
  <2> QED BY <2>1, <2>2, <2>3
<1>3. CASE StartCall(t)
  <2>1. Move(t, "reading") /\ calls[t].state = "queued" /\ cache' = cache
    BY <1>3 DEF StartCall, files
  <2> QED BY <1>2, <2>1
<1>4. CASE Refuse(t)
  <2>1. /\ Move(t, "failed") \/ (t \in targets /\ Move(t, "throttled"))
        /\ calls[t].state = "reading" /\ cache' = cache
    BY <1>4 DEF Refuse, HasDeadline, files
  <2> QED BY <1>2, <2>1
<1>5. CASE MissDeadline(t)
  <2>1. t \in targets /\ Move(t, "late") /\ calls[t].state = "reading" /\ cache' = cache
    BY <1>5 DEF MissDeadline, HasDeadline, files
  <2> QED BY <1>2, <2>1
<1>6. CASE ReadPage(t)
  <2>0. PICK answer \in Answers(t) : \E part \in SUBSET answer, more \in BOOLEAN :
          LET pages == calls[t].pages + 1
              got   == calls[t].got \union part
              how   == IF more THEN MoreAfter(pages) ELSE "read"
          IN  /\ more \/ got = answer
              /\ calls' = [calls EXCEPT ![t] =
                   [state |-> how, pages |-> IF how = "reading" THEN pages ELSE 0,
                    got |-> IF how = "failed" THEN {} ELSE got]]
              /\ cache' = IF how = "read" /\ t[2] = Eligibilities THEN [cache EXCEPT ![t[1]] = got] ELSE cache
    BY <1>6 DEF ReadPage
  <2>1. PICK part \in SUBSET answer, more \in BOOLEAN :
          LET pages == calls[t].pages + 1
              got   == calls[t].got \union part
              how   == IF more THEN MoreAfter(pages) ELSE "read"
          IN  /\ more \/ got = answer
              /\ calls' = [calls EXCEPT ![t] =
                   [state |-> how, pages |-> IF how = "reading" THEN pages ELSE 0,
                    got |-> IF how = "failed" THEN {} ELSE got]]
              /\ cache' = IF how = "read" /\ t[2] = Eligibilities THEN [cache EXCEPT ![t[1]] = got] ELSE cache
    BY <2>0
  <2> DEFINE pages == calls[t].pages + 1
             got   == calls[t].got \union part
             how   == IF more THEN MoreAfter(pages) ELSE "read"
             k     == [state |-> how, pages |-> IF how = "reading" THEN pages ELSE 0,
                       got |-> IF how = "failed" THEN {} ELSE got]
  <2>2. answer \subseteq Scopes /\ (t[2] = Eligibilities => answer = eligible[t[1]])
        /\ (OfScope(t) => answer = visible \intersect Under[t[2]])
    <3>1. t[1] \in Contexts /\ t[2] \in ScopeIds \union {Eligibilities}
      BY DEF Targets
    <3>2. CASE t[2] = Eligibilities
      BY <3>1, <3>2 DEF Answers, OfScope, EligibleInv, Inside
    <3>3. CASE t[2] = Whole
      BY <3>3 DEF Answers, OfScope, EligibleInv
    <3>4. CASE OfScope(t)
      BY <3>4 DEF Answers, OfScope, EligibleInv
    <3> QED BY <3>2, <3>3, <3>4 DEF OfScope
  <2>3. how \in {"read", "reading", "failed"} /\ (how = "read" => ~more /\ got = answer)
    BY <2>1 DEF MoreAfter
  <2>4. pages \in Nat /\ got \subseteq Scopes
    BY <1>1, <2>2 DEF CallRecords
  <2>5. k \in CallRecords /\ k.state = how /\ k.got = IF how = "failed" THEN {} ELSE got
    BY <2>3, <2>4 DEF CallStates, CallRecords
  <2>6. calls' = [calls EXCEPT ![t] = k]
        /\ cache' = IF how = "read" /\ t[2] = Eligibilities THEN [cache EXCEPT ![t[1]] = got] ELSE cache
    BY <2>1
  <2>7. got \subseteq calls[t].got \union answer /\ calls[t].state = "reading"
    BY <1>6 DEF ReadPage
  <2> HIDE DEF k, how, got, pages
  <2>8. Left(t, k)
    BY <2>2, <2>3, <2>5, <2>7 DEF Left
  <2> QED BY <2>2, <2>3, <2>5, <2>6, <2>7, <2>8
<1> QED BY <1>3, <1>4, <1>5, <1>6 DEF Call

-----------------------------------------------------------------------------
(* The steps.  Those that leave the listing alone are taken together.       *)

Quiet == Reconcile \/ Report \/ Note \/ Finish \/ Exit \/ Interrupt \/ Ended \/ UNCHANGED vars
         \/ \E s \in Scopes : RecordElsewhere(s)

\* What a quiet step leaves alone.
LEMMA QuietLeaves ==
  ASSUME Quiet
  PROVE  /\ UNCHANGED <<command, eligible, visible, cache, sessions, given, listErrs, stage, calls, targets, res, local>>
         /\ phase' = phase \/ (phase' \in {"reporting", "finishing", "done"} /\ phase \notin {"opening", "eligibility", "local"})
BY DEF Quiet, Reconcile, Report, Note, Finish, Exit, Interrupt, Ended, RecordElsewhere, vars, asked, arm,
       files, listing

\* A listing that starts its fan-out asks for the scopes it was given and those of the record.
LEMMA FanOutStarts ==
  ASSUME CallsInv, AskedInv, NEW scopes, Askable(scopes), NEW errs, NEW marks, StartFanOut(scopes, errs, marks)
  PROVE  /\ stage' = "fanOut" /\ Askable(targets') /\ scopes \subseteq targets'
         /\ calls' \in [Targets -> CallRecords]
         /\ \A t \in targets' : calls'[t].state = "queued"
         /\ \A c \in Contexts : calls'[Elig(c)] = calls[Elig(c)]
         /\ \A s \in Scopes \ unnamed' : ContextOf[s] \in sessions => <<ContextOf[s], s>> \in targets'
         /\ res'.unconfirmed = marks \union {Unread(c, Whole, FALSE) : c \in Uncovered(scopes, marks)}
         /\ res'.errs = errs
<1> DEFINE asks == withRecordedScopes(scopes)
<1>1. Askable(asks) /\ scopes \subseteq asks
      /\ \A s \in Scopes : record[s] # "none" /\ ContextOf[s] \in sessions => <<ContextOf[s], s>> \in asks
  BY RecordedAskable DEF AskedInv
<1>2. /\ stage' = "fanOut" /\ targets' = asks /\ unnamed' = {s \in Scopes : record[s] = "none"}
      /\ calls' = [t \in Targets |-> IF t \in asks THEN [NoCall EXCEPT !.state = "queued"] ELSE calls[t]]
      /\ res'.unconfirmed = marks \union {Unread(c, Whole, FALSE) : c \in Uncovered(scopes, marks)}
      /\ res'.errs = errs
  BY DEF StartFanOut, CallsOf
<1> HIDE DEF asks
<1>3. \A t \in asks : t \in Targets /\ t[2] # Eligibilities
  BY <1>1, ListingAssumption DEF Askable, Targets, ScopeIds
<1>4. \A c \in Contexts : Elig(c) \in Targets /\ Elig(c) \notin asks
  BY <1>3, EligIsTarget
<1>5. [NoCall EXCEPT !.state = "queued"] \in CallRecords /\ [NoCall EXCEPT !.state = "queued"].state = "queued"
  BY DEF NoCall, CallRecords, CallStates
<1>6. calls' \in [Targets -> CallRecords]
  BY <1>2, <1>5 DEF CallsInv, CallRecords
<1>7. \A t \in targets' : calls'[t].state = "queued"
  BY <1>2, <1>3, <1>5
<1>8. \A c \in Contexts : calls'[Elig(c)] = calls[Elig(c)]
  BY <1>2, <1>4
<1> QED BY <1>1, <1>2, <1>6, <1>7, <1>8

\* A tenant-wide listing asks for every context as a whole.
LEMMA TenantWideStarts ==
  ASSUME CallsInv, AskedInv, StartTenantWide
  PROVE  /\ stage' = "tenantWide" /\ targets' = sessions \X {Whole} /\ Askable(targets')
         /\ calls' \in [Targets -> CallRecords]
         /\ \A c \in Contexts : calls'[Elig(c)] = calls[Elig(c)]
<1>1. [NoCall EXCEPT !.state = "reading"] \in CallRecords
  BY DEF NoCall, CallRecords, CallStates
<1>2. \A c \in Contexts : Elig(c) \in Targets /\ Elig(c) \notin sessions \X {Whole}
  BY EligIsTarget, ListingAssumption
<1> QED BY <1>1, <1>2 DEF StartTenantWide, CallsInv, AskedInv, Askable, ScopeIds, CallRecords

\* The first step of a context's eligibilities is the cache's answer or a question.
LEMMA EligibilityAsked ==
  ASSUME EligibleInv, NEW c \in Contexts
  PROVE  /\ EligibilityCall(c) \in CallRecords /\ EligibilityCall(c).got \subseteq Inside(c)
         /\ EligibilityCall(c).state \in {"reading", "read"}
         /\ NoCall \in CallRecords /\ NoCall.got = {} /\ NoCall.state = "none"
BY DEF EligibleInv, EligibilityCall, CallRecords, CallStates, NoCall

\* Every step keeps the listing's variables in shape.
LEMMA ShapeStep == ShapeInv /\ [Next]_vars => ShapeInv'
<1> SUFFICES ASSUME ShapeInv, [Next]_vars PROVE ShapeInv'
  OBVIOUS
<1>0. CallsInv /\ EligibleInv /\ AskedInv /\ OrderInv /\ sessions \subseteq Contexts
      /\ \A c \in Contexts : Elig(c) \in Targets
  BY EligIsTarget DEF ShapeInv, AskedInv
<1>1. CASE Quiet
  BY <1>0, <1>1, QuietLeaves DEF ShapeInv, CallsInv, EligibleInv, AskedInv, OrderInv, Askable
<1>2. ASSUME NEW f, calls' = [t \in Targets |-> f[t]], \A t \in Targets : f[t] \in CallRecords,
             \A c \in Contexts : f[Elig(c)].got \subseteq Inside(c)
                                 /\ f[Elig(c)].state \in {"none", "reading", "read", "failed"},
             UNCHANGED <<cache, eligible, visible>>
      PROVE  CallsInv' /\ EligibleInv'
  BY <1>0, <1>2 DEF CallsInv, EligibleInv, CallRecords
<1>3. CASE Open
  <2>1. phase = "opening" /\ stage = "idle" /\ targets = {} /\ given = {}
    BY <1>0, <1>3 DEF Open, OrderInv
  <2>2. PICK opened \in SUBSET Contexts :
          /\ sessions' = opened
          /\ \/ UNCHANGED calls
             \/ calls' = [t \in Targets |->
                    IF t[2] = Eligibilities /\ t[1] \in opened THEN EligibilityCall(t[1]) ELSE NoCall]
          /\ phase' \in {"done", "local", "eligibility"}
    BY <1>3 DEF Open
  <2>3. UNCHANGED <<command, cache, eligible, visible, given, stage, targets, res>>
    BY <1>3 DEF Open, asked, arm, files
  <2>4. CallsInv' /\ EligibleInv'
    <3>1. CASE UNCHANGED calls
      BY <1>0, <2>3, <3>1 DEF CallsInv, EligibleInv
    <3>2. CASE calls' = [t \in Targets |->
                    IF t[2] = Eligibilities /\ t[1] \in opened THEN EligibilityCall(t[1]) ELSE NoCall]
      <4> DEFINE f == calls'
      <4>1. ASSUME NEW t \in Targets PROVE f[t] \in CallRecords
        BY <1>0, <3>2, EligibilityAsked DEF CallRecords, NoCall, CallStates
      <4>2. ASSUME NEW c \in Contexts
            PROVE  f[Elig(c)].got \subseteq Inside(c) /\ f[Elig(c)].state \in {"none", "reading", "read", "failed"}
        <5>1. f[Elig(c)] \in {EligibilityCall(c), NoCall}
          BY <1>0, <3>2, EligIsTarget
        <5> QED BY <1>0, <5>1, EligibilityAsked
      <4>3. f = [t \in Targets |-> f[t]]
        BY <3>2
      <4> HIDE DEF f
      <4>4. calls' = [t \in Targets |-> f[t]]
        BY <4>3 DEF f
      <4> QED BY <1>2, <2>3, <4>1, <4>2, <4>4
    <3> QED BY <2>2, <3>1, <3>2
  <2> QED BY <1>0, <2>1, <2>2, <2>3, <2>4 DEF ShapeInv, AskedInv, OrderInv, Askable
<1>4. CASE GatherEligibilities
  <2>1. /\ given' = KnownScopes /\ stage' = "starting" /\ phase = "eligibility"
        /\ phase' \in {"finishing", "local", "waiting"} /\ (phase' = "local" => command = "list")
        /\ UNCHANGED <<command, cache, eligible, visible, sessions, calls, targets, res>>
    BY <1>4 DEF GatherEligibilities, asked, arm, files
  <2>2. targets = {}
    BY <1>0, <2>1 DEF OrderInv
  <2>3. Askable(KnownScopes) /\ \A t \in KnownScopes : calls[Elig(t[1])].state = "read"
    BY <1>0, KnownAskable
  <2> QED BY <1>0, <2>1, <2>2, <2>3 DEF ShapeInv, CallsInv, EligibleInv, AskedInv, OrderInv, Askable
<1>5. CASE ReadLocal
  BY <1>0, <1>5 DEF ReadLocal, ShapeInv, CallsInv, EligibleInv, AskedInv, OrderInv, Askable, asked, arm, files
<1>6. CASE StartListing
  <2>1. /\ stage = "starting" /\ phase \notin {"opening", "eligibility"} /\ ~(phase = "local" /\ command = "status")
        /\ targets = {}
        /\ UNCHANGED <<command, cache, eligible, visible, sessions, given, phase>>
    BY <1>0, <1>6 DEF StartListing, OrderInv, asked, arm, files
  <2>2. CASE StartTenantWide
    <3>1. /\ stage' = "tenantWide" /\ Askable(targets') /\ calls' \in [Targets -> CallRecords]
          /\ \A c \in Contexts : calls'[Elig(c)] = calls[Elig(c)]
      BY <1>0, <2>2, TenantWideStarts
    <3> QED BY <1>0, <2>1, <3>1 DEF ShapeInv, CallsInv, EligibleInv, AskedInv, OrderInv, Askable, CallRecords
  <2>3. CASE StartFanOut(given, {}, {})
    <3>1. /\ stage' = "fanOut" /\ Askable(targets') /\ calls' \in [Targets -> CallRecords]
          /\ \A c \in Contexts : calls'[Elig(c)] = calls[Elig(c)]
      BY <1>0, <2>3, FanOutStarts DEF AskedInv
    <3> QED BY <1>0, <2>1, <3>1 DEF ShapeInv, CallsInv, EligibleInv, AskedInv, OrderInv, Askable, CallRecords
  <2>4. CASE given = {} /\ stage' = "eligibility" /\ calls' = [t \in Targets |-> NoCall] /\ UNCHANGED <<targets, res>>
    <3>1. NoCall \in CallRecords /\ NoCall.got = {} /\ NoCall.state = "none"
      BY DEF NoCall, CallRecords, CallStates
    <3> QED BY <1>0, <2>1, <2>4, <3>1 DEF ShapeInv, CallsInv, EligibleInv, AskedInv, OrderInv, Askable, CallRecords
  <2> QED BY <1>6, <2>2, <2>3, <2>4 DEF StartListing
<1>7. CASE ReadNextEligibility
  <2>1. /\ stage = "eligibility"
        /\ UNCHANGED <<command, cache, eligible, visible, sessions, given, phase, stage, targets, res>>
    BY <1>7 DEF ReadNextEligibility, asked, arm, files
  <2>2. PICK c \in sessions : calls' = [calls EXCEPT ![Elig(c)] = EligibilityCall(c)] /\ calls[Elig(c)].state = "none"
    BY <1>7 DEF ReadNextEligibility
  <2>3. /\ EligibilityCall(c) \in CallRecords /\ EligibilityCall(c).got \subseteq Inside(c)
        /\ EligibilityCall(c).state \in {"reading", "read"}
    BY <1>0, EligibilityAsked
  <2>4. \A d \in Contexts : d # c => Elig(d) # Elig(c)
    BY <1>0, EligIsTarget
  <2>5. CallsInv'
    BY <1>0, <2>2, <2>3 DEF CallsInv, CallRecords
  <2>6. EligibleInv'
    BY <1>0, <2>1, <2>2, <2>3, <2>4 DEF CallsInv, EligibleInv
  <2>7. \A t \in given : calls'[Elig(t[1])].state = "read"
    BY <1>0, <2>2, <2>3, <2>4 DEF CallsInv, AskedInv, Askable
  <2> QED BY <1>0, <2>1, <2>5, <2>6, <2>7 DEF ShapeInv, AskedInv, OrderInv, Askable
<1>8. CASE UseEligibility
  <2>1. /\ stage = "eligibility" /\ phase \notin {"opening", "eligibility"} /\ ~(phase = "local" /\ command = "status")
        /\ targets = {}
        /\ UNCHANGED <<command, cache, eligible, visible, sessions, given, phase>>
    BY <1>0, <1>8 DEF UseEligibility, OrderInv, asked, arm, files
  <2>2. CASE stage' = "landed" /\ UNCHANGED <<calls, targets>>
    BY <1>0, <2>1, <2>2 DEF ShapeInv, CallsInv, EligibleInv, AskedInv, OrderInv, Askable
  <2>3. ASSUME NEW errs, NEW marks, StartFanOut(KnownScopes, errs, marks) PROVE ShapeInv'
    <3>1. Askable(KnownScopes)
      BY <1>0, KnownAskable
    <3>2. /\ stage' = "fanOut" /\ Askable(targets') /\ calls' \in [Targets -> CallRecords]
          /\ \A c \in Contexts : calls'[Elig(c)] = calls[Elig(c)]
      BY <1>0, <2>3, <3>1, FanOutStarts
    <3> QED BY <1>0, <2>1, <3>2 DEF ShapeInv, CallsInv, EligibleInv, AskedInv, OrderInv, Askable, CallRecords
  <2> QED BY <1>8, <2>2, <2>3 DEF UseEligibility
<1>9. CASE Land
  BY <1>0, <1>9 DEF Land, ShapeInv, CallsInv, EligibleInv, AskedInv, OrderInv, Askable, asked, arm, files
<1>10. ASSUME NEW t \in Targets, Call(t) PROVE ShapeInv'
  <2>1. UNCHANGED <<command, eligible, visible, sessions, given, phase, stage, targets, res>>
    BY <1>10 DEF Call, StartCall, ReadPage, Refuse, MissDeadline, asked, arm
  <2>2. PICK k \in CallRecords : calls' = [calls EXCEPT ![t] = k] /\ Left(t, k)
    BY <1>0, <1>10, CallChanges
  <2>3. calls[t].state \in {"queued", "reading"}
        /\ (cache' = cache \/ (t[2] = Eligibilities /\ cache' = [cache EXCEPT ![t[1]] = eligible[t[1]]]))
    BY <1>0, <1>10, CallChanges
  <2>4. CallsInv'
    BY <1>0, <2>2 DEF CallsInv, CallRecords
  <2>5. t[1] \in Contexts /\ (t[2] = Eligibilities => t = Elig(t[1]) /\ t \notin targets)
    BY <1>0, ListingAssumption DEF Targets, Elig, AskedInv, Askable, ScopeIds
  <2>6. ASSUME NEW c \in Contexts
        PROVE  /\ calls'[Elig(c)].got \subseteq Inside(c)
               /\ calls'[Elig(c)].state \in {"none", "reading", "read", "failed"}
               /\ calls[Elig(c)].state = "read" => calls'[Elig(c)].state = "read"
    <3>1. CASE t = Elig(c)
      BY <1>0, <2>2, <2>3, <2>5, <3>1, EligIsTarget DEF CallsInv, EligibleInv, Left
    <3>2. CASE t # Elig(c)
      BY <1>0, <2>2, <3>2 DEF CallsInv, EligibleInv
    <3> QED BY <3>1, <3>2
  <2>7. EligibleInv'
    <3>1. eligible[t[1]] \subseteq Inside(t[1]) /\ eligible[t[1]] \in SUBSET Scopes
      BY <1>0, <2>5 DEF EligibleInv, Inside
    <3>2. /\ cache' \in [Contexts -> {NoCache} \union SUBSET Scopes]
          /\ \A c \in Contexts : cache'[c] # NoCache => cache'[c] \subseteq Inside(c)
      BY <1>0, <2>3, <2>5, <3>1 DEF EligibleInv
    <3> QED BY <1>0, <2>1, <2>6, <3>2 DEF EligibleInv
  <2>8. \A u \in given : calls'[Elig(u[1])].state = "read"
    BY <1>0, <2>6 DEF AskedInv, Askable
  <2> QED BY <1>0, <2>1, <2>4, <2>7, <2>8 DEF ShapeInv, AskedInv, OrderInv, Askable
<1> QED BY <1>1, <1>3, <1>4, <1>5, <1>6, <1>7, <1>8, <1>9, <1>10 DEF Next, Quiet, Command, Goroutine

\* One call keeps what other calls have read, and every context's answer.
LEMMA CallKeeps ==
  ASSUME ShapeInv, NEW t \in Targets, Call(t)
  PROVE  /\ UNCHANGED <<command, eligible, visible, record, others, unnamed, sessions, given, listErrs, phase, local, stage, targets, res>>
         /\ \E k \in CallRecords : calls' = [calls EXCEPT ![t] = k] /\ Left(t, k)
         /\ calls[t].state \in {"queued", "reading"}
         /\ \A u \in Targets : u # t => calls'[u] = calls[u]
         /\ \A c \in Contexts : calls[Elig(c)].state = "read" => calls'[Elig(c)].state = "read"
<1>1. UNCHANGED <<command, eligible, visible, record, others, unnamed, sessions, given, listErrs, phase, local, stage, targets, res>>
  BY DEF Call, StartCall, ReadPage, Refuse, MissDeadline, asked, arm, files
<1>2. /\ \E k \in CallRecords : calls' = [calls EXCEPT ![t] = k] /\ Left(t, k)
      /\ calls[t].state \in {"queued", "reading"}
  BY CallChanges DEF ShapeInv
<1>3. \A u \in Targets : u # t => calls'[u] = calls[u]
  BY <1>2 DEF ShapeInv, CallsInv
<1>4. \A c \in Contexts : calls[Elig(c)].state = "read" => calls'[Elig(c)].state = "read"
  BY <1>2, <1>3, EligIsTarget
<1> QED BY <1>1, <1>2, <1>3, <1>4

\* Who was not read when nothing is known is marked.
LEMMA NothingKnown ==
  ASSUME ShapeInv, KnownScopes = {}, \A c \in sessions : Finished(Elig(c))
  PROVE  \A c \in sessions : c \in FailedEligibilities
<1> SUFFICES ASSUME NEW c \in sessions PROVE calls[Elig(c)].state = "failed"
  BY DEF FailedEligibilities
<1>1. calls[Elig(c)].state \in {"none", "reading", "read", "failed"} /\ Finished(Elig(c))
  BY DEF ShapeInv, AskedInv, EligibleInv
<1>2. calls[Elig(c)].state # "read"
  BY KnownOfRead DEF ReadEligibilities
<1> QED BY <1>1, <1>2 DEF Finished

\* What was read, and what the tally holds of it.
LEMMA ReadStep == ShapeInv /\ ReadInv /\ LandedInv /\ [Next]_vars => ReadInv' /\ LandedInv'
<1> SUFFICES ASSUME ShapeInv, ReadInv, LandedInv, [Next]_vars PROVE ReadInv' /\ LandedInv'
  OBVIOUS
<1>0. CallsInv /\ EligibleInv /\ AskedInv /\ OrderInv
  BY DEF ShapeInv
<1>1. ASSUME UNCHANGED <<visible, calls, targets, res>>, stage' = stage \/ stage' # "landed"
      PROVE  ReadInv' /\ LandedInv'
  BY <1>1 DEF ReadInv, LandedInv, Finished
<1>2. ASSUME targets' = {} PROVE ReadInv' /\ LandedInv'
  BY <1>2 DEF ReadInv, LandedInv
<1>3. CASE Quiet
  BY <1>1, <1>3, QuietLeaves
<1>4. CASE Open
  BY <1>0, <1>2, <1>4 DEF Open, OrderInv
<1>5. CASE GatherEligibilities \/ ReadLocal
  BY <1>1, <1>5 DEF GatherEligibilities, ReadLocal, arm
<1>6. ASSUME NEW scopes, Askable(scopes), NEW errs, NEW marks, StartFanOut(scopes, errs, marks)
      PROVE  ReadInv' /\ LandedInv'
  BY <1>0, <1>6, FanOutStarts DEF ReadInv, LandedInv
<1>7. CASE StartListing
  <2>1. CASE StartTenantWide
    BY <1>0, <2>1, TenantWideStarts DEF ReadInv, LandedInv, OfScope
  <2>2. CASE StartFanOut(given, {}, {})
    BY <1>0, <1>6, <2>2 DEF AskedInv
  <2>3. CASE stage = "starting" /\ UNCHANGED targets
    BY <1>0, <1>2, <2>3 DEF OrderInv
  <2> QED BY <1>7, <2>1, <2>2, <2>3 DEF StartListing
<1>8. CASE ReadNextEligibility
  BY <1>0, <1>2, <1>8 DEF ReadNextEligibility, OrderInv
<1>9. CASE UseEligibility
  <2>1. Askable(KnownScopes)
    BY <1>0, KnownAskable DEF AskedInv
  <2>2. CASE UNCHANGED targets
    BY <1>0, <1>2, <1>9, <2>2 DEF UseEligibility, OrderInv
  <2> QED BY <1>6, <1>9, <2>1, <2>2 DEF UseEligibility
<1>10. CASE Land
  <2>1. /\ UNCHANGED <<visible, calls, targets>> /\ \A t \in targets : Finished(t)
        /\ res'.rows = UNION {calls[t].got : t \in {u \in targets : calls[u].state = "read"}}
        /\ \A t \in targets : Unanswered(t) =>
             \E u \in res'.unconfirmed : u = Unread(t[1], t[2], Errored(t))
    BY <1>10 DEF Land, arm
  <2>2. \A t \in targets : calls[t].state # "read" => Unanswered(t)
    BY <2>1 DEF Finished, Unanswered
  <2> QED BY <2>1, <2>2 DEF ReadInv, LandedInv, Finished, Unread
<1>11. ASSUME NEW t \in Targets, Call(t) PROVE ReadInv' /\ LandedInv'
  <2>1. /\ UNCHANGED <<visible, stage, targets, res>> /\ calls[t].state \in {"queued", "reading"}
        /\ \A u \in Targets : u # t => calls'[u] = calls[u]
    BY <1>11, CallKeeps
  <2>2. PICK k \in CallRecords : calls' = [calls EXCEPT ![t] = k] /\ Left(t, k)
    BY <1>11, CallKeeps
  <2>3. \A u \in targets : u \in Targets
    BY <1>0, ListingAssumption DEF AskedInv, Askable, Targets
  <2>4. calls'[t] = k
    BY <1>0, <2>2 DEF CallsInv
  <2>5. ReadInv'
    <3>1. OfScope(t) /\ k.state = "read" => k.got = visible \intersect Under[t[2]]
      BY <2>2 DEF Left
    <3> QED BY <2>1, <2>3, <2>4, <3>1 DEF ReadInv, OfScope
  <2>6. stage = "landed" => t \notin targets
    BY <2>1 DEF LandedInv, Finished
  <2>7. LandedInv'
    BY <2>1, <2>3, <2>6 DEF LandedInv, Finished
  <2> QED BY <2>5, <2>7
<1> QED BY <1>3, <1>4, <1>5, <1>7, <1>8, <1>9, <1>10, <1>11 DEF Next, Quiet, Command, Goroutine

\* The account of every context and of every recorded role.
LEMMA AccountStep ==
  ShapeInv /\ AccountInv /\ RecordedInv /\ [Next]_vars => AccountInv' /\ RecordedInv'
<1> SUFFICES ASSUME ShapeInv, AccountInv, RecordedInv, [Next]_vars PROVE AccountInv' /\ RecordedInv'
  OBVIOUS
<1> USE DEF Asking
<1>0. CallsInv /\ EligibleInv /\ AskedInv /\ OrderInv
  BY DEF ShapeInv
<1>1. ASSUME ~Asking' PROVE AccountInv' /\ RecordedInv'
  BY <1>1 DEF AccountInv, RecordedInv
<1>2. ASSUME UNCHANGED <<sessions, targets, stage>>, res'.unconfirmed = res.unconfirmed,
             \A c \in sessions : calls[Elig(c)].state = "read" => calls'[Elig(c)].state = "read"
      PROVE  AccountInv'
  BY <1>2 DEF AccountInv, MarkedWhole
<1>3. ASSUME UNCHANGED <<sessions, targets, stage>>, res'.unconfirmed = res.unconfirmed,
             UNCHANGED unnamed
      PROVE  RecordedInv'
  BY <1>3 DEF RecordedInv, MarkedWhole
<1>4. CASE Quiet
  <2>1. UNCHANGED <<sessions, targets, stage, res, calls>>
    BY <1>4, QuietLeaves
  <2>2. UNCHANGED unnamed
    BY <1>4 DEF Quiet, Reconcile, Report, Note, Finish, Exit, Interrupt, Ended, RecordElsewhere, vars, files
  <2> QED BY <1>2, <1>3, <2>1, <2>2
<1>5. CASE Open
  BY <1>0, <1>1, <1>5 DEF Open, OrderInv
<1>6. CASE GatherEligibilities
  BY <1>1, <1>6 DEF GatherEligibilities
<1>7. CASE ReadLocal
  <2>1. /\ UNCHANGED <<sessions, targets, calls, res, unnamed>>
        /\ stage' \in {stage, "starting"}
    BY <1>7 DEF ReadLocal, files
  <2> QED BY <1>1, <1>2, <1>3, <2>1
<1>8. ASSUME NEW scopes, Askable(scopes), NEW errs, NEW marks, StartFanOut(scopes, errs, marks),
             \A t \in scopes : calls[Elig(t[1])].state = "read", \A u \in marks : u.id = Whole,
             UNCHANGED sessions
      PROVE  AccountInv' /\ RecordedInv'
  <2>1. /\ \A c \in Contexts : calls'[Elig(c)] = calls[Elig(c)]
        /\ \A s \in Scopes \ unnamed' : ContextOf[s] \in sessions => <<ContextOf[s], s>> \in targets'
        /\ res'.unconfirmed = marks \union {Unread(c, Whole, FALSE) : c \in Uncovered(scopes, marks)}
    BY <1>0, <1>8, FanOutStarts
  <2>2. RecordedInv'
    BY <1>8, <2>1 DEF RecordedInv
  <2>3. ASSUME NEW c \in sessions PROVE calls'[Elig(c)].state = "read" \/ MarkedWhole(c)'
    <3>1. c \in Contexts
      BY <1>0 DEF AskedInv
    <3>2. CASE c \in Uncovered(scopes, marks)
      <4>1. Unread(c, Whole, FALSE) \in res'.unconfirmed
        BY <2>1, <3>2
      <4>2. Unread(c, Whole, FALSE).context = c /\ Unread(c, Whole, FALSE).id = Whole
        BY DEF Unread
      <4> QED BY <4>1, <4>2 DEF MarkedWhole
    <3>3. CASE \E t \in scopes : t[1] = c
      BY <1>8, <2>1, <3>1, <3>3
    <3>4. CASE \E u \in marks : u.context = c
      BY <1>8, <2>1, <3>4 DEF MarkedWhole
    <3> QED BY <3>2, <3>3, <3>4 DEF Uncovered
  <2> QED BY <1>8, <2>2, <2>3 DEF AccountInv
<1>9. CASE StartListing
  <2>0. UNCHANGED sessions
    BY <1>9 DEF StartListing, files
  <2>1. CASE StartTenantWide
    BY <1>0, <2>0, <2>1, TenantWideStarts DEF AccountInv, RecordedInv
  <2>2. CASE StartFanOut(given, {}, {})
    BY <1>0, <1>8, <2>0, <2>2 DEF AskedInv
  <2>3. CASE stage' = "eligibility"
    BY <1>1, <2>3
  <2> QED BY <1>9, <2>1, <2>2, <2>3 DEF StartListing
<1>10. CASE ReadNextEligibility
  BY <1>1, <1>10 DEF ReadNextEligibility
<1>11. CASE UseEligibility
  <2> DEFINE errs  == {Elig(c) : c \in FailedEligibilities}
             marks == {Unread(c, Whole, TRUE) : c \in FailedEligibilities}
  <2>0. UNCHANGED sessions /\ \A c \in sessions : Finished(Elig(c))
    BY <1>11 DEF UseEligibility, files
  <2>1. Askable(KnownScopes) /\ \A t \in KnownScopes : calls[Elig(t[1])].state = "read"
    BY <1>0, KnownAskable DEF AskedInv
  <2>2. \A u \in marks : u.id = Whole
    BY DEF Unread
  <2>3. CASE StartFanOut(KnownScopes, errs, marks)
    <3> HIDE DEF errs, marks
    <3> QED BY <1>8, <2>0, <2>1, <2>2, <2>3
  <2>4. CASE KnownScopes = {} /\ res' = [rows |-> {}, errs |-> errs, unconfirmed |-> marks]
    <3>1. ASSUME NEW c \in sessions PROVE MarkedWhole(c)'
      <4>1. Unread(c, Whole, TRUE) \in res'.unconfirmed
        BY <1>0, <2>0, <2>4, NothingKnown
      <4>2. Unread(c, Whole, TRUE).context = c /\ Unread(c, Whole, TRUE).id = Whole
        BY DEF Unread
      <4> QED BY <4>1, <4>2 DEF MarkedWhole
    <3> QED BY <2>0, <3>1 DEF AccountInv, RecordedInv
  <2> QED BY <1>11, <2>3, <2>4 DEF UseEligibility
<1>12. CASE Land
  <2>1. /\ UNCHANGED <<sessions, targets, calls, unnamed>> /\ Asking
        /\ res.unconfirmed \subseteq res'.unconfirmed
    BY <1>12 DEF Land, files
  <2>2. \A c : MarkedWhole(c) => MarkedWhole(c)'
    BY <2>1 DEF MarkedWhole
  <2> QED BY <2>1, <2>2 DEF AccountInv, RecordedInv
<1>13. ASSUME NEW t \in Targets, Call(t) PROVE AccountInv' /\ RecordedInv'
  <2>1. /\ UNCHANGED <<unnamed, sessions, stage, targets, res>>
        /\ \A c \in Contexts : calls[Elig(c)].state = "read" => calls'[Elig(c)].state = "read"
    BY <1>13, CallKeeps
  <2>2. \A c \in sessions : c \in Contexts
    BY <1>0 DEF AskedInv
  <2> QED BY <1>2, <1>3, <2>1, <2>2
<1> QED BY <1>4, <1>5, <1>6, <1>7, <1>9, <1>10, <1>11, <1>12, <1>13 DEF Next, Quiet, Command, Goroutine

\* The record is read for the sessions there are.
LEMMA LocalStep == LocalInv /\ [Next]_vars => LocalInv'
<1> SUFFICES ASSUME LocalInv, [Next]_vars PROVE LocalInv'
  OBVIOUS
<1>1. ASSUME UNCHANGED <<local, sessions>>, phase' = phase \/ phase' # "opening" PROVE LocalInv'
  BY <1>1 DEF LocalInv
<1>2. CASE Open
  <2>1. phase = "opening" /\ UNCHANGED local
    BY <1>2 DEF Open
  <2> QED BY <2>1 DEF LocalInv
<1>3. CASE ReadLocal
  <2>1. /\ phase' = "waiting" /\ UNCHANGED sessions
        /\ local' = [s \in Scopes |-> IF ContextOf[s] \in sessions THEN record[s] ELSE "none"]
    BY <1>3 DEF ReadLocal
  <2> QED BY <2>1 DEF LocalInv
<1> QED BY <1>1, <1>2, <1>3
        DEF Next, Command, Goroutine, GatherEligibilities, Reconcile, Report, Note, Finish, Exit, StartListing,
            ReadNextEligibility, UseEligibility, Land, Interrupt, Ended, RecordElsewhere, vars, Call, StartCall,
            ReadPage, Refuse, MissDeadline

\* A report always has its lost roles.
LEMMA ReportStep == ReportInv /\ [Next]_vars => ReportInv'
<1> SUFFICES ASSUME ReportInv, [Next]_vars PROVE ReportInv'
  OBVIOUS
<1>1. CASE UNCHANGED report
  BY <1>1 DEF ReportInv
<1>2. CASE Open
  <2>1. UNCHANGED report \/ report' = [NoReport EXCEPT !.exit = "failed"]
    BY <1>2 DEF Open
  <2> QED BY <1>1, <2>1 DEF ReportInv, NoReport
<1>3. CASE GatherEligibilities
  BY <1>3 DEF GatherEligibilities, ReportInv
<1>4. CASE Reconcile
  BY <1>4 DEF Reconcile, ReportInv
<1>5. CASE Report
  BY <1>5 DEF Report, ReportInv
<1>6. CASE Note
  BY <1>6 DEF Note, ReportInv
<1>7. CASE \E t \in Targets : Call(t)
  BY <1>1, <1>7 DEF Call, StartCall, ReadPage, Refuse, MissDeadline
<1> QED BY <1>1, <1>2, <1>3, <1>4, <1>5, <1>6, <1>7
        DEF Next, Command, Goroutine, ReadLocal, Finish, Exit, StartListing, ReadNextEligibility, UseEligibility,
            Land, Interrupt, Ended, RecordElsewhere, vars

\* So all of it holds throughout.
LEMMA ListingInvariant == Spec => []ListingInv
<1>1. ListingInv /\ [Next]_vars => ListingInv'
  BY ShapeStep, ReadStep, AccountStep, LocalStep, ReportStep DEF ListingInv
<1> QED BY ListingInit, <1>1, PTL DEF Spec

-----------------------------------------------------------------------------
(* The theorems.                                                           *)

\* No page limit, deadline, throttling, error or interrupt makes an activation
\* that ARM shows look released: it is in the rows, or its scope is marked
\* unread (listActivationsAtScope, listAll).
THEOREM MissedAreUnread == Spec => []MissedIsUnread
<1>1. ListingInv => MissedIsUnread
  <2> SUFFICES ASSUME ListingInv, stage = "landed", NEW t \in targets, t[2] # Whole,
                      NEW s \in visible \intersect Under[t[2]], s \notin res.rows
               PROVE  scopeIsUnread(res.unconfirmed, t[2])
    BY DEF MissedIsUnread
  <2>1. OfScope(t) /\ ContextOf[t[2]] = t[1]
    BY ListingAssumption DEF ListingInv, ShapeInv, AskedInv, Askable, ScopeIds, OfScope
  <2>2. calls[t].state # "read"
    BY <2>1 DEF ListingInv, ReadInv, LandedInv
  <2> QED BY <2>1, <2>2 DEF ListingInv, LandedInv, scopeIsUnread
<1> QED BY <1>1, ListingInvariant, PTL

\* A context that could not be listed is never taken for one in which nothing is
\* held (listActivations).
THEOREM ContextsAccountedFor == Spec => []EveryContextIsAccountedFor
<1>1. ListingInv => EveryContextIsAccountedFor
  BY DEF ListingInv, AccountInv, Asking, MarkedWhole, EveryContextIsAccountedFor
<1> QED BY <1>1, ListingInvariant, PTL

\* The eligibility cache is written with complete listings only (ListEligibilities,
\* listAll).
THEOREM CachedAreComplete == Spec => OnlyCompleteIsCached
<1>1. ListingInv /\ [Next]_vars => [\A c \in Contexts : cache'[c] # cache[c] => cache'[c] = eligible[c]]_cache
  <2> SUFFICES ASSUME ListingInv, [Next]_vars, cache' # cache, NEW c \in Contexts, cache'[c] # cache[c]
               PROVE  cache'[c] = eligible[c]
    OBVIOUS
  <2>1. PICK t \in Targets : Call(t)
    BY DEF Next, Command, Goroutine, Open, GatherEligibilities, ReadLocal, Reconcile, Report, Note, Finish, Exit,
           StartListing, ReadNextEligibility, UseEligibility, Land, Interrupt, Ended, RecordElsewhere, vars, files
  <2>2. cache' = [cache EXCEPT ![t[1]] = eligible[t[1]]]
    BY <2>1, CallChanges DEF ListingInv, ShapeInv
  <2> QED BY <2>2 DEF ListingInv, ShapeInv, EligibleInv
<1> QED BY <1>1, ListingInvariant, PTL DEF Spec, OnlyCompleteIsCached

\* The record gives a role up, and a `status` reports one lost, only where ARM
\* was read (reconcileRecord, statusDelta).
THEOREM LostOnlyIfRead == Spec => NothingLostUnread
<1>1. ASSUME ListingInv, Reconcile, NEW s \in Scopes,
             (record[s] # "none" /\ record'[s] = "none") \/ s \in report'.lost
      PROVE  WasRead(s) \/ s \in unnamed
  <2>1. PICK gone : /\ record' = Reconciled(record, res.rows, res.unconfirmed, gone)
                    /\ report' = [report EXCEPT !.lost = Dropped(res.rows, res.unconfirmed, gone)]
    BY <1>1 DEF Reconcile
  <2>2. phase = "waiting" /\ stage = "landed"
    BY <1>1 DEF Reconcile
  <2>3. ContextOf[s] \in sessions /\ ~scopeIsUnread(res.unconfirmed, s)
    <3>1. CASE record[s] # "none" /\ record'[s] = "none"
      BY <2>1, <3>1 DEF Reconciled, Keeps, Stands
    <3>2. CASE s \in report'.lost
      <4>1. report'.lost = Dropped(res.rows, res.unconfirmed, gone)
        BY <1>1, <2>1 DEF ListingInv, ReportInv
      <4>2. local[s] \in {"listed", "confirming"} /\ ~scopeIsUnread(res.unconfirmed, s)
        BY <3>2, <4>1 DEF Dropped, Stands
      <4> QED BY <1>1, <2>2, <4>2 DEF ListingInv, LocalInv
    <3> QED BY <1>1, <3>1, <3>2
  <2>4. ASSUME NEW id \in {s, Whole}, <<ContextOf[s], id>> \in targets PROVE WasRead(s)
    <3>1. CASE calls[<<ContextOf[s], id>>].state = "read"
      BY <3>1 DEF WasRead
    <3>2. CASE calls[<<ContextOf[s], id>>].state # "read"
      BY <1>1, <2>2, <2>3, <2>4, <3>2 DEF ListingInv, LandedInv, scopeIsUnread
    <3> QED BY <3>1, <3>2
  <2>5. ~MarkedWhole(ContextOf[s])
    BY <2>3 DEF MarkedWhole, scopeIsUnread
  <2> QED BY <1>1, <2>2, <2>3, <2>4, <2>5 DEF ListingInv, RecordedInv, Asking
<1>2. ListingInv /\ [Next]_vars =>
        [phase = "waiting" /\ phase' = "reporting" =>
           \A s \in Scopes :
             ((record[s] # "none" /\ record'[s] = "none") \/ s \in report'.lost)
               => WasRead(s) \/ s \in unnamed]_vars
  <2> SUFFICES ASSUME ListingInv, [Next]_vars, phase = "waiting", phase' = "reporting"
               PROVE  Reconcile
    BY <1>1
  <2> QED BY DEF Next, Command, Goroutine, Open, GatherEligibilities, ReadLocal, Report, Note, Finish, Exit,
             StartListing, ReadNextEligibility, UseEligibility, Land, Interrupt, Ended, RecordElsewhere, vars,
             Call, StartCall, ReadPage, Refuse, MissDeadline
<1> QED BY <1>2, ListingInvariant, PTL DEF Spec, NothingLostUnread

-----------------------------------------------------------------------------
(* What an exit with 0 stands for.                                         *)

\* A listing that is given scopes has, of every context, its eligibilities or an
\* error of the command's own listing of them.
GivenInv ==
  given # {} => \A c \in sessions : calls[Elig(c)].state = "read" \/ c \in listErrs

\* A context that is neither known nor asked for as a whole has an error.
ErrorsInv ==
  Asking => \A c \in sessions :
    calls[Elig(c)].state = "read" \/ <<c, Whole>> \in targets \/ c \in listErrs \/ Elig(c) \in res.errs

\* A call without an answer is an error, or a mark that says it was merely late.
TallyInv ==
  stage = "landed" => \A t \in targets :
    calls[t].state # "read" => t \in res.errs \/ Unread(t[1], t[2], FALSE) \in res.unconfirmed

\* The command says how it ended once its listing is in, and then only ends.
OutcomeInv ==
  /\ phase = "reporting" => stage = "landed"
  /\ report.exit = "ok" /\ command # "up" => stage = "landed" /\ phase \in {"finishing", "done"}
  /\ ExitOkIsComplete

ExitInv == GivenInv /\ ErrorsInv /\ TallyInv /\ OutcomeInv

\* A run starts with nothing said.
LEMMA ExitInit == Init => ExitInv
BY DEF Init, ExitInv, GivenInv, ErrorsInv, TallyInv, OutcomeInv, ExitOkIsComplete, Asking, NoReport

\* No step forgets a context between the command's listing and the fan-out's.
LEMMA GivenStep == ShapeInv /\ GivenInv /\ [Next]_vars => GivenInv'
<1> SUFFICES ASSUME ShapeInv, GivenInv, [Next]_vars PROVE GivenInv'
  OBVIOUS
<1>0. CallsInv /\ EligibleInv /\ AskedInv /\ OrderInv /\ \A c \in sessions : c \in Contexts
  BY DEF ShapeInv, AskedInv
<1>1. ASSUME UNCHANGED <<given, sessions, listErrs>>,
             \A c \in Contexts : calls[Elig(c)].state = "read" => calls'[Elig(c)].state = "read"
      PROVE  GivenInv'
  BY <1>0, <1>1 DEF GivenInv
<1>2. CASE Quiet
  BY <1>1, <1>2, QuietLeaves
<1>3. CASE Open
  BY <1>0, <1>3 DEF Open, OrderInv, GivenInv
<1>4. CASE GatherEligibilities
  <2>1. /\ UNCHANGED <<calls, sessions>> /\ listErrs' = FailedEligibilities
        /\ \A c \in sessions : Finished(Elig(c))
    BY <1>4 DEF GatherEligibilities
  <2>2. ASSUME NEW c \in sessions PROVE calls[Elig(c)].state \in {"read", "failed"}
    BY <1>0, <2>1 DEF EligibleInv, Finished
  <2> QED BY <2>1, <2>2 DEF GivenInv, FailedEligibilities
<1>5. CASE ReadLocal \/ Land
  BY <1>1, <1>5 DEF ReadLocal, Land
<1>6. CASE StartListing
  <2>0. UNCHANGED <<given, sessions, listErrs>>
    BY <1>6 DEF StartListing
  <2>1. CASE StartTenantWide
    BY <1>0, <1>1, <2>0, <2>1, TenantWideStarts
  <2>2. CASE StartFanOut(given, {}, {})
    BY <1>0, <1>1, <2>0, <2>2, FanOutStarts DEF AskedInv
  <2>3. CASE given = {}
    BY <2>0, <2>3 DEF GivenInv
  <2> QED BY <1>6, <2>1, <2>2, <2>3 DEF StartListing
<1>7. CASE ReadNextEligibility
  <2>1. PICK c \in sessions : calls' = [calls EXCEPT ![Elig(c)] = EligibilityCall(c)] /\ calls[Elig(c)].state = "none"
    BY <1>7 DEF ReadNextEligibility
  <2>2. \A d \in Contexts : d # c => Elig(d) # Elig(c)
    BY <1>0, EligIsTarget
  <2>3. \A d \in Contexts : calls[Elig(d)].state = "read" => calls'[Elig(d)].state = "read"
    BY <1>0, <2>1, <2>2, EligIsTarget DEF CallsInv
  <2> QED BY <1>1, <1>7, <2>3 DEF ReadNextEligibility
<1>8. CASE UseEligibility
  <2>0. UNCHANGED <<given, sessions, listErrs>>
    BY <1>8 DEF UseEligibility
  <2>1. CASE UNCHANGED calls
    BY <1>1, <2>0, <2>1
  <2>2. ASSUME NEW errs, NEW marks, StartFanOut(KnownScopes, errs, marks) PROVE GivenInv'
    <3>1. Askable(KnownScopes)
      BY <1>0, KnownAskable DEF AskedInv
    <3> QED BY <1>0, <1>1, <2>0, <2>2, <3>1, FanOutStarts
  <2> QED BY <1>8, <2>1, <2>2 DEF UseEligibility
<1>9. ASSUME NEW t \in Targets, Call(t) PROVE GivenInv'
  BY <1>1, <1>9, CallKeeps
<1> QED BY <1>2, <1>3, <1>4, <1>5, <1>6, <1>7, <1>8, <1>9 DEF Next, Quiet, Command, Goroutine

\* Nor in the listing itself.
LEMMA ErrorsStep == ShapeInv /\ GivenInv /\ ErrorsInv /\ [Next]_vars => ErrorsInv'
<1> SUFFICES ASSUME ShapeInv, GivenInv, ErrorsInv, [Next]_vars PROVE ErrorsInv'
  OBVIOUS
<1> USE DEF Asking
<1>0. CallsInv /\ EligibleInv /\ AskedInv /\ OrderInv /\ \A c \in sessions : c \in Contexts
  BY DEF ShapeInv, AskedInv
<1>1. ASSUME ~Asking' PROVE ErrorsInv'
  BY <1>1 DEF ErrorsInv
<1>2. ASSUME UNCHANGED <<sessions, targets, stage, listErrs>>, res.errs \subseteq res'.errs,
             \A c \in Contexts : calls[Elig(c)].state = "read" => calls'[Elig(c)].state = "read"
      PROVE  ErrorsInv'
  BY <1>0, <1>2 DEF ErrorsInv
<1>3. CASE Quiet
  BY <1>2, <1>3, QuietLeaves
<1>4. CASE Open
  BY <1>0, <1>1, <1>4 DEF Open, OrderInv
<1>5. CASE GatherEligibilities
  BY <1>1, <1>5 DEF GatherEligibilities
<1>6. CASE ReadLocal
  BY <1>1, <1>2, <1>6 DEF ReadLocal
<1>7. CASE StartListing
  <2>0. UNCHANGED <<sessions, listErrs>>
    BY <1>7 DEF StartListing
  <2>1. CASE StartTenantWide
    BY <1>0, <2>0, <2>1, TenantWideStarts DEF ErrorsInv
  <2>2. CASE given # {} /\ StartFanOut(given, {}, {})
    <3>1. \A c \in Contexts : calls'[Elig(c)] = calls[Elig(c)]
      BY <1>0, <2>2, FanOutStarts DEF AskedInv
    <3> QED BY <1>0, <2>0, <2>2, <3>1 DEF GivenInv, ErrorsInv
  <2>3. CASE stage' = "eligibility"
    BY <1>1, <2>3
  <2> QED BY <1>7, <2>1, <2>2, <2>3 DEF StartListing
<1>8. CASE ReadNextEligibility
  BY <1>1, <1>8 DEF ReadNextEligibility
<1>9. CASE UseEligibility
  <2> DEFINE errs  == {Elig(c) : c \in FailedEligibilities}
             marks == {Unread(c, Whole, TRUE) : c \in FailedEligibilities}
  <2>1. UNCHANGED <<sessions, listErrs>> /\ \A c \in sessions : Finished(Elig(c))
    BY <1>9 DEF UseEligibility
  <2>2. ASSUME NEW c \in sessions PROVE calls[Elig(c)].state = "read" \/ Elig(c) \in errs
    <3>1. calls[Elig(c)].state \in {"read", "failed"}
      BY <1>0, <2>1 DEF EligibleInv, Finished
    <3> QED BY <3>1 DEF FailedEligibilities
  <2>3. CASE StartFanOut(KnownScopes, errs, marks)
    <3>1. Askable(KnownScopes)
      BY <1>0, KnownAskable DEF AskedInv
    <3> HIDE DEF errs, marks
    <3>2. res'.errs = errs /\ \A c \in Contexts : calls'[Elig(c)] = calls[Elig(c)]
      BY <1>0, <2>3, <3>1, FanOutStarts
    <3> QED BY <1>0, <2>1, <2>2, <3>2 DEF ErrorsInv
  <2>4. CASE res' = [rows |-> {}, errs |-> errs, unconfirmed |-> marks] /\ UNCHANGED calls
    <3>1. res'.errs = errs
      BY <2>4
    <3> HIDE DEF errs
    <3> QED BY <2>1, <2>2, <2>4, <3>1 DEF ErrorsInv
  <2> QED BY <1>9, <2>3, <2>4 DEF UseEligibility
<1>10. CASE Land
  <2>1. /\ UNCHANGED <<sessions, targets, calls, listErrs>> /\ Asking
        /\ res.errs \subseteq res'.errs
    BY <1>10 DEF Land
  <2> QED BY <2>1 DEF ErrorsInv
<1>11. ASSUME NEW t \in Targets, Call(t) PROVE ErrorsInv'
  BY <1>2, <1>11, CallKeeps
<1> QED BY <1>3, <1>4, <1>5, <1>6, <1>7, <1>8, <1>9, <1>10, <1>11 DEF Next, Quiet, Command, Goroutine

\* The tally has an error or a mark for each call that was not read.
LEMMA TallyStep == ShapeInv /\ LandedInv /\ TallyInv /\ [Next]_vars => TallyInv'
<1> SUFFICES ASSUME ShapeInv, LandedInv, TallyInv, [Next]_vars PROVE TallyInv'
  OBVIOUS
<1>0. CallsInv /\ EligibleInv /\ AskedInv /\ OrderInv
  BY DEF ShapeInv
<1>1. ASSUME stage' # "landed" \/ targets' = {} PROVE TallyInv'
  BY <1>1 DEF TallyInv
<1>2. ASSUME UNCHANGED <<stage, calls, targets, res>> PROVE TallyInv'
  BY <1>2 DEF TallyInv
<1>3. CASE Quiet
  BY <1>2, <1>3, QuietLeaves
<1>4. CASE Open
  BY <1>0, <1>1, <1>4 DEF Open, OrderInv
<1>5. CASE GatherEligibilities \/ ReadLocal
  BY <1>1, <1>2, <1>5 DEF GatherEligibilities, ReadLocal
<1>6. CASE StartListing
  BY <1>1, <1>6 DEF StartListing, StartTenantWide, StartFanOut
<1>7. CASE ReadNextEligibility
  BY <1>1, <1>7 DEF ReadNextEligibility
<1>8. CASE UseEligibility
  <2>1. targets = {}
    BY <1>0, <1>8 DEF UseEligibility, OrderInv
  <2> QED BY <1>1, <1>8, <2>1 DEF UseEligibility, StartFanOut
<1>9. CASE Land
  <2>1. /\ UNCHANGED <<calls, targets>> /\ \A t \in targets : Finished(t)
        /\ \A t \in targets : Unanswered(t) =>
             /\ Errored(t) => t \in res'.errs
             /\ \E u \in res'.unconfirmed : u = Unread(t[1], t[2], Errored(t))
    BY <1>9 DEF Land
  <2>2. \A t \in targets : Errored(t) \in BOOLEAN
    BY DEF Errored
  <2>3. \A t \in targets : calls[t].state # "read" => Unanswered(t)
    BY <2>1 DEF Finished, Unanswered
  <2>4. ASSUME NEW t \in targets, calls[t].state # "read"
        PROVE  t \in res'.errs \/ Unread(t[1], t[2], FALSE) \in res'.unconfirmed
    <3>1. CASE Errored(t)
      BY <2>1, <2>3, <2>4, <3>1
    <3>2. CASE Errored(t) = FALSE
      BY <2>1, <2>3, <2>4, <3>2
    <3> QED BY <2>2, <3>1, <3>2
  <2> QED BY <2>1, <2>4 DEF TallyInv
<1>10. ASSUME NEW t \in Targets, Call(t) PROVE TallyInv'
  <2>1. /\ UNCHANGED <<stage, targets, res>> /\ calls[t].state \in {"queued", "reading"}
        /\ \A u \in Targets : u # t => calls'[u] = calls[u]
    BY <1>10, CallKeeps
  <2>2. \A u \in targets : u \in Targets
    BY <1>0, ListingAssumption DEF AskedInv, Askable, Targets
  <2>3. stage = "landed" => t \notin targets
    BY <2>1 DEF LandedInv, Finished
  <2> QED BY <2>1, <2>2, <2>3 DEF TallyInv
<1> QED BY <1>3, <1>4, <1>5, <1>6, <1>7, <1>8, <1>9, <1>10 DEF Next, Quiet, Command, Goroutine

\* What a command said with an exit of 0 stays true until it ends.
LEMMA OutcomeStep ==
  ShapeInv /\ ReportInv /\ ErrorsInv /\ TallyInv /\ OutcomeInv /\ [Next]_vars => OutcomeInv'
<1> SUFFICES ASSUME ShapeInv, ReportInv, ErrorsInv, TallyInv, OutcomeInv, [Next]_vars PROVE OutcomeInv'
  OBVIOUS
<1>0. CallsInv /\ EligibleInv /\ AskedInv /\ OrderInv /\ \A c \in sessions : c \in Contexts
  BY DEF ShapeInv, AskedInv
<1> DEFINE Ok == report.exit = "ok" /\ command # "up"
<1>1. ASSUME ~Ok', phase' # "reporting" PROVE OutcomeInv'
  BY <1>1 DEF OutcomeInv, ExitOkIsComplete
<1>2. ASSUME UNCHANGED <<command, report, sessions, targets>>,
             phase' = phase \/ (phase' = "done" /\ phase = "finishing") \/ ~Ok,
             phase' # "reporting" \/ phase = "reporting",
             stage = "landed" => stage' = "landed",
             \A c \in Contexts : calls[Elig(c)].state = "read" => calls'[Elig(c)].state = "read",
             \A t \in targets : calls[t].state = "read" => calls'[t].state = "read"
      PROVE  OutcomeInv'
  BY <1>0, <1>2 DEF OutcomeInv, ExitOkIsComplete
<1>3. CASE Open
  <2>1. phase = "opening" /\ phase' # "reporting" /\ command' = command
        /\ (UNCHANGED report \/ report' = [NoReport EXCEPT !.exit = "failed"])
    BY <1>3 DEF Open, asked
  <2>2. ~Ok'
    BY <2>1 DEF OutcomeInv, NoReport
  <2> QED BY <1>1, <2>1, <2>2
<1>4. CASE GatherEligibilities
  <2>1. phase = "eligibility" /\ phase' # "reporting" /\ command' = command
        /\ (UNCHANGED report \/ report' = [report EXCEPT !.exit = "interrupted"])
    BY <1>4 DEF GatherEligibilities, asked
  <2>2. ~Ok'
    BY <2>1 DEF OutcomeInv, ReportInv
  <2> QED BY <1>1, <2>1, <2>2
<1>5. CASE ReadLocal
  <2>1. phase = "local" /\ phase' = "waiting" /\ UNCHANGED <<command, report>>
    BY <1>5 DEF ReadLocal, asked
  <2> QED BY <1>1, <2>1 DEF OutcomeInv
<1>6. CASE Reconcile
  <2>1. /\ phase = "waiting" /\ phase' = "reporting" /\ stage = "landed" /\ UNCHANGED <<command, stage>>
        /\ \E lost : report' = [report EXCEPT !.lost = lost]
    BY <1>6 DEF Reconcile, asked, listing
  <2>2. ~Ok'
    BY <2>1 DEF OutcomeInv, ReportInv
  <2> QED BY <2>1, <2>2 DEF OutcomeInv, ExitOkIsComplete
<1>7. CASE Report
  <2>1. /\ phase = "reporting" /\ phase' = "finishing" /\ UNCHANGED <<command, sessions, calls, targets, stage, res>>
        /\ \/ report' = [report EXCEPT !.exit = "interrupted"]
           \/ report' = [report EXCEPT !.named = res.unconfirmed, !.errs = Failures,
                !.exit = IF Failures = {} /\ sessions = Contexts THEN "ok" ELSE "failed"]
    BY <1>7 DEF Report, asked, listing
  <2>2. stage = "landed"
    BY <2>1 DEF OutcomeInv
  <2>3. ASSUME Ok' PROVE ExitOkIsComplete'
    <3>1. /\ Failures = {} /\ sessions = Contexts /\ report'.named = res.unconfirmed
      BY <2>1, <2>3 DEF ReportInv
    <3>2. res.errs = {} /\ listErrs = {}
      BY <3>1 DEF Failures
    <3>3. \A c \in sessions : calls[Elig(c)].state = "read" \/ <<c, Whole>> \in targets
      BY <2>2, <3>2 DEF ErrorsInv, Asking
    <3>4. \A t \in targets : calls[t].state = "read" \/ Unread(t[1], t[2], FALSE) \in res.unconfirmed
      BY <2>2, <3>2 DEF TallyInv
    <3> QED BY <2>1, <3>1, <3>3, <3>4 DEF ExitOkIsComplete
  <2> QED BY <1>1, <2>1, <2>2, <2>3 DEF OutcomeInv
<1>8. CASE Note
  <2>1. command' = "up" /\ phase' = "finishing"
    BY <1>8 DEF Note, asked
  <2> QED BY <1>1, <2>1
<1>9. CASE Finish \/ Exit \/ Interrupt \/ Ended \/ UNCHANGED vars \/ \E s \in Scopes : RecordElsewhere(s)
  <2>1. Quiet /\ UNCHANGED report
    BY <1>9 DEF Quiet, Finish, Exit, Interrupt, Ended, RecordElsewhere, vars
  <2>2. phase' = phase \/ (phase' = "done" /\ phase = "finishing")
    BY <1>9 DEF Finish, Exit, Interrupt, Ended, RecordElsewhere, vars
  <2> QED BY <1>2, <2>1, <2>2, QuietLeaves
<1>10. CASE Goroutine
  <2>1. stage # "landed" /\ UNCHANGED <<command, report, phase>>
    BY <1>10 DEF Goroutine, StartListing, ReadNextEligibility, UseEligibility, Land, asked
  <2> QED BY <1>1, <2>1 DEF OutcomeInv
<1>11. ASSUME NEW t \in Targets, Call(t) PROVE OutcomeInv'
  <2>1. /\ UNCHANGED <<command, sessions, phase, stage, targets>> /\ calls[t].state \in {"queued", "reading"}
        /\ \A u \in Targets : u # t => calls'[u] = calls[u]
        /\ \A c \in Contexts : calls[Elig(c)].state = "read" => calls'[Elig(c)].state = "read"
    BY <1>11, CallKeeps
  <2>2. UNCHANGED report
    BY <1>11 DEF Call, StartCall, ReadPage, Refuse, MissDeadline
  <2>3. \A u \in targets : u \in Targets
    BY <1>0, ListingAssumption DEF AskedInv, Askable, Targets
  <2> QED BY <1>2, <2>1, <2>2, <2>3
<1> QED BY <1>3, <1>4, <1>5, <1>6, <1>7, <1>8, <1>9, <1>10, <1>11 DEF Next, Command

\* So that an exit with 0 stands for a complete answer throughout.
LEMMA ExitInvariant == Spec => []ExitInv
<1>1. ListingInv /\ ExitInv /\ [Next]_vars => ExitInv'
  BY GivenStep, ErrorsStep, TallyStep, OutcomeStep DEF ListingInv, ExitInv
<1> QED BY ExitInit, <1>1, ListingInvariant, PTL DEF Spec

\* When `list` or `status` exits 0, nothing it should have read is missing
\* without being named (runList, runStatus).
THEOREM ExitOkComplete == Spec => []ExitOkIsComplete
<1>1. ExitInv => ExitOkIsComplete
  BY DEF ExitInv, OutcomeInv
<1> QED BY <1>1, ExitInvariant, PTL

-----------------------------------------------------------------------------
(* Type correctness.                                                       *)

Phases  == {"opening", "eligibility", "local", "waiting", "reconciling", "reporting", "finishing", "done"}
Stages  == {"idle", "starting", "eligibility", "fanOut", "tenantWide", "landed"}
Entries == Kinds \union {"none", "listed"}
Results == [rows : SUBSET Scopes, errs : SUBSET Targets, unconfirmed : SUBSET UnreadMarks]
Reports == [lost : SUBSET Scopes, named : SUBSET UnreadMarks, late : SUBSET UnreadMarks,
            errs : SUBSET Targets, exit : {"none", "ok", "failed", "interrupted"}]

RunType     == /\ command \in Commands /\ allScopes \in BOOLEAN /\ cancelled \in BOOLEAN
               /\ \A c \in Contexts : eligible[c] \in Eligible[c]
               /\ unnamed \subseteq Scopes /\ others \in Nat /\ phase \in Phases /\ stage \in Stages
RecordType  == record \in [Scopes -> Entries] /\ local \in [Scopes -> Entries]
AskedType   == /\ listErrs \subseteq sessions /\ (phase = "opening" => listErrs = {})
               /\ \A t \in given \union targets : t[1] \in sessions
PagesType   == \A t \in Targets : calls[t].pages < MaxPages
ResultType  == res \in Results
ReportType  == report \in Reports

TypeInv == RunType /\ RecordType /\ AskedType /\ PagesType /\ ResultType /\ ReportType

\* The run's own variables.
LEMMA RunTypeStep == RunType /\ [Next]_vars => RunType'
<1> SUFFICES ASSUME RunType, [Next]_vars PROVE RunType'
  OBVIOUS
<1>1. UNCHANGED <<command, eligible>> /\ (UNCHANGED allScopes)
  BY DEF Next, Command, Goroutine, Open, GatherEligibilities, ReadLocal, Reconcile, Report, Note, Finish, Exit,
         StartListing, ReadNextEligibility, UseEligibility, Land, Interrupt, Ended, RecordElsewhere, vars,
         Call, StartCall, ReadPage, Refuse, MissDeadline, asked, arm
<1>2. (UNCHANGED cancelled) \/ cancelled' = TRUE
  BY DEF Next, Command, Goroutine, Open, GatherEligibilities, ReadLocal, Reconcile, Report, Note, Finish, Exit,
         StartListing, ReadNextEligibility, UseEligibility, Land, Interrupt, Ended, RecordElsewhere, vars,
         Call, StartCall, ReadPage, Refuse, MissDeadline
<1>3. unnamed' \subseteq Scopes /\ others' \in Nat
  <2>1. CASE \E s \in Scopes : RecordElsewhere(s)
    BY <2>1 DEF RunType, RecordElsewhere
  <2>2. CASE StartListing
    BY <2>2 DEF RunType, StartListing, StartTenantWide, StartFanOut
  <2>3. CASE UseEligibility
    BY <2>3 DEF RunType, UseEligibility, StartFanOut
  <2>4. UNCHANGED <<unnamed, others>> \/ StartListing \/ UseEligibility \/ \E s \in Scopes : RecordElsewhere(s)
    BY DEF Next, Command, Goroutine, Open, GatherEligibilities, ReadLocal, Reconcile, Report, Note, Finish, Exit,
           ReadNextEligibility, Land, Interrupt, Ended, vars, Call, StartCall, ReadPage, Refuse, MissDeadline, files
  <2> QED BY <2>1, <2>2, <2>3, <2>4 DEF RunType
<1>4. phase' \in Phases
  BY DEF RunType, Phases, Next, Command, Goroutine, Open, GatherEligibilities, ReadLocal, Reconcile, Report, Note,
         Finish, Exit, StartListing, ReadNextEligibility, UseEligibility, Land, Interrupt, Ended, RecordElsewhere,
         vars, Call, StartCall, ReadPage, Refuse, MissDeadline
<1>5. stage' \in Stages
  BY DEF RunType, Stages, Next, Command, Goroutine, Open, GatherEligibilities, ReadLocal, Reconcile, Report, Note,
         Finish, Exit, StartListing, StartTenantWide, StartFanOut, ReadNextEligibility, UseEligibility, Land,
         Interrupt, Ended, RecordElsewhere, vars, listing, Call, StartCall, ReadPage, Refuse, MissDeadline
<1>6. allScopes' \in BOOLEAN
  BY <1>1 DEF RunType
<1>7. cancelled' \in BOOLEAN
  BY <1>2 DEF RunType
<1>8. \A c \in Contexts : eligible'[c] \in Eligible[c]
  BY <1>1 DEF RunType
<1>9. command' \in Commands
  BY <1>1 DEF RunType
<1> QED BY <1>3, <1>4, <1>5, <1>6, <1>7, <1>8, <1>9 DEF RunType

\* The record and what the command read of it.
LEMMA RecordTypeStep == RecordType /\ [Next]_vars => RecordType'
<1> SUFFICES ASSUME RecordType, [Next]_vars PROVE RecordType'
  OBVIOUS
<1>1. CASE UNCHANGED <<record, local>>
  BY <1>1 DEF RecordType
<1>2. CASE ReadLocal
  <2>1. /\ UNCHANGED record
        /\ local' = [s \in Scopes |-> IF ContextOf[s] \in sessions THEN record[s] ELSE "none"]
    BY <1>2 DEF ReadLocal, files
  <2> QED BY <2>1 DEF RecordType, Entries
<1>3. CASE Reconcile
  <2>1. UNCHANGED local /\ \E gone : record' = Reconciled(record, res.rows, res.unconfirmed, gone)
    BY <1>3 DEF Reconcile
  <2>2. record' \in [Scopes -> Entries]
    BY <2>1 DEF RecordType, Reconciled, Entries
  <2> QED BY <2>1, <2>2 DEF RecordType
<1>4. CASE \E s \in Scopes : RecordElsewhere(s)
  <2>1. PICK s \in Scopes, kind \in Entries : record' = [record EXCEPT ![s] = kind] /\ UNCHANGED local
    BY <1>4 DEF RecordElsewhere, Entries
  <2> QED BY <2>1 DEF RecordType, Entries
<1> QED BY <1>1, <1>2, <1>3, <1>4
        DEF Next, Command, Goroutine, Open, GatherEligibilities, Report, Note, Finish, Exit, StartListing,
            ReadNextEligibility, UseEligibility, Land, Interrupt, Ended, vars, files, Call, StartCall, ReadPage,
            Refuse, MissDeadline

\* What is asked for is of a session.
LEMMA AskedTypeStep == ShapeInv /\ AskedType /\ [Next]_vars => AskedType'
<1> SUFFICES ASSUME ShapeInv, AskedType, [Next]_vars PROVE AskedType'
  OBVIOUS
<1>0. CallsInv /\ EligibleInv /\ AskedInv /\ OrderInv
  BY DEF ShapeInv
<1>1. CASE UNCHANGED <<sessions, listErrs, given, targets>> /\ (phase' = phase \/ phase' # "opening")
  BY <1>1 DEF AskedType
<1>2. CASE Open
  BY <1>0, <1>2 DEF Open, OrderInv, AskedType
<1>3. CASE GatherEligibilities
  <2>1. /\ UNCHANGED <<sessions, targets>> /\ given' = KnownScopes /\ listErrs' = FailedEligibilities
        /\ phase' # "opening"
    BY <1>3 DEF GatherEligibilities
  <2>2. \A t \in KnownScopes : t[1] \in sessions
    BY <1>0, KnownAskable DEF AskedInv
  <2> QED BY <2>1, <2>2 DEF AskedType, FailedEligibilities
<1>4. ASSUME NEW scopes, \A t \in scopes : t[1] \in sessions, NEW errs, NEW marks, StartFanOut(scopes, errs, marks),
             UNCHANGED <<sessions, listErrs, given, phase>>
      PROVE  AskedType'
  <2>1. \A t \in withRecordedScopes(scopes) : t[1] \in sessions
    BY <1>4 DEF withRecordedScopes
  <2> QED BY <1>4, <2>1 DEF AskedType, StartFanOut
<1>5. CASE StartListing
  <2>1. UNCHANGED <<sessions, listErrs, given, phase>>
    BY <1>5 DEF StartListing
  <2>2. CASE StartTenantWide
    BY <2>1, <2>2 DEF StartTenantWide, AskedType
  <2>3. CASE StartFanOut(given, {}, {})
    <3>1. \A t \in given : t[1] \in sessions
      BY DEF AskedType
    <3> QED BY <1>4, <2>1, <2>3, <3>1
  <2> QED BY <1>1, <1>5, <2>1, <2>2, <2>3 DEF StartListing
<1>6. CASE UseEligibility
  <2>1. UNCHANGED <<sessions, listErrs, given, phase>>
    BY <1>6 DEF UseEligibility
  <2>2. \A t \in KnownScopes : t[1] \in sessions
    BY <1>0, KnownAskable DEF AskedInv
  <2> QED BY <1>1, <1>4, <1>6, <2>1, <2>2 DEF UseEligibility
<1>7. CASE Quiet \/ ReadLocal \/ ReadNextEligibility \/ Land \/ \E t \in Targets : Call(t)
  BY <1>1, <1>7 DEF Quiet, ReadLocal, Reconcile, Report, Note, Finish, Exit, ReadNextEligibility, Land, Interrupt,
       Ended, RecordElsewhere, vars, listing, Call, StartCall, ReadPage, Refuse, MissDeadline
<1> QED BY <1>2, <1>3, <1>5, <1>6, <1>7 DEF Next, Quiet, Command, Goroutine

\* A call that goes on has pages left.
LEMMA PagesTypeStep == CallsInv /\ PagesType /\ [Next]_vars => PagesType'
<1> SUFFICES ASSUME CallsInv, PagesType, [Next]_vars PROVE PagesType'
  OBVIOUS
<1>0. MaxPages \in Nat /\ 0 < MaxPages /\ NoCall.pages = 0 /\ \A c : EligibilityCall(c).pages = 0
  BY ListingAssumption DEF NoCall, EligibilityCall
<1>1. CASE UNCHANGED calls
  BY <1>1 DEF PagesType
<1>2. ASSUME NEW f, calls' = [t \in Targets |-> f[t]], \A t \in Targets : f[t].pages = 0 \/ f[t] = calls[t]
      PROVE  PagesType'
  BY <1>0, <1>2 DEF PagesType
<1>3. ASSUME NEW t \in Targets, NEW k, calls' = [calls EXCEPT ![t] = k], k.pages = 0 PROVE PagesType'
  BY <1>0, <1>3 DEF PagesType, CallsInv
<1>4. ASSUME NEW t \in Targets, NEW how, Move(t, how) PROVE PagesType'
  <2>1. [NoCall EXCEPT !.state = how].pages = 0
    BY DEF NoCall
  <2> QED BY <1>3, <1>4, <2>1 DEF Move
<1>5. CASE Open
  <2>1. PICK opened \in SUBSET Contexts : UNCHANGED calls \/ calls' = [t \in Targets |->
          IF t[2] = Eligibilities /\ t[1] \in opened THEN EligibilityCall(t[1]) ELSE NoCall]
    BY <1>5 DEF Open
  <2> QED BY <1>0, <1>1, <2>1 DEF PagesType
<1>6. CASE ReadNextEligibility
  <2>1. PICK c \in sessions : calls' = [calls EXCEPT ![Elig(c)] = EligibilityCall(c)]
    BY <1>6 DEF ReadNextEligibility
  <2> QED BY <1>0, <2>1 DEF PagesType, CallsInv
<1>7. ASSUME NEW scopes, calls' = CallsOf(scopes) PROVE PagesType'
  <2>1. [NoCall EXCEPT !.state = "queued"].pages = 0
    BY DEF NoCall
  <2> QED BY <1>0, <1>7, <2>1 DEF PagesType, CallsOf
<1>8. CASE StartTenantWide
  <2>1. [NoCall EXCEPT !.state = "reading"].pages = 0
    BY DEF NoCall
  <2> QED BY <1>0, <1>8, <2>1 DEF PagesType, StartTenantWide
<1>9. CASE StartListing
  BY <1>0, <1>7, <1>8, <1>9 DEF StartListing, StartFanOut, PagesType
<1>10. CASE UseEligibility
  BY <1>1, <1>7, <1>10 DEF UseEligibility, StartFanOut
<1>11. ASSUME NEW t \in Targets, ReadPage(t) PROVE PagesType'
  <2>1. PICK how, got : calls' = [calls EXCEPT ![t] =
               [state |-> how, pages |-> IF how = "reading" THEN calls[t].pages + 1 ELSE 0, got |-> got]]
               /\ (how = "reading" => calls[t].pages + 1 # MaxPages)
    <3>1. PICK answer \in Answers(t) : \E part \in SUBSET answer, more \in BOOLEAN :
            LET pages == calls[t].pages + 1
                got   == calls[t].got \union part
                how   == IF more THEN MoreAfter(pages) ELSE "read"
            IN calls' = [calls EXCEPT ![t] =
                 [state |-> how, pages |-> IF how = "reading" THEN pages ELSE 0,
                  got |-> IF how = "failed" THEN {} ELSE got]]
      BY <1>11 DEF ReadPage
    <3>2. PICK part \in SUBSET answer, more \in BOOLEAN :
            LET pages == calls[t].pages + 1
                got   == calls[t].got \union part
                how   == IF more THEN MoreAfter(pages) ELSE "read"
            IN calls' = [calls EXCEPT ![t] =
                 [state |-> how, pages |-> IF how = "reading" THEN pages ELSE 0,
                  got |-> IF how = "failed" THEN {} ELSE got]]
      BY <3>1
    <3> DEFINE how == IF more THEN MoreAfter(calls[t].pages + 1) ELSE "read"
               got == IF how = "failed" THEN {} ELSE calls[t].got \union part
    <3>3. how = "reading" => calls[t].pages + 1 # MaxPages
      BY DEF MoreAfter
    <3>4. calls' = [calls EXCEPT ![t] =
            [state |-> how, pages |-> IF how = "reading" THEN calls[t].pages + 1 ELSE 0, got |-> got]]
      BY <3>2
    <3> QED BY <3>3, <3>4
  <2>2. calls[t].pages \in Nat /\ calls[t].pages < MaxPages
    BY DEF CallsInv, PagesType
  <2>3. (IF how = "reading" THEN calls[t].pages + 1 ELSE 0) < MaxPages
    BY <1>0, <2>1, <2>2
  <2> QED BY <2>1, <2>3 DEF PagesType, CallsInv
<1>12. ASSUME NEW t \in Targets, Call(t) PROVE PagesType'
  BY <1>4, <1>11, <1>12 DEF Call, StartCall, Refuse, MissDeadline
<1> QED BY <1>1, <1>5, <1>6, <1>9, <1>10, <1>12
        DEF Next, Command, Goroutine, GatherEligibilities, ReadLocal, Reconcile, Report, Note, Finish, Exit, Land,
            Interrupt, Ended, RecordElsewhere, vars, listing

\* The tally.
LEMMA ResultTypeStep == ShapeInv /\ AskedType /\ ResultType /\ [Next]_vars => ResultType'
<1> SUFFICES ASSUME ShapeInv, AskedType, ResultType, [Next]_vars PROVE ResultType'
  OBVIOUS
<1>0. CallsInv /\ sessions \subseteq Contexts /\ Askable(targets)
  BY DEF ShapeInv, AskedInv
<1>1. CASE UNCHANGED res
  BY <1>1 DEF ResultType
<1>2. ASSUME NEW c \in Contexts, NEW errored \in BOOLEAN PROVE Unread(c, Whole, errored) \in UnreadMarks
  BY <1>2 DEF Unread, UnreadMarks, ScopeIds
<1>3. ASSUME NEW scopes, NEW errs \in SUBSET Targets, NEW marks \in SUBSET UnreadMarks,
             StartFanOut(scopes, errs, marks)
      PROVE  ResultType'
  <2>1. {Unread(c, Whole, FALSE) : c \in Uncovered(scopes, marks)} \subseteq UnreadMarks
    BY <1>0, <1>2 DEF Uncovered
  <2> QED BY <1>3, <2>1 DEF StartFanOut, ResultType, Results
<1>4. CASE StartListing
  BY <1>1, <1>3, <1>4 DEF StartListing
<1>5. CASE UseEligibility
  <2> DEFINE errs  == {Elig(c) : c \in FailedEligibilities}
             marks == {Unread(c, Whole, TRUE) : c \in FailedEligibilities}
  <2>1. errs \in SUBSET Targets /\ marks \in SUBSET UnreadMarks
    BY <1>0, <1>2, EligIsTarget DEF FailedEligibilities
  <2>2. StartFanOut(KnownScopes, errs, marks) \/ res' = [rows |-> {}, errs |-> errs, unconfirmed |-> marks]
    BY <1>5 DEF UseEligibility
  <2> HIDE DEF errs, marks
  <2> QED BY <1>3, <2>1, <2>2 DEF ResultType, Results
<1>6. CASE Land
  <2>0. \A t \in targets : t \in Targets /\ t[1] \in Contexts /\ t[2] \in ScopeIds
    BY <1>0, ListingAssumption DEF Askable, Targets
  <2>1. \A t \in targets : Errored(t) \in BOOLEAN
    BY DEF Errored
  <2> DEFINE rows == UNION {calls[t].got : t \in {u \in targets : calls[u].state = "read"}}
             errs == {t \in {u \in targets : Unanswered(u)} : Errored(t)}
             marks == {Unread(t[1], t[2], Errored(t)) : t \in {u \in targets : Unanswered(u)}}
  <2>2. rows \subseteq Scopes /\ errs \subseteq Targets
    BY <1>0, <2>0 DEF CallsInv
  <2>3. ASSUME NEW t \in targets PROVE Unread(t[1], t[2], Errored(t)) \in UnreadMarks
    BY <2>0, <2>1 DEF Unread, UnreadMarks
  <2>4. marks \subseteq UnreadMarks
    BY <2>3
  <2>5. res' = [rows |-> rows, errs |-> res.errs \union errs, unconfirmed |-> res.unconfirmed \union marks]
    BY <1>6 DEF Land
  <2> HIDE DEF rows, errs, marks
  <2> QED BY <2>2, <2>4, <2>5 DEF ResultType, Results
<1> QED BY <1>1, <1>4, <1>5, <1>6
        DEF Next, Command, Goroutine, Open, GatherEligibilities, ReadLocal, Reconcile, Report, Note, Finish, Exit,
            ReadNextEligibility, Interrupt, Ended, RecordElsewhere, vars, listing, Call, StartCall, ReadPage, Refuse,
            MissDeadline

\* The report.
LEMMA ReportTypeStep == ShapeInv /\ AskedType /\ ResultType /\ ReportType /\ [Next]_vars => ReportType'
<1> SUFFICES ASSUME ShapeInv, AskedType, ResultType, ReportType, [Next]_vars PROVE ReportType'
  OBVIOUS
<1>1. CASE UNCHANGED report
  BY <1>1 DEF ReportType
<1>2. \A c \in listErrs : Elig(c) \in Targets
  BY EligIsTarget DEF ShapeInv, AskedInv, AskedType
<1>3. CASE Open
  <2>1. UNCHANGED report \/ report' = [NoReport EXCEPT !.exit = "failed"]
    BY <1>3 DEF Open
  <2> QED BY <2>1 DEF ReportType, Reports, NoReport
<1>4. CASE GatherEligibilities
  <2>1. UNCHANGED report \/ report' = [report EXCEPT !.exit = "interrupted"]
    BY <1>4 DEF GatherEligibilities
  <2> QED BY <2>1 DEF ReportType, Reports
<1>5. CASE Reconcile
  <2>1. PICK gone : report' = [report EXCEPT !.lost = Dropped(res.rows, res.unconfirmed, gone)]
    BY <1>5 DEF Reconcile
  <2>2. Dropped(res.rows, res.unconfirmed, gone) \subseteq Scopes
    BY DEF Dropped
  <2> QED BY <2>1, <2>2 DEF ReportType, Reports
<1>6. CASE Report
  <2>1. \/ report' = [report EXCEPT !.exit = "interrupted"]
        \/ \E how \in {"ok", "failed"} :
             report' = [report EXCEPT !.named = res.unconfirmed, !.errs = Failures, !.exit = how]
    BY <1>6 DEF Report
  <2>2. Failures \subseteq Targets /\ res.unconfirmed \subseteq UnreadMarks
    BY <1>2 DEF Failures, ResultType, Results
  <2> QED BY <2>1, <2>2 DEF ReportType, Reports
<1>7. CASE Note
  <2>1. PICK late \in SUBSET res.unconfirmed, errs \in SUBSET (res.errs \union {Elig(c) : c \in listErrs}),
             how \in {"ok", "failed"} :
          report' = [report EXCEPT !.late = late, !.errs = errs, !.exit = how]
    <3> DEFINE landed == stage = "landed"
               late   == IF landed THEN {u \in res.unconfirmed : ~u.errored} ELSE {}
               errs   == (IF landed THEN res.errs ELSE {}) \union {Elig(c) : c \in listErrs}
               how    == IF listErrs = {} /\ sessions = Contexts THEN "ok" ELSE "failed"
    <3>1. report' = [report EXCEPT !.late = late, !.errs = errs, !.exit = how]
      BY <1>7 DEF Note
    <3>2. late \in SUBSET res.unconfirmed /\ how \in {"ok", "failed"}
      OBVIOUS
    <3>3. errs \in SUBSET (res.errs \union {Elig(c) : c \in listErrs})
      OBVIOUS
    <3> HIDE DEF late, errs, how
    <3> QED BY <3>1, <3>2, <3>3
  <2>2. errs \subseteq Targets /\ late \subseteq UnreadMarks
    BY <1>2 DEF ResultType, Results
  <2> QED BY <2>1, <2>2 DEF ReportType, Reports
<1> QED BY <1>1, <1>3, <1>4, <1>5, <1>6, <1>7
        DEF Next, Command, Goroutine, ReadLocal, Finish, Exit, StartListing, ReadNextEligibility, UseEligibility,
            Land, Interrupt, Ended, RecordElsewhere, vars, Call, StartCall, ReadPage, Refuse, MissDeadline

\* A run starts well typed.
LEMMA TypeInit == Init => TypeInv
<1> SUFFICES ASSUME Init PROVE TypeInv
  OBVIOUS
<1> USE ListingAssumption
<1>1. RunType
  BY DEF Init, RunType, Phases, Stages
<1>2. RecordType
  BY DEF Init, RecordType, Entries
<1>3. AskedType /\ ResultType /\ ReportType
  BY DEF Init, AskedType, ResultType, ReportType, Results, Reports, NoResult, NoReport
<1>4. PagesType
  BY DEF Init, PagesType, NoCall
<1> QED BY <1>1, <1>2, <1>3, <1>4 DEF TypeInv

\* The variables of the listing and of the command keep their types.
THEOREM TypeCorrect == Spec => []TypeOK
<1>1. ListingInv /\ TypeInv /\ [Next]_vars => TypeInv'
  BY RunTypeStep, RecordTypeStep, AskedTypeStep, PagesTypeStep, ResultTypeStep, ReportTypeStep
     DEF ListingInv, ShapeInv, TypeInv
<1>2. ListingInv /\ TypeInv => TypeOK
  <2> SUFFICES ASSUME ListingInv, TypeInv PROVE TypeOK
    OBVIOUS
  <2>1. CallsInv /\ EligibleInv /\ AskedInv /\ RunType /\ RecordType /\ AskedType /\ PagesType
    BY DEF ListingInv, ShapeInv, TypeInv
  <2>2. given \subseteq sessions \X ScopeIds /\ targets \subseteq sessions \X ScopeIds
    BY <2>1 DEF AskedInv, AskedType, Askable
  <2>3. calls \in [Targets -> [state : CallStates, pages : 0..MaxPages, got : SUBSET Scopes]]
    BY <2>1, ListingAssumption DEF CallsInv, PagesType
  <2>4. /\ res.rows \subseteq Scopes /\ res.errs \subseteq Targets /\ res.unconfirmed \subseteq UnreadMarks
        /\ report.lost \subseteq Scopes /\ report.named \subseteq UnreadMarks /\ report.late \subseteq UnreadMarks
        /\ report.exit \in {"none", "ok", "failed", "interrupted"}
    BY DEF TypeInv, ResultType, ReportType, Results, Reports
  <2>5. allScopes \in BOOLEAN
    BY <2>1 DEF RunType
  <2>6. cancelled \in BOOLEAN
    BY <2>1 DEF RunType
  <2> QED BY <2>1, <2>2, <2>3, <2>4, <2>5, <2>6
          DEF TypeOK, EligibleInv, AskedInv, RunType, RecordType, AskedType, Entries, Phases, Stages
<1> QED BY TypeInit, <1>1, <1>2, ListingInvariant, PTL DEF Spec

=============================================================================
