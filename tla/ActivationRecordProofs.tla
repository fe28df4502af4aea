------------------------ MODULE ActivationRecordProofs ------------------------
(***************************************************************************)
(* Theorems about ActivationEntries and ActivationRecord, for every set of *)
(* processes, roles and scopes, and for every bound: what merging and      *)
(* reconciling do to an entry, that types are kept, that an update of the  *)
(* record is never interleaved with another, and so that the processes     *)
(* that share the file implement atomic updates.                           *)
(***************************************************************************)
EXTENDS ActivationRecord, SequenceTheorems, TLAPS

-----------------------------------------------------------------------------
(* The operators on entries and records.                                   *)

\* The absent entry is an entry, and the empty record a record.
LEMMA NoEntryType == NoEntry \in Entry /\ EmptyRecord \in Record
BY DEF NoEntry, Entry, EmptyRecord, Record, Statuses, NoTime, NoRequest

\* Reading a record gives a record (readOwnedRecordFile).
LEMMA LiveType ==
  ASSUME NEW rec \in Record, NEW t
  PROVE  Live(rec, t) \in Record
BY NoEntryType DEF Live, Record

\* Merging two entries gives an entry (mergeEntry).
LEMMA MergeEntryType ==
  ASSUME NEW old \in Entry, NEW newer \in Entry
  PROVE  MergeEntry(old, newer) \in Entry
<1>1. FilledFrom(old, newer) \in Entry
  BY DEF FilledFrom, Entry
<1>2. QED
  BY <1>1 DEF MergeEntry

\* Merging two records gives a record (mergeEntries).
LEMMA MergeType ==
  ASSUME NEW existing \in Record, NEW newer \in Record
  PROVE  MergeEntries(existing, newer) \in Record
<1>1. ASSUME NEW r \in Roles
      PROVE  MergeEntry(existing[r], newer[r]) \in Entry
  BY MergeEntryType DEF Record
<1>2. QED
  BY <1>1 DEF MergeEntries, Record

\* So does reconciling a record with a listing (reconcileRecord).
LEMMA ReconcileType ==
  ASSUME NEW previous \in Record, NEW table \in Listing, NEW silent, NEW gone,
         NEW t \in Int
  PROVE  ReconcileRecord(previous, table, silent, gone, t) \in Record
<1>1. KeepAgainstListing(previous, table, silent, gone, t) \in Record
  BY NoEntryType DEF KeepAgainstListing, Record
<1>2. ASSUME NEW r \in Roles
      PROVE  ListedEntry(previous[r], table[r], t) \in Entry
  <2>1. previous[r] \in Entry /\ table[r] \in [listed : BOOLEAN, start : Int, end : Nat]
    BY DEF Record, Listing
  <2>2. QED
    BY <2>1 DEF ListedEntry, Entry, Statuses, NoRequest, NoTime
<1>3. ListedEntries(previous, table, silent, t) \in Record
  BY <1>2, NoEntryType DEF ListedEntries, Record
<1>4. QED
  BY <1>1, <1>3, MergeType DEF ReconcileRecord

\* An update about one role is an update about that role alone: the entries of
\* the others are the ones on disk, as they are read (mergeEntries).
THEOREM MergeTouchesOneRole ==
  ASSUME NEW rec \in Record, NEW r \in Roles, NEW e \in Entry,
         NEW s \in Roles \ {r}
  PROVE  MergeEntries(rec, [EmptyRecord EXCEPT ![r] = e])[s] = rec[s]
BY DEF MergeEntries, EmptyRecord, Present, NoEntry

\* A listed row and a kept entry never meet: reconciling takes each role's entry
\* from the listing or from the record, never from a mixture of the two
\* (keepAgainstListing, listedEntries).
THEOREM ReconcileTakesOneSide ==
  ASSUME NEW previous \in Record, NEW table \in Listing,
         NEW silent, NEW gone, NEW t \in Int, NEW r \in Roles
  PROVE  ReconcileRecord(previous, table, silent, gone, t)[r] \in
           {KeepAgainstListing(previous, table, silent, gone, t)[r],
            ListedEntries(previous, table, silent, t)[r]}
<1> DEFINE kept == KeepAgainstListing(previous, table, silent, gone, t)
           rows == ListedEntries(previous, table, silent, t)
<1>1. ~Present(kept[r]) \/ ~Present(rows[r])
  BY DEF KeepAgainstListing, ListedEntries, KeptHeld, KeptRevoked, Present, NoEntry,
         Held, Revoked
<1>2. QED
  BY <1>1 DEF ReconcileRecord, MergeEntries

\* What a tombstone on disk denies, a reconciliation leaves denied: a listing
\* that still shows the window does not bring the role back (keepAgainstListing).
THEOREM DeniedStaysDenied ==
  ASSUME NEW previous \in Record, NEW table \in Listing,
         NEW silent, NEW gone, NEW t \in Int, NEW r \in Roles,
         table[r].listed,
         Denies(previous[r], table[r].start, t)
  PROVE  ReconcileRecord(previous, table, silent, gone, t)[r] = previous[r]
<1>1. KeptRevoked(previous[r], table[r], r \in silent, t)
  BY DEF KeptRevoked, DeniesListed, Denies
<1>2. /\ KeepAgainstListing(previous, table, silent, gone, t)[r] = previous[r]
      /\ ListedEntries(previous, table, silent, t)[r] = NoEntry
  BY <1>1 DEF KeepAgainstListing, ListedEntries
<1>3. QED
  BY <1>2 DEF ReconcileRecord, MergeEntries, Present, NoEntry

\* An entry at a scope that did not answer is left as it was, whatever the
\* verdicts say (keepAgainstListing: unknown is not empty).
THEOREM UnreadStaysPut ==
  ASSUME NEW previous \in Record, NEW table \in Listing,
         NEW silent, NEW gone, NEW t \in Int, NEW r \in Roles,
         r \in silent, ~table[r].listed
  PROVE  ReconcileRecord(previous, table, silent, gone, t)[r] = previous[r]
           \/ ~Present(previous[r])
<1>1. CASE Present(previous[r])
  <2>1. \/ KeptRevoked(previous[r], table[r], r \in silent, t)
        \/ KeptHeld(previous[r], table[r], r \in silent, r \in gone, t)
    BY <1>1 DEF KeptRevoked, KeptHeld, Held
  <2>2. /\ KeepAgainstListing(previous, table, silent, gone, t)[r] = previous[r]
        /\ ListedEntries(previous, table, silent, t)[r] = NoEntry
    BY <2>1 DEF KeepAgainstListing, ListedEntries
  <2>3. QED
    BY <2>2 DEF ReconcileRecord, MergeEntries, Present, NoEntry
<1>2. QED
  BY <1>1

-----------------------------------------------------------------------------
(* The invariant of the types.                                             *)

\* The listing shows, and is about to show, activations there have been.
ViewInv ==
  \A r \in Roles : \A i \in 1..Len(view[r]) : view[r][i].window \in 0..Len(window)

TypeInv == TypeOK /\ ViewInv

-----------------------------------------------------------------------------
(* Types.                                                                  *)

\* The local clock is an integer.
LEMMA LocalType == TypeOK => local \in Int
BY RecordAssumption DEF TypeOK, local

\* Every point and every outcome named in an action is one of its set.
LEMMA RowType ==
  ASSUME TypeInv, NEW r \in Roles
  PROVE  /\ Listed(r) \in 0..Len(window)
         /\ Current(r) \in 0..Len(window)
         /\ Row(r) \in [listed : BOOLEAN, start : Int, end : Nat]
<1>1. view[r] \in Seq(Shown) /\ view[r] # <<>> /\ window \in Seq(Window)
  BY DEF TypeInv, TypeOK
<1>2. Len(view[r]) \in Nat \ {0}
  BY <1>1, EmptySeq
<1>3. Listed(r) \in 0..Len(window) /\ Current(r) \in 0..Len(window)
  BY <1>1, <1>2 DEF TypeInv, ViewInv, Listed, Current
<1>4. ASSUME Listed(r) # NoWindow
      PROVE  window[Listed(r)] \in Window
  BY <1>1, <1>3, <1>4, ElementOfSeq DEF NoWindow
<1>5. QED
  BY <1>3, <1>4 DEF Row, NotListed, NoTime, Window

\* A new activation is one, and is shown, or not yet.
LEMMA GrantType ==
  ASSUME TypeInv, RecordAssumption, NEW r \in Roles, NEW d \in Durations, Grant(r, d)
  PROVE  (window' \in Seq(Window) /\ view' \in [Roles -> Seq(Shown) \ {<<>>}]) /\ ViewInv'
<1> DEFINE q == Len(window) + 1
           w == [role |-> r, start |-> now, end |-> now + d, over |-> NoTime]
           v == [window |-> q, at |-> now]
<1>1. /\ window \in Seq(Window) /\ now \in Nat /\ d \in Nat
      /\ view \in [Roles -> Seq(Shown) \ {<<>>}]
  BY DEF TypeInv, TypeOK, RecordAssumption
<1>2. w \in Window /\ v \in Shown /\ q \in Nat
  BY <1>1 DEF Window, Shown, NoTime
<1>3. window' = Append(window, w) /\ view' = [view EXCEPT ![r] = Append(@, v)]
  BY DEF Grant, Change
<1>4. window' \in Seq(Window) /\ Len(window') = q
  BY <1>1, <1>2, <1>3, AppendProperties
<1>5. Append(view[r], v) \in Seq(Shown) \ {<<>>}
  BY <1>1, <1>2, AppendProperties
<1>6. view' \in [Roles -> Seq(Shown) \ {<<>>}]
  BY <1>1, <1>3, <1>5
<1>7. ASSUME NEW s \in Roles, NEW i \in 1..Len(view'[s])
      PROVE  view'[s][i].window \in 0..Len(window')
  <2>1. CASE s # r
    BY <1>1, <1>3, <1>4, <1>7, <2>1 DEF TypeInv, ViewInv
  <2>2. CASE s = r
    <3>1. view'[s] = Append(view[r], v)
      BY <1>1, <1>3, <2>2
    <3>2. CASE i = Len(view[r]) + 1
      BY <1>1, <1>2, <1>4, <3>1, <3>2, AppendProperties
    <3>3. CASE i \in 1..Len(view[r])
      <4>1. view'[s][i] = view[r][i]
        BY <1>1, <1>2, <3>1, <3>3, AppendProperties
      <4>2. QED
        BY <1>1, <1>4, <3>3, <4>1 DEF TypeInv, ViewInv
    <3>4. QED
      BY <1>1, <1>2, <1>7, <3>1, <3>2, <3>3, AppendProperties
  <2>3. QED
    BY <2>1, <2>2
<1>8. QED
  BY <1>4, <1>6, <1>7 DEF ViewInv

\* A window that ends is shown, or not yet, as ended.
LEMMA RevokeType ==
  ASSUME TypeInv, NEW r \in Roles, Revoke(r)
  PROVE  (window' \in Seq(Window) /\ view' \in [Roles -> Seq(Shown) \ {<<>>}]) /\ ViewInv'
<1> DEFINE v == [window |-> NoWindow, at |-> now]
<1>1. /\ window \in Seq(Window) /\ now \in Nat
      /\ view \in [Roles -> Seq(Shown) \ {<<>>}]
      /\ Current(r) \in 1..Len(window)
  BY RowType DEF TypeInv, TypeOK, Revoke, Active, NoWindow
<1>2. /\ window' = [window EXCEPT ![Current(r)].over = now]
      /\ view' = [view EXCEPT ![r] = Append(@, v)]
  BY DEF Revoke, Change
<1>3. window[Current(r)] \in Window
  BY <1>1, ElementOfSeq
<1>4. [window[Current(r)] EXCEPT !.over = now] \in Window
  BY <1>1, <1>3 DEF Window
<1>5. window' \in Seq(Window) /\ Len(window') = Len(window)
  BY <1>1, <1>2, <1>4, ExceptSeq
<1>6. v \in Shown
  BY <1>1 DEF Shown, NoWindow
<1>7. Append(view[r], v) \in Seq(Shown) \ {<<>>}
  BY <1>1, <1>6, AppendProperties
<1>8. view' \in [Roles -> Seq(Shown) \ {<<>>}]
  BY <1>1, <1>2, <1>7
<1>9. ASSUME NEW s \in Roles, NEW i \in 1..Len(view'[s])
      PROVE  view'[s][i].window \in 0..Len(window')
  <2>1. CASE s # r
    BY <1>1, <1>2, <1>5, <1>9, <2>1 DEF TypeInv, ViewInv
  <2>2. CASE s = r
    <3>1. view'[s] = Append(view[r], v)
      BY <1>1, <1>2, <2>2
    <3>2. CASE i = Len(view[r]) + 1
      BY <1>1, <1>5, <1>6, <3>1, <3>2, AppendProperties DEF NoWindow
    <3>3. CASE i \in 1..Len(view[r])
      <4>1. view'[s][i] = view[r][i]
        BY <1>1, <1>6, <3>1, <3>3, AppendProperties
      <4>2. QED
        BY <1>1, <1>5, <3>3, <4>1 DEF TypeInv, ViewInv
    <3>4. QED
      BY <1>1, <1>6, <1>9, <3>1, <3>2, <3>3, AppendProperties
  <2>3. QED
    BY <2>1, <2>2
<1>10. QED
  BY <1>5, <1>8, <1>9 DEF ViewInv

\* What is left of a sequence of several is not empty.
LEMMA TailNotEmpty ==
  ASSUME NEW S, NEW s \in Seq(S), Len(s) > 1
  PROVE  Tail(s) # <<>>
<1> DEFINE n == Len(s)
           m == Len(Tail(s))
<1>1. m = n - 1
  BY HeadTailProperties
<1>2. n \in Nat /\ n > 1
  BY LenProperties
<1>3. m # 0
  <2> HIDE DEF m, n
  <2> QED
    BY <1>1, <1>2
<1>4. Len(<<>>) = 0
  OBVIOUS
<1>5. QED
  BY <1>3, <1>4

\* A listing that catches up still shows something.
LEMMA CatchUpType ==
  ASSUME TypeInv, NEW r \in Roles, CatchUp(r)
  PROVE  view' \in [Roles -> Seq(Shown) \ {<<>>}] /\ ViewInv'
<1>1. /\ view \in [Roles -> Seq(Shown) \ {<<>>}]
      /\ view' = [view EXCEPT ![r] = Tail(@)] /\ window' = window
      /\ Len(view[r]) > 1
  BY DEF TypeInv, TypeOK, CatchUp, Lagging
<1>2. /\ Tail(view[r]) \in Seq(Shown) /\ Len(Tail(view[r])) = Len(view[r]) - 1
      /\ \A i \in 1..Len(Tail(view[r])) : Tail(view[r])[i] = view[r][i + 1]
      /\ Len(view[r]) \in Nat
  BY <1>1, HeadTailProperties, LenProperties
<1>3. Tail(view[r]) # <<>>
  BY <1>1, TailNotEmpty
<1>4. view' \in [Roles -> Seq(Shown) \ {<<>>}]
  BY <1>1, <1>2, <1>3
<1>5. ASSUME NEW s \in Roles, NEW i \in 1..Len(view'[s])
      PROVE  view'[s][i].window \in 0..Len(window')
  <2>1. CASE s = r
    BY <1>1, <1>2, <1>5, <2>1 DEF TypeInv, ViewInv
  <2>2. CASE s # r
    BY <1>1, <1>5, <2>2 DEF TypeInv, ViewInv
  <2>3. QED
    BY <2>1, <2>2
<1>6. QED
  BY <1>4, <1>5 DEF ViewInv

\* Answers and entries are built from parts of the right types.
LEMMA AnswerType ==
  ASSUME NEW o \in Outcomes, NEW q \in Nat, NEW s \in Nat, NEW u \in Nat, NEW w \in Nat
  PROVE  /\ NoAnswer \in Answer
         /\ [NoAnswer EXCEPT !.outcome = o] \in Answer
         /\ [NoAnswer EXCEPT !.outcome = o, !.until = u] \in Answer
         /\ [NoAnswer EXCEPT !.outcome = o, !.ended = w] \in Answer
         /\ [NoAnswer EXCEPT !.outcome = o, !.request = q, !.since = s, !.until = u]
              \in Answer
BY DEF NoAnswer, Answer, Outcomes, NoRequest, NoTime, NoWindow

\* A record built of an entry's fields is an entry.
LEMMA EntryType ==
  ASSUME NEW o \in Statuses, NEW q \in Nat, NEW s \in Int,
         NEW c \in {"none", "arm", "local"}, NEW u \in Nat, NEW l \in BOOLEAN,
         NEW w \in Int
  PROVE  [status |-> o, request |-> q, start |-> s, source |-> c, end |-> u,
          listed |-> l, writtenAt |-> w] \in Entry
BY DEF Entry

\* A start is an integer, told or not.
LEMMA StartType ==
  ASSUME NEW x \in Nat, NEW t \in Int
  PROVE  (IF x = NoTime THEN t ELSE x) \in Int
OBVIOUS

\* What an `up` records of an answer is an entry (activationEntry).
LEMMA ActivationEntryType ==
  ASSUME NEW a \in Answer, a.outcome \in {"ACTIVATED", "ALREADY ACTIVE"}, NEW t \in Int
  PROVE  ActivationEntry(a, t) \in Entry
<1>2. a.outcome \in Statuses
  BY DEF Statuses
<1>3. a.request \in Nat /\ a.until \in Nat /\ a.since \in Nat
  BY DEF Answer
<1>4. (IF a.since = NoTime THEN t ELSE a.since) \in Int
  BY <1>3, StartType
<1>5. (IF a.since = NoTime THEN "local" ELSE "arm") \in {"none", "arm", "local"}
  OBVIOUS
<1>6. QED
  BY <1>2, <1>3, <1>4, <1>5, EntryType DEF ActivationEntry

\* A verdict may say that the activation is gone.
LEMMA VerdictType ==
  ASSUME NEW v \in Verdict, NEW b \in BOOLEAN
  PROVE  [v EXCEPT !.gone = b] \in Verdict
BY DEF Verdict

\* Handing a request to ARM keeps the types.
LEMMA SubmitType ==
  ASSUME TypeInv, NEW p \in Procs, NEW r \in Roles, NEW a \in Answer, Submit(p, r, a),
         window' \in Seq(Window), view' \in [Roles -> Seq(Shown) \ {<<>>}], ViewInv'
  PROVE  TypeInv'
BY DEF TypeInv, TypeOK, Submit, reading, Points

\* So does the end of a command, or of its process.
LEMMA ForgetType ==
  ASSUME TypeInv, NEW p \in Procs, Forget(p), file' \in Record, givenUp' \subseteq Nat
  PROVE  TypeInv'
<1>1. [r \in Roles |-> NotListed] \in Listing /\ [r \in Roles |-> NoVerdict] \in [Roles -> Verdict]
  BY DEF Listing, NotListed, NoTime, NoVerdict, Verdict, NoRequest
<1>2. NoAnswer \in Answer
  BY DEF NoAnswer, Answer, Outcomes, NoRequest, NoTime, NoWindow
<1>3. UNCHANGED <<now, slip, commands, window, view>>
  BY DEF Forget, clock, arm
<1>4. QED
  BY <1>1, <1>2, <1>3, NoEntryType DEF TypeInv, TypeOK, ViewInv, Forget, Points

\* Every step keeps the types.
LEMMA TypeStep == RecordAssumption /\ TypeInv /\ [Next]_vars => TypeInv'
<1> SUFFICES ASSUME RecordAssumption, TypeInv, [Next]_vars
             PROVE  TypeInv'
  OBVIOUS
<1> USE DEF TypeInv
<1>a. local \in Int
  BY LocalType
<1>1. CASE Tick
  BY <1>1 DEF Tick, TypeOK, ViewInv, arm, mine, reading
<1>2. CASE StepClockBack
  BY <1>2 DEF StepClockBack, TypeOK, ViewInv, RecordAssumption, arm, mine, reading
<1>3. ASSUME NEW r \in Roles, ARM(r)
      PROVE  TypeInv'
  <2>1. CASE Expire(r)
    BY <2>1, RevokeType DEF Expire, TypeOK, clock, mine, reading
  <2>2. CASE ElsewhereUp(r)
    BY <2>2, GrantType DEF ElsewhereUp, TypeOK, clock, mine, reading
  <2>3. CASE ElsewhereDown(r)
    BY <2>3, RevokeType DEF ElsewhereDown, TypeOK, clock, mine, reading
  <2>4. CASE CatchUp(r)
    BY <2>4, CatchUpType DEF CatchUp, TypeOK, clock, mine, reading
  <2>5. QED
    BY <1>3, <2>1, <2>2, <2>3, <2>4 DEF ARM
<1>4. ASSUME NEW p \in Procs, NEW r \in Roles, Up(p, r)
      PROVE  TypeInv'
  <2>1. CASE UpGranted(p, r)
    <3>1. PICK d \in Durations, told \in Told :
            /\ Grant(r, d)
            /\ Submit(p, r, [NoAnswer EXCEPT
                               !.outcome = "ACTIVATED",
                               !.request = Len(window) + 1,
                               !.since   = IF told THEN now ELSE NoTime,
                               !.until   = IF told THEN now + d ELSE NoTime])
      BY <2>1 DEF UpGranted
    <3>2. /\ Len(window) + 1 \in Nat /\ "ACTIVATED" \in Outcomes
          /\ (IF told THEN now ELSE NoTime) \in Nat
          /\ (IF told THEN now + d ELSE NoTime) \in Nat
      BY LenProperties DEF TypeOK, RecordAssumption, NoTime, Outcomes
    <3>3. [NoAnswer EXCEPT
             !.outcome = "ACTIVATED",
             !.request = Len(window) + 1,
             !.since   = IF told THEN now ELSE NoTime,
             !.until   = IF told THEN now + d ELSE NoTime] \in Answer
      BY <3>2, AnswerType
    <3>4. QED
      BY <3>1, <3>3, GrantType, SubmitType
  <2>2. CASE UpExists(p, r)
    <3>1. PICK until \in {NoTime, Row(r).end} :
            Submit(p, r, [NoAnswer EXCEPT !.outcome = "ALREADY ACTIVE", !.until = until])
      BY <2>2 DEF UpExists
    <3>2. until \in Nat
      BY RowType DEF NoTime
    <3>3. [NoAnswer EXCEPT !.outcome = "ALREADY ACTIVE", !.until = until] \in Answer
      BY <3>2 DEF NoAnswer, Answer, Outcomes, NoRequest, NoTime, NoWindow
    <3>4. UNCHANGED <<window, view>>
      BY <2>2 DEF UpExists, arm
    <3>5. QED
      BY <3>1, <3>3, <3>4, SubmitType DEF TypeOK, ViewInv
  <2>3. QED
    BY <1>4, <2>1, <2>2 DEF Up
<1>5. ASSUME NEW p \in Procs, NEW r \in Roles, Down(p, r)
      PROVE  TypeInv'
  <2>1. CASE DownRevoked(p, r)
    <3>1. [NoAnswer EXCEPT !.outcome = "DEACTIVATED", !.ended = Current(r)] \in Answer
      <4>1. Current(r) \in Nat /\ "DEACTIVATED" \in Outcomes
        BY RowType DEF Outcomes
      <4>2. QED
        BY <4>1, AnswerType
    <3>2. QED
      BY <2>1, <3>1, RevokeType, SubmitType DEF DownRevoked
  <2>2. CASE DownNotActive(p, r)
    <3>1. [NoAnswer EXCEPT !.outcome = "NOT ACTIVE"] \in Answer
      BY DEF NoAnswer, Answer, Outcomes, NoRequest, NoTime, NoWindow
    <3>2. UNCHANGED <<window, view>>
      BY <2>2 DEF DownNotActive, arm
    <3>3. QED
      BY <2>2, <3>1, <3>2, SubmitType DEF DownNotActive, TypeOK, ViewInv
  <2>3. QED
    BY <1>5, <2>1, <2>2 DEF Down
<1>6. ASSUME NEW p \in Procs, RecordResult(p)
      PROVE  TypeInv'
  <2>1. ASSUME answer[p].outcome \in {"ACTIVATED", "ALREADY ACTIVE"}
        PROVE  ActivationEntry(answer[p], local) \in Entry
    <3>1. answer[p] \in Answer
      BY DEF TypeOK
    <3>2. QED
      BY <1>a, <2>1, <3>1, ActivationEntryType
  <2>2. Tombstone(local) \in Entry
    BY <1>a DEF Tombstone, Entry, Statuses, NoTime, NoRequest
  <2>3. fresh' \in [Procs -> Entry]
    BY <1>6, <2>1, <2>2 DEF RecordResult, TypeOK
  <2>4. QED
    BY <1>6, <2>3 DEF RecordResult, TypeOK, ViewInv, Points, clock, arm, reading
<1>7. ASSUME NEW p \in Procs, LockAndRead(p)
      PROVE  TypeInv'
  BY <1>7 DEF LockAndRead, TypeOK, ViewInv, Points, clock, arm, mine, reading
<1>8. ASSUME NEW p \in Procs, WriteResult(p)
      PROVE  TypeInv'
  <2>1. copy[p] \in Record /\ fresh[p] \in Entry /\ answer[p].ended \in Nat /\ givenUp \subseteq Nat
    BY DEF TypeOK, Answer
  <2>2. [EmptyRecord EXCEPT ![target[p]] = fresh[p]] \in Record
    BY <2>1, NoEntryType DEF Record
  <2>3. file' \in Record
    BY <1>8, <2>1, <2>2, LiveType, MergeType DEF WriteResult
  <2>4. givenUp' \subseteq Nat
    BY <1>8, <2>1 DEF WriteResult
  <2>5. QED
    BY <1>8, <2>3, <2>4, ForgetType DEF WriteResult
<1>9. ASSUME NEW p \in Procs, Status(p)
      PROVE  TypeInv'
  <2>1. CASE ReadLocalRecord(p)
    <3>1. Live(file, local) \in Record
      BY LiveType DEF TypeOK
    <3>2. QED
      BY <2>1, <3>1 DEF ReadLocalRecord, TypeOK, ViewInv, Points, clock, arm, mine, reading
  <2>2. CASE ListActivations(p)
    <3>1. PICK silent \in SUBSET Scopes :
            /\ unread' = [unread EXCEPT ![p] = {r \in Roles : ScopeOf[r] \in silent}]
            /\ listing' = [listing EXCEPT ![p] =
                 [r \in Roles |-> IF ScopeOf[r] \in silent THEN NotListed ELSE Row(r)]]
      BY <2>2 DEF ListActivations
    <3>2. [r \in Roles |-> IF ScopeOf[r] \in silent THEN NotListed ELSE Row(r)] \in Listing
      BY RowType DEF Listing, NotListed, NoTime
    <3>3. QED
      BY <2>2, <3>1, <3>2 DEF ListActivations, TypeOK, ViewInv, Points, clock, arm, mine
  <2>3. CASE VerifyConfirming(p)
    <3>1. ASSUME NEW r \in Roles
          PROVE  NoVerdict \in Verdict /\ [NoVerdict EXCEPT !.request = file[r].request] \in Verdict
      BY DEF NoVerdict, Verdict, NoRequest, TypeOK, Record, Entry
    <3>2. QED
      BY <2>3, <3>1 DEF VerifyConfirming, TypeOK, ViewInv, Points, clock, arm, mine
  <2>4. CASE AskAll(p)
    <3>1. PICK gone : verdict' = [verdict EXCEPT ![p] =
                        [r \in Roles |-> [@[r] EXCEPT !.gone = r \in gone]]]
      BY <2>4 DEF AskAll
    <3>2. ASSUME NEW r \in Roles
          PROVE  [verdict[p][r] EXCEPT !.gone = r \in gone] \in Verdict
      <4>1. verdict[p][r] \in Verdict /\ (r \in gone) \in BOOLEAN
        BY DEF TypeOK
      <4>2. QED
        BY <4>1, VerdictType
    <3>3. verdict' \in [Procs -> [Roles -> Verdict]]
      BY <3>1, <3>2 DEF TypeOK
    <3>4. QED
      BY <2>4, <3>3 DEF AskAll, TypeOK, ViewInv, Points, clock, arm, mine
  <2>5. CASE WriteReconciled(p)
    <3>1. /\ copy[p] \in Record /\ listing[p] \in Listing
          /\ givenUp' = givenUp /\ givenUp \subseteq Nat
      BY <2>5 DEF TypeOK, WriteReconciled
    <3>2. file' \in Record
      BY <1>a, <2>5, <3>1, LiveType, ReconcileType DEF WriteReconciled
    <3>3. QED
      BY <2>5, <3>1, <3>2, ForgetType DEF WriteReconciled
  <2>6. QED
    BY <1>9, <2>1, <2>2, <2>3, <2>4, <2>5 DEF Status
<1>10. ASSUME NEW p \in Procs, Die(p)
       PROVE  TypeInv'
  BY <1>10, ForgetType DEF Die, TypeOK
<1>11. CASE UNCHANGED vars
  BY <1>11 DEF TypeOK, ViewInv, vars, clock, arm, mine, reading
<1>12. QED
  BY <1>1, <1>2, <1>3, <1>4, <1>5, <1>6, <1>7, <1>8, <1>9, <1>10, <1>11 DEF Next

\* The types hold at the start.
LEMMA TypeInit == RecordAssumption /\ Init => TypeInv
<1> SUFFICES ASSUME RecordAssumption, Init
             PROVE  TypeInv
  OBVIOUS
<1>1. window = <<>> /\ window \in Seq(Window)
  BY EmptySeq DEF Init
<1>2. [window |-> NoWindow, at |-> 0] \in Shown
  BY DEF Shown, NoWindow
<1>3. /\ <<[window |-> NoWindow, at |-> 0]>> \in Seq(Shown) \ {<<>>}
      /\ Len(<<[window |-> NoWindow, at |-> 0]>>) = 1
  BY <1>2
<1>4. view \in [Roles -> Seq(Shown) \ {<<>>}] /\ ViewInv
  BY <1>1, <1>3 DEF Init, ViewInv, NoWindow
<1>5. NoAnswer \in Answer
  BY DEF NoAnswer, Answer, Outcomes, NoRequest, NoTime, NoWindow
<1>6. NotListed \in [listed : BOOLEAN, start : Int, end : Nat] /\ NoVerdict \in Verdict
  BY DEF NotListed, NoTime, NoVerdict, Verdict, NoRequest
<1>7. QED
  BY <1>1, <1>4, <1>5, <1>6, NoEntryType DEF TypeInv, TypeOK, Init, Points, Listing

\* And in every state.
LEMMA TypeInvariant == Spec => []TypeInv
<1>1. RecordAssumption
  BY RecordAssumption
<1>2. QED
  BY <1>1, TypeInit, TypeStep, PTL DEF Spec

\* Every variable keeps its type: the file is always a well-formed record, ARM's
\* view of a role always shows an activation there has been.
THEOREM TypeCorrect == Spec => []TypeOK
BY TypeInvariant, PTL DEF TypeInv

-----------------------------------------------------------------------------
(* Updates are atomic.  The invariant is inductive by itself: a process is  *)
(* between its read and its write only while it holds the lock.            *)

\* Every step keeps a copy that is about to be written the file, under the lock.
LEMMA AtomicStep ==
  ASSUME Flock, RecordAssumption, TypeInv, UpdatesAreAtomic, [Next]_vars
  PROVE  UpdatesAreAtomic'
<1>a. /\ pc \in [Procs -> Points] /\ copy \in [Procs -> Record]
      /\ None \notin Procs
  BY DEF TypeInv, TypeOK, RecordAssumption
<1>b. ASSUME NEW p \in Procs, NEW r \in Roles, NEW a, Submit(p, r, a)
      PROVE  UpdatesAreAtomic'
  BY <1>a, <1>b DEF Submit, UpdatesAreAtomic
<1>c. ASSUME NEW p \in Procs, Forget(p),
             pc[p] \in {"writing", "reconciling"} \/ UNCHANGED file
      PROVE  UpdatesAreAtomic'
  BY <1>a, <1>c DEF Forget, UpdatesAreAtomic
<1>d. ASSUME UNCHANGED <<pc, holder, copy, file>>
      PROVE  UpdatesAreAtomic'
  BY <1>d DEF UpdatesAreAtomic
<1>1. CASE Tick \/ StepClockBack
  BY <1>1, <1>d DEF Tick, StepClockBack
<1>2. ASSUME NEW r \in Roles, ARM(r)
      PROVE  UpdatesAreAtomic'
  BY <1>2, <1>d DEF ARM, Expire, ElsewhereUp, ElsewhereDown, CatchUp
<1>3. ASSUME NEW p \in Procs, NEW r \in Roles, Up(p, r) \/ Down(p, r)
      PROVE  UpdatesAreAtomic'
  BY <1>3, <1>b DEF Up, UpGranted, UpExists, Down, DownRevoked, DownNotActive
<1>4. ASSUME NEW p \in Procs, RecordResult(p)
      PROVE  UpdatesAreAtomic'
  BY <1>4, <1>a DEF RecordResult, UpdatesAreAtomic
<1>5. ASSUME NEW p \in Procs, LockAndRead(p)
      PROVE  UpdatesAreAtomic'
  <2>1. \A q \in Procs : pc[q] \notin {"writing", "reconciling"}
    BY <1>5, <1>a DEF LockAndRead, UpdatesAreAtomic
  <2>2. /\ holder' = p /\ copy' = [copy EXCEPT ![p] = file] /\ file' = file
        /\ \A q \in Procs \ {p} : pc'[q] = pc[q]
    BY <1>5, <1>a DEF LockAndRead
  <2>3. QED
    BY <1>a, <2>1, <2>2 DEF UpdatesAreAtomic
<1>6. ASSUME NEW p \in Procs, WriteResult(p) \/ WriteReconciled(p) \/ Die(p)
      PROVE  UpdatesAreAtomic'
  BY <1>6, <1>c DEF WriteResult, WriteReconciled, Die
<1>7. ASSUME NEW p \in Procs,
             ReadLocalRecord(p) \/ ListActivations(p) \/ VerifyConfirming(p) \/ AskAll(p)
      PROVE  UpdatesAreAtomic'
  BY <1>7, <1>a DEF ReadLocalRecord, ListActivations, VerifyConfirming, AskAll,
                    UpdatesAreAtomic
<1>8. CASE UNCHANGED vars
  BY <1>8, <1>d DEF vars
<1>9. QED
  BY <1>1, <1>2, <1>3, <1>4, <1>5, <1>6, <1>7, <1>8 DEF Next, Status

\* Where flock(2) is honoured, what an update merges into is what is on disk:
\* no two updates of the record overlap, however many processes there are.
THEOREM UpdatesAtomic == ASSUME Flock PROVE Spec => []UpdatesAreAtomic
<1>1. Init => UpdatesAreAtomic
  BY DEF Init, UpdatesAreAtomic
<1>2. RecordAssumption
  BY RecordAssumption
<1>3. TypeInv /\ UpdatesAreAtomic /\ [Next]_vars => UpdatesAreAtomic'
  BY <1>2, AtomicStep
<1>4. QED
  BY <1>1, <1>3, TypeInvariant, PTL DEF Spec

-----------------------------------------------------------------------------
(* The refinement.  intent maps a process to the update it has computed and *)
(* not yet applied; the step that writes the file applies it.              *)

\* A process that has a result to record is about some role.
TargetInv ==
  \A p \in Procs : pc[p] \in {"submitted", "landed", "writing"} => target[p] \in Roles

\* Every step keeps a process with a result one that has a role.
LEMMA TargetStep == TypeInv /\ TargetInv /\ [Next]_vars => TargetInv'
<1> SUFFICES ASSUME TypeInv, TargetInv, [Next]_vars
             PROVE  TargetInv'
  OBVIOUS
<1>a. pc \in [Procs -> Points] /\ target \in [Procs -> Roles \union {None}]
  BY DEF TypeInv, TypeOK
<1>b. ASSUME NEW p \in Procs, Forget(p)
      PROVE  TargetInv'
  BY <1>a, <1>b DEF Forget, TargetInv
<1>1. CASE Tick \/ StepClockBack
  BY <1>1 DEF Tick, StepClockBack, TargetInv, mine
<1>2. ASSUME NEW r \in Roles, ARM(r)
      PROVE  TargetInv'
  BY <1>2 DEF ARM, Expire, ElsewhereUp, ElsewhereDown, CatchUp, TargetInv, mine
<1>3. ASSUME NEW p \in Procs, NEW r \in Roles, Up(p, r) \/ Down(p, r)
      PROVE  TargetInv'
  <2>1. PICK a : Submit(p, r, a)
    BY <1>3 DEF Up, UpGranted, UpExists, Down, DownRevoked, DownNotActive
  <2>2. QED
    BY <1>a, <2>1 DEF Submit, TargetInv
<1>4. ASSUME NEW p \in Procs, RecordResult(p) \/ LockAndRead(p)
      PROVE  TargetInv'
  BY <1>4, <1>a DEF RecordResult, LockAndRead, TargetInv, mine
<1>5. ASSUME NEW p \in Procs, WriteResult(p) \/ WriteReconciled(p) \/ Die(p)
      PROVE  TargetInv'
  BY <1>5, <1>b DEF WriteResult, WriteReconciled, Die
<1>6. ASSUME NEW p \in Procs,
             ReadLocalRecord(p) \/ ListActivations(p) \/ VerifyConfirming(p) \/ AskAll(p)
      PROVE  TargetInv'
  BY <1>6, <1>a DEF ReadLocalRecord, ListActivations, VerifyConfirming, AskAll,
                    TargetInv, mine
<1>7. CASE UNCHANGED vars
  BY <1>7 DEF vars, mine, TargetInv
<1>8. QED
  BY <1>1, <1>2, <1>3, <1>4, <1>5, <1>6, <1>7 DEF Next, Status

\* And so it is in every state.
LEMMA TargetInvariant == Spec => []TargetInv
<1>1. Init => TargetInv
  BY DEF Init, TargetInv
<1>2. QED
  BY <1>1, TargetStep, TypeInvariant, PTL DEF Spec

\* What intent is, point by point.
LEMMA IntentOf ==
  ASSUME NEW p \in Procs
  PROVE  /\ pc[p] \in {"landed", "writing"} =>
              intent[p] = [kind |-> "result", role |-> target[p], entry |-> fresh[p]]
         /\ pc[p] \in {"verified", "reconciling"} =>
              intent[p] = [kind |-> "listing", rows |-> listing[p],
                           unread |-> unread[p], gone |-> Gone(p)]
         /\ pc[p] \notin {"landed", "writing", "verified", "reconciling"} =>
              intent[p] = [kind |-> "none"]
BY DEF intent

\* What a process intends next, in the words of its own next state.
LEMMA NextIntentOf ==
  ASSUME NEW p \in Procs
  PROVE  /\ pc'[p] \in {"landed", "writing"} =>
              intent'[p] = [kind |-> "result", role |-> target'[p], entry |-> fresh'[p]]
         /\ pc'[p] \in {"verified", "reconciling"} =>
              intent'[p] = [kind |-> "listing", rows |-> listing'[p],
                            unread |-> unread'[p], gone |-> Gone(p)']
         /\ pc'[p] \notin {"landed", "writing", "verified", "reconciling"} =>
              intent'[p] = [kind |-> "none"]
BY DEF intent

\* The operators the abstract module has of its own are those of this one.
LEMMA SameOperators ==
  /\ Atomic!Intents = {[kind |-> "none"]}
       \union [kind : {"result"}, role : Roles, entry : Entry]
       \union [kind : {"listing"}, rows : Listing, unread : SUBSET Roles,
               gone : SUBSET Roles]
  /\ Atomic!NoIntent = [kind |-> "none"]
BY DEF Atomic!Intents, Atomic!NoIntent, Atomic!Entry, Entry, Atomic!Listing, Listing,
       Atomic!Statuses, Statuses

\* The two modules read a record alike,
LEMMA SameLive ==
  ASSUME NEW rec, NEW t
  PROVE  Atomic!Live(rec, t) = Live(rec, t)
BY DEF Atomic!Live, Live, Atomic!Stale, Stale, Atomic!WrittenInFuture, WrittenInFuture,
       Atomic!Revoked, Revoked, Atomic!PastCeiling, PastCeiling, Atomic!Expired, Expired,
       Atomic!NoEntry, NoEntry, Atomic!NoTime, NoTime, Atomic!NoRequest, NoRequest

\* merge one alike,
LEMMA SameMerge ==
  ASSUME NEW old, NEW new
  PROVE  Atomic!MergeEntries(old, new) = MergeEntries(old, new)
BY DEF Atomic!MergeEntries, MergeEntries, Atomic!MergeEntry, MergeEntry,
       Atomic!FilledFrom, FilledFrom, Atomic!NewActivation, NewActivation,
       Atomic!Present, Present, Atomic!Revoked, Revoked,
       Atomic!NoTime, NoTime, Atomic!NoRequest, NoRequest

\* and reconcile one alike.
LEMMA SameReconcile ==
  ASSUME NEW rec, NEW rows, NEW silent, NEW gone, NEW t
  PROVE  Atomic!ReconcileRecord(rec, rows, silent, gone, t)
           = ReconcileRecord(rec, rows, silent, gone, t)
<1>1. Atomic!KeepAgainstListing(rec, rows, silent, gone, t)
        = KeepAgainstListing(rec, rows, silent, gone, t)
  BY DEF Atomic!KeepAgainstListing, KeepAgainstListing, Atomic!KeptRevoked, KeptRevoked,
         Atomic!KeptHeld, KeptHeld, Atomic!DeniesListed, DeniesListed, Atomic!Denies, Denies,
         Atomic!Held, Held, Atomic!Confirming, Confirming, Atomic!Present, Present,
         Atomic!Revoked, Revoked, Atomic!PastCeiling, PastCeiling,
         Atomic!WrittenInFuture, WrittenInFuture,
         Atomic!NoEntry, NoEntry, Atomic!NoTime, NoTime, Atomic!NoRequest, NoRequest
<1>2. Atomic!ListedEntries(rec, rows, silent, t) = ListedEntries(rec, rows, silent, t)
  BY DEF Atomic!ListedEntries, ListedEntries, Atomic!KeptRevoked, KeptRevoked,
         Atomic!DeniesListed, DeniesListed, Atomic!Denies, Denies,
         Atomic!ListedEntry, ListedEntry, Atomic!Held, Held, Atomic!Present, Present,
         Atomic!Revoked, Revoked, Atomic!WrittenInFuture, WrittenInFuture,
         Atomic!NoEntry, NoEntry, Atomic!NoTime, NoTime, Atomic!NoRequest, NoRequest
<1>3. QED
  BY <1>1, <1>2, SameMerge DEF Atomic!ReconcileRecord, ReconcileRecord

\* A step of p leaves the intents of the others alone.
LEMMA SameIntent ==
  ASSUME NEW q \in Procs,
         pc'[q] = pc[q], target'[q] = target[q], fresh'[q] = fresh[q],
         listing'[q] = listing[q], unread'[q] = unread[q], verdict'[q] = verdict[q]
  PROVE  intent'[q] = intent[q]
BY DEF intent, Gone

\* A step of one process changes its intent alone.
LEMMA IntentChange ==
  ASSUME NEW p \in Procs, \A q \in Procs \ {p} : intent'[q] = intent[q]
  PROVE  intent' = [intent EXCEPT ![p] = intent'[p]]
<1>1. /\ intent = [q \in Procs |-> intent[q]]
      /\ intent' = [q \in Procs |-> intent'[q]]
  BY DEF intent
<1>2. QED
  BY <1>1

\* A step of none changes no intent.
LEMMA NoIntentChange ==
  ASSUME \A q \in Procs : intent'[q] = intent[q]
  PROVE  intent' = intent
<1>1. /\ intent = [q \in Procs |-> intent[q]]
      /\ intent' = [q \in Procs |-> intent'[q]]
  BY DEF intent
<1>2. QED
  BY <1>1

\* The command of p ends.
LEMMA ForgetIntent ==
  ASSUME TypeInv, NEW p \in Procs, Forget(p)
  PROVE  /\ intent' = [intent EXCEPT ![p] = Atomic!NoIntent]
         /\ local' = local
<1>1. ASSUME NEW q \in Procs \ {p}
      PROVE  intent'[q] = intent[q]
  BY SameIntent DEF Forget, TypeInv, TypeOK
<1>2. pc'[p] = "idle"
  BY DEF Forget, TypeInv, TypeOK
<1>3. intent'[p] = Atomic!NoIntent
  BY <1>2, NextIntentOf, SameOperators
<1>4. intent' = [intent EXCEPT ![p] = intent'[p]]
  BY <1>1, IntentChange
<1>5. QED
  BY <1>3, <1>4 DEF Forget, local, clock

AtomicVars == <<local, file, intent>>

\* Every step of the processes is an atomic update or none.
LEMMA RefinementStep ==
  ASSUME Flock, RecordAssumption, TypeInv, TypeInv', UpdatesAreAtomic, TargetInv, [Next]_vars
  PROVE  [Atomic!Next]_AtomicVars
<1>a. /\ pc \in [Procs -> Points] /\ target \in [Procs -> Roles \union {None}]
      /\ fresh \in [Procs -> Entry] /\ listing \in [Procs -> Listing]
      /\ unread \in [Procs -> SUBSET Roles] /\ verdict \in [Procs -> [Roles -> Verdict]]
      /\ local \in Int /\ local' \in Int
  <2>1. now' \in Nat /\ slip' \in Nat
    BY DEF TypeInv, TypeOK
  <2>2. local' \in Int
    BY <2>1 DEF local, RecordAssumption
  <2>3. QED
    BY <2>2, LocalType DEF TypeInv, TypeOK
<1>1. CASE Tick \/ StepClockBack
  <2>1. ASSUME NEW q \in Procs
        PROVE  intent'[q] = intent[q]
    BY <1>1, SameIntent DEF Tick, StepClockBack, mine, reading
  <2>2. intent' = intent
    BY <2>1, NoIntentChange
  <2>3. Atomic!PassTime
    BY <1>1, <1>a, <2>2 DEF Atomic!PassTime, Tick, StepClockBack
  <2>4. QED
    BY <2>3 DEF Atomic!Next
<1>2. ASSUME NEW r \in Roles, ARM(r)
      PROVE  UNCHANGED AtomicVars
  <2>1. ASSUME NEW q \in Procs
        PROVE  intent'[q] = intent[q]
    BY <1>2, SameIntent DEF ARM, Expire, ElsewhereUp, ElsewhereDown, CatchUp, mine, reading
  <2>2. intent' = intent
    BY <2>1, NoIntentChange
  <2>3. QED
    BY <1>2, <2>2 DEF ARM, Expire, ElsewhereUp, ElsewhereDown, CatchUp, AtomicVars, local, clock
<1>3. ASSUME NEW p \in Procs, NEW r \in Roles, Up(p, r) \/ Down(p, r)
      PROVE  UNCHANGED AtomicVars
  <2>1. PICK a : Submit(p, r, a)
    BY <1>3 DEF Up, UpGranted, UpExists, Down, DownRevoked, DownNotActive
  <2>2. ASSUME NEW q \in Procs \ {p}
        PROVE  intent'[q] = intent[q]
    BY <1>a, <2>1, SameIntent DEF Submit, reading
  <2>3. intent'[p] = intent[p]
    <3>1. pc[p] = "idle" /\ pc'[p] = "submitted"
      BY <1>a, <2>1 DEF Submit
    <3>2. QED
      BY <3>1, IntentOf, NextIntentOf
  <2>4. intent' = intent
    BY <2>2, <2>3, NoIntentChange
  <2>5. QED
    BY <2>1, <2>4 DEF Submit, AtomicVars, local
<1>4. ASSUME NEW p \in Procs, RecordResult(p)
      PROVE  Atomic!Intend(p)
  <2>1. ASSUME NEW q \in Procs \ {p}
        PROVE  intent'[q] = intent[q]
    BY <1>4, <1>a, SameIntent DEF RecordResult, reading
  <2>2. intent' = [intent EXCEPT ![p] = intent'[p]]
    BY <2>1, IntentChange
  <2>3. pc[p] = "submitted" /\ pc'[p] = "landed" /\ target'[p] \in Roles
    BY <1>4, <1>a DEF RecordResult, TargetInv
  <2>4. intent[p] = Atomic!NoIntent
    BY <2>3, IntentOf, SameOperators
  <2>5. fresh'[p] \in Entry
    BY DEF TypeInv, TypeOK
  <2>6. intent'[p] = [kind |-> "result", role |-> target'[p], entry |-> fresh'[p]]
    BY <2>3, NextIntentOf
  <2>7. intent'[p] \in Atomic!Intents \ {Atomic!NoIntent}
    BY <2>3, <2>5, <2>6, SameOperators
  <2>8. UNCHANGED <<local, file>>
    BY <1>4 DEF RecordResult, local, clock
  <2>9. QED
    BY <2>2, <2>4, <2>7, <2>8 DEF Atomic!Intend
<1>5. ASSUME NEW p \in Procs, LockAndRead(p)
      PROVE  UNCHANGED AtomicVars
  <2>1. ASSUME NEW q \in Procs \ {p}
        PROVE  intent'[q] = intent[q]
    BY <1>5, <1>a, SameIntent DEF LockAndRead, mine, reading
  <2>2. intent'[p] = intent[p]
    <3>1. /\ UNCHANGED <<target, fresh, listing, unread, verdict>>
          /\ \/ pc[p] = "landed" /\ pc'[p] = "writing"
             \/ pc[p] = "verified" /\ pc'[p] = "reconciling"
      BY <1>5, <1>a DEF LockAndRead, mine, reading
    <3>2. CASE pc[p] = "landed" /\ pc'[p] = "writing"
      <4>1. intent[p] = [kind |-> "result", role |-> target[p], entry |-> fresh[p]]
        BY <3>2, IntentOf
      <4>2. intent'[p] = [kind |-> "result", role |-> target'[p], entry |-> fresh'[p]]
        BY <3>2, NextIntentOf
      <4>3. QED
        BY <3>1, <4>1, <4>2
    <3>3. CASE pc[p] = "verified" /\ pc'[p] = "reconciling"
      <4>1. intent[p] = [kind |-> "listing", rows |-> listing[p], unread |-> unread[p],
                         gone |-> Gone(p)]
        BY <3>3, IntentOf
      <4>2. intent'[p] = [kind |-> "listing", rows |-> listing'[p], unread |-> unread'[p],
                          gone |-> Gone(p)']
        BY <3>3, NextIntentOf
      <4>3. Gone(p)' = Gone(p)
        BY <3>1 DEF Gone
      <4>4. QED
        BY <3>1, <4>1, <4>2, <4>3
    <3>4. QED
      BY <3>1, <3>2, <3>3
  <2>3. intent' = intent
    BY <2>1, <2>2, NoIntentChange
  <2>4. QED
    BY <1>5, <2>3 DEF LockAndRead, AtomicVars, local, clock
<1>6. ASSUME NEW p \in Procs, WriteResult(p)
      PROVE  Atomic!Apply(p)
  <2>1. /\ pc[p] = "writing" /\ copy[p] = file /\ Forget(p)
        /\ file' = Live(MergeEntries(Live(copy[p], local),
                                     [EmptyRecord EXCEPT ![target[p]] = fresh[p]]), local)
    BY <1>6 DEF WriteResult, UpdatesAreAtomic
  <2>2. intent[p] = [kind |-> "result", role |-> target[p], entry |-> fresh[p]]
    BY <2>1, IntentOf
  <2>3. file' = Atomic!Applied(file, intent[p], local)
    BY <2>1, <2>2, SameLive, SameMerge
       DEF Atomic!Applied, Atomic!EmptyRecord, EmptyRecord, Atomic!NoEntry, NoEntry,
           Atomic!NoTime, NoTime, Atomic!NoRequest, NoRequest
  <2>4. intent[p] # Atomic!NoIntent
    BY <2>2, SameOperators
  <2>5. QED
    BY <2>1, <2>3, <2>4, ForgetIntent DEF Atomic!Apply
<1>7. ASSUME NEW p \in Procs, WriteReconciled(p)
      PROVE  Atomic!Apply(p)
  <2>1. /\ pc[p] = "reconciling" /\ copy[p] = file /\ Forget(p)
        /\ file' = Live(ReconcileRecord(Live(copy[p], local), listing[p], unread[p],
                                        Gone(p), local), local)
    BY <1>7 DEF WriteReconciled, UpdatesAreAtomic
  <2>2. intent[p] = [kind |-> "listing", rows |-> listing[p], unread |-> unread[p],
                     gone |-> Gone(p)]
    BY <2>1, IntentOf
  <2>3. file' = Atomic!Applied(file, intent[p], local)
    BY <2>1, <2>2, SameLive, SameReconcile DEF Atomic!Applied
  <2>4. intent[p] # Atomic!NoIntent
    BY <2>2, SameOperators
  <2>5. QED
    BY <2>1, <2>3, <2>4, ForgetIntent DEF Atomic!Apply
<1>8. ASSUME NEW p \in Procs, Die(p)
      PROVE  Atomic!Drop(p)
  BY <1>8, ForgetIntent DEF Die, Atomic!Drop
<1>9. ASSUME NEW p \in Procs,
             ReadLocalRecord(p) \/ ListActivations(p) \/ VerifyConfirming(p)
      PROVE  UNCHANGED AtomicVars
  <2>1. ASSUME NEW q \in Procs \ {p}
        PROVE  intent'[q] = intent[q]
    BY <1>9, <1>a, SameIntent
       DEF ReadLocalRecord, ListActivations, VerifyConfirming, mine
  <2>2. intent'[p] = intent[p]
    <3>1. /\ pc[p] \in {"idle", "listing", "listed"}
          /\ pc'[p] \in {"listing", "listed", "asked"}
      BY <1>9, <1>a DEF ReadLocalRecord, ListActivations, VerifyConfirming
    <3>2. QED
      BY <3>1, IntentOf, NextIntentOf
  <2>3. intent' = intent
    BY <2>1, <2>2, NoIntentChange
  <2>4. QED
    BY <1>9, <2>3
       DEF ReadLocalRecord, ListActivations, VerifyConfirming, AtomicVars, local, clock
<1>10. ASSUME NEW p \in Procs, AskAll(p)
       PROVE  Atomic!Intend(p)
  <2>1. ASSUME NEW q \in Procs \ {p}
        PROVE  intent'[q] = intent[q]
    BY <1>10, <1>a, SameIntent DEF AskAll, mine
  <2>2. intent' = [intent EXCEPT ![p] = intent'[p]]
    BY <2>1, IntentChange
  <2>3. pc[p] = "asked" /\ pc'[p] = "verified"
    BY <1>10, <1>a DEF AskAll
  <2>4. intent[p] = Atomic!NoIntent
    BY <2>3, IntentOf, SameOperators
  <2>5. /\ listing'[p] \in Listing /\ unread'[p] \in SUBSET Roles
        /\ Gone(p)' \in SUBSET Roles
    BY DEF TypeInv, TypeOK, Gone
  <2>6. intent'[p] = [kind |-> "listing", rows |-> listing'[p], unread |-> unread'[p],
                      gone |-> Gone(p)']
    BY <2>3, NextIntentOf
  <2>7. intent'[p] \in Atomic!Intents \ {Atomic!NoIntent}
    BY <2>5, <2>6, SameOperators
  <2>8. UNCHANGED <<local, file>>
    BY <1>10 DEF AskAll, local, clock
  <2>9. QED
    BY <2>2, <2>4, <2>7, <2>8 DEF Atomic!Intend
<1>11. CASE UNCHANGED vars
  <2>1. ASSUME NEW q \in Procs
        PROVE  intent'[q] = intent[q]
    BY <1>11, SameIntent DEF vars, mine, reading
  <2>2. intent' = intent
    BY <2>1, NoIntentChange
  <2>3. QED
    BY <1>11, <2>2 DEF vars, AtomicVars, local, clock
<1>12. QED
  BY <1>1, <1>2, <1>3, <1>4, <1>5, <1>6, <1>7, <1>8, <1>9, <1>10, <1>11
     DEF Next, Status, Atomic!Next

\* The processes sharing the file, with their locks, reads, writes and deaths,
\* implement a record that is updated in one step (updateRecord, lockRecord).
THEOREM RecordRefinesUpdates == ASSUME Flock PROVE Spec => ImplementsAtomicUpdates
<1>1. RecordAssumption
  BY RecordAssumption
<1>2. Init => Atomic!Init
  <2> SUFFICES ASSUME Init
               PROVE  Atomic!Init
    OBVIOUS
  <2>1. local \in Int /\ file = Atomic!EmptyRecord
    BY <1>1, TypeInit, LocalType
       DEF TypeInv, Init, EmptyRecord, Atomic!EmptyRecord, NoEntry, Atomic!NoEntry,
           NoTime, Atomic!NoTime, NoRequest, Atomic!NoRequest
  <2>2. ASSUME NEW p \in Procs
        PROVE  intent[p] = Atomic!NoIntent
    BY IntentOf, SameOperators DEF Init
  <2>3. intent = [p \in Procs |-> intent[p]]
    BY DEF intent
  <2>4. QED
    BY <2>1, <2>2, <2>3 DEF Atomic!Init
<1>3. /\ TypeInv /\ TypeInv' /\ UpdatesAreAtomic /\ TargetInv /\ [Next]_vars
      => [Atomic!Next]_AtomicVars
  BY <1>1, RefinementStep
<1>4. Spec => []UpdatesAreAtomic
  BY UpdatesAtomic
<1>5. QED
  BY <1>2, <1>3, <1>4, TypeInvariant, TargetInvariant, PTL
     DEF Spec, ImplementsAtomicUpdates, Atomic!Spec, AtomicVars

=============================================================================
