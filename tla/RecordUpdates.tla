---------------------------- MODULE RecordUpdates ----------------------------
(***************************************************************************)
(* What the activation record promises to the processes that share it:     *)
(* every update - the outcome of one `up` or `down`, or one reconciliation *)
(* with a listing - is applied to the record as it stands, in one step,    *)
(* and nothing else changes the record.  ActivationRecord, where an update *)
(* is a lock, a read and a write with other processes in between, is shown *)
(* to implement this.                                                      *)
(***************************************************************************)
EXTENDS ActivationEntries

CONSTANTS Procs

VARIABLES
  clock,    \* the local clock
  record,   \* the record
  intent    \* the update each process has computed and not yet applied

NoIntent == [kind |-> "none"]

Intents ==
  {NoIntent}
  \union [kind : {"result"}, role : Roles, entry : Entry]
  \union [kind : {"listing"}, rows : Listing, unread : SUBSET Roles,
          gone : SUBSET Roles]

\* updateRecord: the record after update i, applied at time t.
Applied(rec, i, t) ==
  LET existing == Live(rec, t)
  IN  Live(IF i.kind = "result"
             THEN MergeEntries(existing, [EmptyRecord EXCEPT ![i.role] = i.entry])
             ELSE ReconcileRecord(existing, i.rows, i.unread, i.gone, t),
           t)

Init == clock \in Int /\ record = EmptyRecord /\ intent = [p \in Procs |-> NoIntent]

\* A process works out an update from whatever it has seen.
Intend(p) ==
  /\ intent[p] = NoIntent
  /\ intent'[p] \in Intents \ {NoIntent}
  /\ intent' = [intent EXCEPT ![p] = intent'[p]]
  /\ UNCHANGED <<clock, record>>

Apply(p) ==
  /\ intent[p] # NoIntent
  /\ record' = Applied(record, intent[p], clock)
  /\ intent' = [intent EXCEPT ![p] = NoIntent]
  /\ UNCHANGED clock

\* It is killed before it has applied it.
Drop(p) ==
  /\ intent' = [intent EXCEPT ![p] = NoIntent]
  /\ UNCHANGED <<clock, record>>

PassTime == clock' \in Int /\ UNCHANGED <<record, intent>>

Next == PassTime \/ \E p \in Procs : Intend(p) \/ Apply(p) \/ Drop(p)

Spec == Init /\ [][Next]_<<clock, record, intent>>

=============================================================================
