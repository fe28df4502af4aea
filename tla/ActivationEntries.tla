------------------------- MODULE ActivationEntries -------------------------
(***************************************************************************)
(* The activation record's entries, and what the code computes from them:  *)
(* when an entry has nothing left to say, how a fresh entry is folded into *)
(* the one on disk, and which entries survive a listing of ARM             *)
(* (internal/cli/record.go and internal/cli/reconcile.go).                 *)
(*                                                                         *)
(* A record is a function from role to entry: the file keeps at most one   *)
(* entry per key, and a key is one (context, scope, role) of the account   *)
(* that owns the file.  NoEntry is the absent entry.  Times are natural    *)
(* numbers, 0 (NoTime) being Go's zero time; request 0 (NoRequest) is the  *)
(* empty request id.                                                       *)
(*                                                                         *)
(* A definition marked MUTATION is the one below it with a mistake in it:  *)
(* put in its place it must break the property PROJECT.json names for it.  *)
(***************************************************************************)
EXTENDS Integers

CONSTANTS
  Roles,      \* the keys a record can hold
  Ceiling,    \* recordCeiling: how long the record may outrank ARM's listing
  Tolerance   \* recordClockTolerance: how far ahead WrittenAt may sit

ASSUME CeilingAssumption   == Ceiling \in Nat
ASSUME ToleranceAssumption == Tolerance \in Nat

NoTime    == 0
NoRequest == 0

Statuses == {"NONE", "ACTIVATED", "ALREADY ACTIVE", "REVOKED"}

Entry == [status    : Statuses,
          request   : Nat,
          start     : Int,
          source    : {"none", "arm", "local"},
          end       : Nat,
          listed    : BOOLEAN,
          writtenAt : Int]

NoEntry == [status |-> "NONE", request |-> NoRequest, start |-> NoTime,
            source |-> "none", end |-> NoTime, listed |-> FALSE,
            writtenAt |-> NoTime]

Record      == [Roles -> Entry]
EmptyRecord == [r \in Roles |-> NoEntry]

-----------------------------------------------------------------------------
(* One entry, read at local time t.                                        *)

Present(e) == e.status # "NONE"
Revoked(e) == e.status = "REVOKED"
Held(e)    == Present(e) /\ ~Revoked(e)

Expired(e, t)         == e.end # NoTime /\ t >= e.end
WrittenInFuture(e, t) == e.writtenAt > t + Tolerance
PastCeiling(e, t)     == t - e.writtenAt > Ceiling
\* MUTATION: the ceiling does not apply.
ConfirmingForever(e, t) == Held(e) /\ ~e.listed

Confirming(e, t)      == Held(e) /\ ~e.listed /\ ~PastCeiling(e, t)

\* MUTATION: a tombstone does not age.
StaleButTombstones(e, t) ==
  WrittenInFuture(e, t) \/ (~Revoked(e) /\ Expired(e, t))

Stale(e, t) ==
  \/ WrittenInFuture(e, t)
  \/ IF Revoked(e) THEN PastCeiling(e, t) ELSE Expired(e, t)

\* A tombstone suppresses a listed window that did not start after it.
Denies(e, start, t) ==
  Revoked(e) /\ ~WrittenInFuture(e, t) /\ start <= e.writtenAt

\* What a read of the file returns at time t, and what a write leaves in it.
Live(rec, t) == [r \in Roles |-> IF Stale(rec[r], t) THEN NoEntry ELSE rec[r]]

-----------------------------------------------------------------------------
(* Folding fresh entries into the record.                                  *)

\* Fields of the old entry that the fresh one has no better answer for.
FilledFrom(old, fresh) ==
  LET keepsStart == fresh.source # "arm" /\ old.source = "arm"
  IN  [status    |-> IF fresh.status = "ALREADY ACTIVE" THEN old.status
                                                        ELSE fresh.status,
       request   |-> IF fresh.request = NoRequest THEN old.request
                                                  ELSE fresh.request,
       start     |-> IF keepsStart THEN old.start ELSE fresh.start,
       source    |-> IF keepsStart THEN old.source ELSE fresh.source,
       end       |-> IF fresh.end = NoTime THEN old.end ELSE fresh.end,
       listed    |-> fresh.listed \/ old.listed,
       writtenAt |-> fresh.writtenAt]

NewActivation(old, fresh) ==
  fresh.request # NoRequest /\ fresh.request # old.request

MergeEntry(old, fresh) ==
  IF Revoked(old) \/ Revoked(fresh) \/ NewActivation(old, fresh)
    THEN fresh
    ELSE FilledFrom(old, fresh)

MergeEntries(existing, fresh) ==
  [r \in Roles |->
     IF ~Present(fresh[r])         THEN existing[r]
     ELSE IF ~Present(existing[r]) THEN fresh[r]
     ELSE MergeEntry(existing[r], fresh[r])]

-----------------------------------------------------------------------------
(* Reconciling the record with a listing.  listing[r] is the activation    *)
(* ARM lists for r, a record with its window's start and end, or NotListed; *)
(* unread is the set of roles whose scope was not answered for; gone the   *)
(* set of roles whose verdict is verdictGone.                              *)

NotListed == [listed |-> FALSE, start |-> NoTime, end |-> NoTime]
Listing   == [Roles -> [listed : BOOLEAN, start : Int, end : Nat]]

DeniesListed(e, row, t) == row.listed /\ Denies(e, row.start, t)

\* MUTATION: a tombstone goes as soon as ARM answers.
KeptRevokedUnread(e, row, isUnread, t) == Revoked(e) /\ ~row.listed /\ isUnread

\* keepAgainstListing: a tombstone that still denies, or that nothing answered.
KeptRevoked(e, row, isUnread, t) ==
  Revoked(e) /\ (DeniesListed(e, row, t) \/ (~row.listed /\ isUnread))

\* MUTATION: a listing that omits an entry is believed at once.
KeptHeldUnread(e, row, isUnread, isGone, t) == Held(e) /\ ~row.listed /\ isUnread

\* MUTATION: an unlisted entry is never given up on.
KeptHeldForever(e, row, isUnread, isGone, t) ==
  Held(e) /\ ~row.listed /\ (isUnread \/ (~e.listed /\ ~isGone))

\* keepAgainstListing: a held entry the listing omits, not known to be gone.
KeptHeld(e, row, isUnread, isGone, t) ==
  Held(e) /\ ~row.listed /\ (isUnread \/ (Confirming(e, t) /\ ~isGone))

KeepAgainstListing(previous, listing, unread, gone, t) ==
  [r \in Roles |->
     IF \/ KeptRevoked(previous[r], listing[r], r \in unread, t)
        \/ KeptHeld(previous[r], listing[r], r \in unread, r \in gone, t)
       THEN previous[r]
       ELSE NoEntry]

\* listedEntries: ARM's row as an entry, keeping when this machine wrote it.
ListedEntry(old, row, t) ==
  [status    |-> "ACTIVATED",
   request   |-> IF Held(old) THEN old.request ELSE NoRequest,
   start     |-> row.start,
   source    |-> IF row.start = NoTime THEN "none" ELSE "arm",
   end       |-> row.end,
   listed    |-> TRUE,
   writtenAt |-> IF Held(old) THEN old.writtenAt ELSE t]

ListedEntries(previous, listing, unread, t) ==
  [r \in Roles |->
     IF listing[r].listed /\ ~KeptRevoked(previous[r], listing[r], r \in unread, t)
       THEN ListedEntry(previous[r], listing[r], t)
       ELSE NoEntry]

ReconcileRecord(previous, listing, unread, gone, t) ==
  MergeEntries(KeepAgainstListing(previous, listing, unread, gone, t),
               ListedEntries(previous, listing, unread, t))

-----------------------------------------------------------------------------
(* What one run shows, from the snapshot it read before the listing.       *)

\* MUTATION: an unread scope counts as an empty one.
StandsIfConfirming(isConfirming, isUnread, isGone) == isConfirming /\ ~isGone

\* A recorded row that survives a listing which omits it.
Stands(isConfirming, isUnread, isGone) ==
  isUnread \/ (isConfirming /\ ~isGone)

=============================================================================
