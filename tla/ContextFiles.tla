---------------------------- MODULE ContextFiles ----------------------------
(***************************************************************************)
(* The files pimctl keeps for one named context, the token cache and the   *)
(* activation record of an account, and the processes that share them:     *)
(* where a file is (internal/azauth/cloudctx.go), how it moves there       *)
(* (internal/store/store.go), when a cached token is served, stored and    *)
(* dropped (token.go, tokencache.go, azprofile.go, session.go), the locked *)
(* update of the record (record.go, recordlock.go) and their removal by    *)
(* `pimctl cache clear` (cachecmd.go).                                     *)
(*                                                                         *)
(* A file lives in the context's store once cloudctx says where that is,   *)
(* and in pimctl's own directory before.  Every use of a file resolves its *)
(* path first and moves it there.  A behaviour has one of the two files;   *)
(* what the record's entries say is ActivationRecord.tla's.  A definition  *)
(* marked MUTATION is the one below it with a mistake in it.               *)
(***************************************************************************)
EXTENDS Integers, FiniteSets

CONSTANTS
  Runs,            \* processes that run a command
  Clears,          \* processes that run `pimctl cache clear --all`
  Accounts,        \* the accounts az may be logged in as, in this context
  NoAccount,       \* az is not logged in
  FirstLogin,      \* bound: the account az is logged in as at first
  TenantOf,        \* an account's tenant
  UserOf,          \* an account's user
  PinnedTenant,    \* the tenant the context is pinned to
  MaxSwitches,     \* bound: times the login changes
  MaxShowFailures  \* bound: times `cloudctx show` fails, on one filesystem

ASSUME ContextFilesAssumption ==
  /\ IsFiniteSet(Runs) /\ Runs \cap Clears = {}
  /\ NoAccount \notin Accounts /\ FirstLogin \in Accounts
  /\ \A a, b \in Accounts : TenantOf[a] = TenantOf[b] /\ UserOf[a] = UserOf[b] => a = b
  /\ MaxSwitches \in Nat /\ MaxShowFailures \in Nat

VARIABLES
  file,      \* the file of this behaviour: "token" or "record"
  crossFs,   \* the two places are on different filesystems
  login,     \* the account the context's az profile selects
  expired,   \* the earlier tokens with less than TokenCacheMargin left
  disk,      \* the file in each place
  sidecar,   \* the lock file beside the record in each place, 0 when there is none
  run,       \* each process
  switches, failures,  \* how often the login changed and `cloudctx show` failed
  \* History, read by properties only:
  dropped,   \* tokens a run dropped because ARM would not take them
  before,    \* the tokens on disk when each clear began
  recorded   \* the entries the record must still have

vars == <<file, crossFs, login, expired, disk, sidecar, run, switches, failures, dropped, before, recorded>>

Procs  == Runs \union Clears
Places == {"old", "new"}  \* pimctl's own directory, and the context's store
NoFile == [there |-> FALSE, holds |-> {}, wide |-> FALSE]
\* A token's file holds the token, a record's its entries; wide is a mode past 0600.
File(holds, wide) == [there |-> TRUE, holds |-> holds, wide |-> wide]
Entries == Runs \union Places  \* a run's own entry, and what was recorded in a place before
\* A token is the account it was minted for, and who minted it: a run mints when
\* its session opens and once more when ARM rejects that.
NoToken == <<NoAccount, "none", 0>>
Locks   == 1..(Cardinality(Runs) + 2)
Tokens  == (Accounts \X {"old", "new"} \X {0}) \union (Accounts \X Runs \X {1, 2})
AccountOf(t) == t[1]
OnDisk  == disk["old"].holds \union disk["new"].holds

\* What the next use of the file finds: a file in the store makes the other stale.
Current == IF disk["new"].there THEN disk["new"].holds ELSE disk["old"].holds

Steps == {"start", "resolve", "statOld", "rename", "copy", "unlink",
          "read", "mint", "write", "running", "drop", "dropLast",
          "lock", "locking", "load", "save", "sweep", "remove", "removeLock", "list",
          "done", "failed", "killed"}
Over == {"done", "failed", "killed"}

TypeOK ==
  /\ file \in {"token", "record"} /\ crossFs \in BOOLEAN
  /\ login \in Accounts \union {NoAccount}
  /\ expired \subseteq Tokens /\ dropped \subseteq Tokens /\ before \in [Clears -> SUBSET Tokens]
  /\ recorded \subseteq Entries
  /\ disk \in [Places -> [there : BOOLEAN, holds : SUBSET (Tokens \union Entries), wide : BOOLEAN]]
  /\ \A pl \in Places : file = "token" /\ disk[pl].there => \E t \in Tokens : disk[pl].holds = {t}
  /\ \A pl \in Places : sidecar[pl] \in Locks \union {0}
  /\ \A p \in Procs :
       /\ run[p].at \in Steps /\ run[p].op \in Steps
       /\ run[p].path \in Places /\ run[p].bearer \in Tokens \union {NoToken}
       /\ run[p].expected \in Accounts \union {NoAccount}
       /\ run[p].blob \subseteq Tokens \union Entries
  /\ switches \in 0..MaxSwitches /\ failures \in 0..MaxShowFailures

NoRun == [ambient |-> FALSE, shown |-> FALSE, at |-> "start", op |-> "start", path |-> "old", blob |-> {},
          expected |-> NoAccount, bearer |-> NoToken, cached |-> FALSE,
          refreshed |-> FALSE, lock |-> 0, swept |-> FALSE, unlocked |-> FALSE]

\* What an earlier process may have left in a place.
Left(pl) ==
  IF file = "token" THEN {File({<<a, pl, 0>>}, wide) : a \in Accounts, wide \in BOOLEAN}
  ELSE {File({pl}, FALSE)}

Init ==
  /\ file \in {"token", "record"} /\ crossFs \in BOOLEAN
  /\ login = FirstLogin
  /\ \E old \in {NoFile} \union Left("old"), new \in {NoFile} \union Left("new") :
       disk = [old |-> old, new |-> new]
  /\ expired \in SUBSET (Tokens \cap OnDisk)
  /\ \A pl \in Places : disk[pl].wide => disk[pl].holds \cap expired = {}
  /\ \A pl \in Places : \A t \in disk[pl].holds : disk[pl].wide \/ t \in expired => AccountOf(t) = login
  /\ sidecar = [pl \in Places |-> 0]
  /\ \E ambient \in {FALSE, ~crossFs} :  \* bound: where moves are copies, cloudctx is asked
       run = [p \in Procs |-> [NoRun EXCEPT !.ambient = ambient]]
  /\ switches = 0 /\ failures = 0
  /\ dropped = {} /\ before = [p \in Clears |-> {}]
  /\ recorded = IF file = "record" THEN Current ELSE {}

world   == <<file, crossFs>>
account == <<login, expired, switches>>
history == <<dropped, before, recorded>>

At(p, step) == run[p].at = step
Go(p, r) == run' = [run EXCEPT ![p] = r]
To(p, step) == Go(p, [run[p] EXCEPT !.at = step])
\* A process ends, and all that is left of it is what a clear did.
End(r, how) == [NoRun EXCEPT !.at = how, !.swept = r.swept, !.unlocked = r.unlocked]
Ends(p, how) == Go(p, End(run[p], how))
\* The use of the file is over.
Settled(p, step) == [run[p] EXCEPT !.path = "old", !.op = "start", !.at = step]
\* The path is resolved, and the use of the file that asked for it comes next.
Resolved(p, place) == Go(p, [run[p] EXCEPT !.path = place, !.at = run[p].op])
Ask(r, op) == [r EXCEPT !.op = op, !.at = "resolve"]

-----------------------------------------------------------------------------
(* Where the file is.                                                      *)

\* ContextStateDir, ShowContext: the environment answers inside a `cloudctx
\* use` window, and an answer of `cloudctx show` is kept for the process.
Asks(p, answers) ==
  /\ (run[p].ambient \/ run[p].shown) => answers
  /\ ~answers => failures < MaxShowFailures /\ ~crossFs
  /\ failures' = IF answers THEN failures ELSE failures + 1

Answered(p, answers) == [run[p] EXCEPT !.shown = answers /\ ~run[p].ambient]

\* MUTATION: whatever is in the store.
ResolveOver(p) ==
  /\ At(p, "resolve")
  /\ \E answers \in BOOLEAN :
       /\ Asks(p, answers)
       /\ Go(p, LET r == Answered(p, answers)
                IN  IF ~answers THEN [r EXCEPT !.path = "old", !.at = r.op] ELSE [r EXCEPT !.at = "statOld"])
  /\ UNCHANGED <<world, account, disk, sidecar, history>>

\* ContextStatePath and MoveIfAbsent: a file in the store wins.
Resolve(p) ==
  /\ At(p, "resolve")
  /\ \E answers \in BOOLEAN :
       /\ Asks(p, answers)
       /\ Go(p, LET r == Answered(p, answers)
                IN  IF ~answers THEN [r EXCEPT !.path = "old", !.at = r.op]
                    ELSE IF disk["new"].there THEN [r EXCEPT !.path = "new", !.at = r.op]
                    ELSE [r EXCEPT !.at = "statOld"])
  /\ UNCHANGED <<world, account, disk, sidecar, history>>

StatOld(p) ==
  /\ At(p, "statOld")
  /\ IF disk["old"].there THEN To(p, "rename") ELSE Resolved(p, "new")
  /\ UNCHANGED <<world, account, disk, sidecar, failures, history>>

Rename(p) ==
  /\ At(p, "rename")
  /\ IF ~disk["old"].there THEN Resolved(p, "new") /\ UNCHANGED disk
     ELSE IF crossFs
       THEN Go(p, [run[p] EXCEPT !.blob = disk["old"].holds, !.at = "copy"]) /\ UNCHANGED disk
       ELSE disk' = [old |-> NoFile, new |-> disk["old"]] /\ Resolved(p, "new")
  /\ UNCHANGED <<world, account, sidecar, failures, history>>

\* WriteSecret of what was read, or of nothing when it fails.
Copy(p) ==
  /\ At(p, "copy")
  /\ disk' \in {disk, [disk EXCEPT !["new"] = File(run[p].blob, FALSE)]}
  /\ Go(p, [run[p] EXCEPT !.blob = {}, !.at = "unlink"])
  /\ UNCHANGED <<world, account, sidecar, failures, history>>

Unlink(p) ==
  /\ At(p, "unlink")
  /\ disk' = IF disk["new"].there THEN [disk EXCEPT !["old"] = NoFile] ELSE disk
  /\ Resolved(p, "new")
  /\ UNCHANGED <<world, account, sidecar, failures, history>>

-----------------------------------------------------------------------------
(* The token cache.                                                        *)

\* expectedAccount: the account selected now, when it can be told.
ExpectAccount(p) ==
  /\ At(p, "start") /\ p \in Runs /\ file = "token"
  /\ \E answers \in BOOLEAN :
       /\ Asks(p, answers)
       /\ Go(p, IF answers /\ login # NoAccount /\ (run[p].ambient \/ TenantOf[login] = PinnedTenant)
                  THEN Ask([Answered(p, answers) EXCEPT !.expected = login], "read")
                  ELSE [Answered(p, answers) EXCEPT !.at = "mint"])
  /\ UNCHANGED <<world, account, disk, sidecar, history>>

\* AcquireCached under --refresh
SkipCache(p) ==
  /\ At(p, "start") /\ p \in Runs /\ file = "token"
  /\ To(p, "mint")
  /\ UNCHANGED <<world, account, disk, sidecar, failures, history>>

\* MUTATION: the user alone.
UsableForUser(p, t) == UserOf[AccountOf(t)] = UserOf[run[p].expected] /\ t \notin expired

\* ReadTokenCache and cachedTokenFor: the tenant, the user and the time left.
Usable(p, t) ==
  /\ TenantOf[AccountOf(t)] = TenantOf[run[p].expected] /\ t \notin expired
  /\ UserOf[AccountOf(t)] = UserOf[run[p].expected]

\* readSecretFile: a file readable by others is an error the run ends on.
ReadCache(p) ==
  /\ At(p, "read")
  /\ LET f == disk[run[p].path]
     IN  Go(p, IF f.there /\ f.wide THEN End(run[p], "failed")
               ELSE IF f.there /\ \E t \in f.holds : Usable(p, t)
                 THEN [Settled(p, "running") EXCEPT !.bearer = CHOOSE t \in f.holds : TRUE, !.cached = TRUE]
                 ELSE [Settled(p, "mint") EXCEPT !.expected = NoAccount])
  /\ UNCHANGED <<world, account, disk, sidecar, failures, history>>

Fresh(p) == <<login, p, IF run[p].bearer = NoToken THEN 1 ELSE 2>>

\* MUTATION: an answer without a token is taken for one.
MintAnything(p) ==
  /\ At(p, "mint") /\ Go(p, Ask([run[p] EXCEPT !.bearer = Fresh(p)], "write"))
  /\ UNCHANGED <<world, account, disk, sidecar, failures, history>>

\* Acquire: az mints for the account selected now.  refreshSession keeps the
\* session's account, and stores nothing when it changed.
Mint(p) ==
  /\ At(p, "mint")
  /\ IF login = NoAccount \/ (run[p].bearer # NoToken /\ AccountOf(run[p].bearer) # login)
       THEN Ends(p, "failed")
       ELSE Go(p, Ask([run[p] EXCEPT !.bearer = Fresh(p)], "write"))
  /\ UNCHANGED <<world, account, disk, sidecar, failures, history>>

\* WriteTokenCache, WriteSecret: published whole or, when anything fails or a
\* clear takes the temporary file, silently not at all.
Write(p) ==
  /\ At(p, "write")
  /\ disk' \in {disk, [disk EXCEPT ![run[p].path] = File({run[p].bearer}, FALSE)]}
  /\ Go(p, Settled(p, "running"))
  /\ UNCHANGED <<world, account, sidecar, failures, history>>

\* retryOn401: ARM rejects a token that came from the file, once per session.
Rejected(p) ==
  /\ At(p, "running") /\ run[p].cached /\ ~run[p].refreshed
  /\ Go(p, Ask([run[p] EXCEPT !.refreshed = TRUE], "drop"))
  /\ UNCHANGED <<world, account, disk, sidecar, failures, history>>

\* applyRequestError: a claims challenge ends the role, not the other requests.
Challenged(p) ==
  /\ At(p, "running") /\ Go(p, Ask(run[p], "dropLast"))
  /\ UNCHANGED <<world, account, disk, sidecar, failures, history>>

\* MUTATION: the path is not resolved again, and names the file as it first was.
DropOld(p) ==
  /\ run[p].at \in {"drop", "dropLast"}
  /\ disk' = [disk EXCEPT !["old"] = NoFile]
  /\ dropped' = dropped \union {run[p].bearer}
  /\ Go(p, IF At(p, "drop") THEN Settled(p, "mint") ELSE End(run[p], "failed"))
  /\ UNCHANGED <<world, account, sidecar, failures, before, recorded>>

\* DropTokenCache: whatever token the file holds by now.
Drop(p) ==
  /\ run[p].at \in {"drop", "dropLast"}
  /\ disk' = [disk EXCEPT ![run[p].path] = NoFile]
  /\ dropped' = dropped \union {run[p].bearer}
  /\ Go(p, IF At(p, "drop") THEN Settled(p, "mint") ELSE End(run[p], "failed"))
  /\ UNCHANGED <<world, account, sidecar, failures, before, recorded>>

Finish(p) ==
  /\ At(p, "running") /\ Ends(p, "done")
  /\ UNCHANGED <<world, account, disk, sidecar, failures, history>>

-----------------------------------------------------------------------------
(* The activation record.                                                  *)

\* updateRecord resolves the path, and moves the file, before it takes the lock.
BeginUpdate(p) ==
  /\ At(p, "start") /\ p \in Runs /\ file = "record"
  /\ Go(p, Ask(run[p], "lock"))
  /\ UNCHANGED <<world, account, disk, sidecar, failures, history>>

\* lockRecord: open the lock file, creating it, then wait for it.
OpenLock(p) ==
  /\ At(p, "lock")
  /\ LET free == CHOOSE n \in Locks :
                   n # sidecar["old"] /\ n # sidecar["new"] /\ \A q \in Procs : run[q].lock # n
         n == IF sidecar[run[p].path] = 0 THEN free ELSE sidecar[run[p].path]
     IN  /\ sidecar' = [sidecar EXCEPT ![run[p].path] = n]
         /\ Go(p, [run[p] EXCEPT !.lock = n, !.at = "locking"])
  /\ UNCHANGED <<world, account, disk, failures, history>>

Holds(q, n) == run[q].lock = n /\ run[q].at \in {"load", "save"}

TakeLock(p) ==
  /\ At(p, "locking") /\ \A q \in Procs : ~Holds(q, run[p].lock)
  /\ To(p, "load")
  /\ UNCHANGED <<world, account, disk, sidecar, failures, history>>

LoadRecord(p) ==
  /\ At(p, "load") /\ Go(p, [run[p] EXCEPT !.blob = disk[run[p].path].holds, !.at = "save"])
  /\ UNCHANGED <<world, account, disk, sidecar, failures, history>>

\* writeRecordAt, by rename, and the lock let go.
SaveRecord(p) ==
  /\ At(p, "save")
  /\ disk' = [disk EXCEPT ![run[p].path] = File(run[p].blob \union {p}, FALSE)]
  /\ Ends(p, "done")
  /\ recorded' = recorded \union {p}
  /\ UNCHANGED <<world, account, sidecar, failures, dropped, before>>

-----------------------------------------------------------------------------
(* `pimctl cache clear`, with --all for the record.                        *)

\* MUTATION: the contexts' stores first.
FirstSwept == "new"
FirstPlace == "old"
SecondPlace == CHOOSE pl \in Places : pl # FirstPlace

\* ClearTokenCache and clearRecords: pimctl's own directory, then the stores of
\* the contexts cloudctx lists.
BeginClear(p) ==
  /\ At(p, "start") /\ p \in Clears
  /\ before' = [before EXCEPT ![p] = IF file = "token" THEN OnDisk ELSE {}]
  /\ Go(p, [run[p] EXCEPT !.path = FirstPlace, !.at = "sweep"])
  /\ UNCHANGED <<world, account, disk, sidecar, failures, dropped, recorded>>

NextPlace(p) ==
  IF run[p].path = FirstPlace THEN [run[p] EXCEPT !.at = "list"]
  ELSE End([run[p] EXCEPT !.swept = TRUE], "done")

\* RemoveFilesIn: a file that is gone is passed over.
SweepTokens(p) ==
  /\ At(p, "sweep") /\ file = "token"
  /\ disk' = [disk EXCEPT ![run[p].path] = NoFile]
  /\ Go(p, NextPlace(p))
  /\ UNCHANGED <<world, account, sidecar, failures, history>>

\* ContextStateDirs: contexts that cannot be listed are left out.
ListContexts(p) ==
  /\ At(p, "list")
  /\ \E answers \in BOOLEAN :
       /\ Asks(p, answers)
       /\ Go(p, IF answers THEN [Answered(p, TRUE) EXCEPT !.path = SecondPlace, !.at = "sweep"]
                ELSE End(run[p], "done"))
  /\ UNCHANGED <<world, account, disk, sidecar, history>>

\* clearRecordsIn: the directory is listed, each record removed, then its lock;
\* a record that is gone by then ends the command with an error.
FindRecord(p) ==
  /\ At(p, "sweep") /\ file = "record"
  /\ Go(p, IF disk[run[p].path].there THEN [run[p] EXCEPT !.at = "remove"] ELSE NextPlace(p))
  /\ UNCHANGED <<world, account, disk, sidecar, failures, history>>

RemoveRecord(p) ==
  /\ At(p, "remove")
  /\ IF disk[run[p].path].there THEN To(p, "removeLock") ELSE Ends(p, "failed")
  /\ disk' = [disk EXCEPT ![run[p].path] = NoFile]
  /\ recorded' = IF disk[run[p].path].there THEN {} ELSE recorded
  /\ UNCHANGED <<world, account, sidecar, failures, dropped, before>>

RemoveLock(p) ==
  /\ At(p, "removeLock")
  /\ sidecar' = [sidecar EXCEPT ![run[p].path] = 0]
  /\ Go(p, [NextPlace(p) EXCEPT !.unlocked = TRUE])
  /\ UNCHANGED <<world, account, disk, failures, history>>

-----------------------------------------------------------------------------
(* The world around it.                                                    *)

\* external: `az login`, or a logout, in another terminal
SwitchLogin ==
  /\ file = "token" /\ switches < MaxSwitches
  /\ login' \in (Accounts \union {NoAccount}) \ {login}
  /\ switches' = switches + 1
  /\ UNCHANGED <<world, expired, disk, sidecar, run, failures, history>>

\* The process is killed and the system releases its lock.  One killed
\* elsewhere is one that takes no further step.
Kill(p) ==
  /\ run[p].lock # 0
  /\ Ends(p, "killed")
  /\ UNCHANGED <<world, account, disk, sidecar, failures, history>>

Finished == (\A p \in Procs : run[p].at \in Over) /\ UNCHANGED vars

Next ==
  \/ \E p \in Procs :
       \/ Resolve(p) \/ StatOld(p) \/ Rename(p) \/ Copy(p) \/ Unlink(p)
       \/ ExpectAccount(p) \/ SkipCache(p) \/ ReadCache(p) \/ Mint(p) \/ Write(p)
       \/ Rejected(p) \/ Challenged(p) \/ Drop(p) \/ Finish(p)
       \/ BeginUpdate(p) \/ OpenLock(p) \/ TakeLock(p) \/ LoadRecord(p) \/ SaveRecord(p)
       \/ BeginClear(p) \/ SweepTokens(p) \/ ListContexts(p)
       \/ FindRecord(p) \/ RemoveRecord(p) \/ RemoveLock(p)
       \/ Kill(p)
  \/ SwitchLogin
  \/ Finished

Spec == Init /\ [][Next]_vars

-----------------------------------------------------------------------------
\* The migration is a rename and cloudctx always says where the store is.
Plain == ~crossFs /\ failures = 0

\* A session that began with a cached token acts, to its end and through every
\* refresh, as the account that was selected when it began: nobody else's token
\* was put in the file or minted in between.
SelectedIsServed ==
  \A p \in Procs : run[p].cached => AccountOf(run[p].bearer) = run[p].expected

\* What a run dropped because ARM would not take it is not on disk for the next
\* run to be served, whatever the runs beside it moved and wrote.
DroppedIsGone == Plain => dropped \cap OnDisk = {}

\* A clear that visited both places has removed every token that was on disk
\* when it began, those that moved from one place to the other meanwhile included.
ClearLeavesNothing ==
  ~crossFs => \A p \in Clears : run[p].swept => before[p] \cap OnDisk = {}

\* No entry of the record is lost to another process's update or to the move of
\* the file into the store.  Clearing the record removes the lock as well:
\* what is updated after that is left out.
NothingRecordedIsLost ==
  Plain /\ (\A p \in Clears : ~run[p].unlocked) => recorded \subseteq Current

=============================================================================
