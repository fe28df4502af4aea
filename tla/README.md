# pimctl in TLA+

`pimctl` is a command-line client for Azure Privileged Identity Management: `up`
activates roles the user is eligible for, `down` gives them up, `status` shows what is
held. It is a short-lived process without a server of its own. What makes it hard is what
it is a client *of*: ARM's listings run minutes behind ARM's own writes and lose rows, a
request may be processed and never answered, credentials are revoked mid-run, several
`pimctl` processes share the same few files, and each batch is a goroutine per role with
an impatient user behind it. These modules model that, TLC checks them on small instances,
and TLAPS proves some of the results for every instance.

All paths below are relative to `src/internal/` unless they start with `src/`.

## 1. Inventory

| Component | State | Operations | Talks to | What makes it correct |
|---|---|---|---|---|
| **Activation record** `cli/record.go`, `recordlock.go`, `reconcile.go`, `localrecord.go`, `verify.go`, `status.go` | one JSON file per account; per role an entry or a tombstone; a lock file beside it | record an activation or a deactivation, reconcile with a listing, verify unconfirmed entries, render, clear | other processes through the file; ARM's listing and schedule requests | no concurrent update is lost; a role given up stays denied while the listing still shows it; an activation in force is not forgotten or reported lost; nothing is claimed or hidden for ever |
| **Submission** `cli/execute.go`, `request.go`, `session.go`, `plan.go`, `armclient/client.go`, `types.go`, `errors.go` | per role: attempt, last status, outcome; per session: bearer, refresh-once; a report mutex | submit, retry, poll, classify, refresh the token, report, exit | ARM; token cache; record; policy cache | an outcome says what ARM did; the exit code says what the outcomes say; one refresh per session and never for another account; every batch ends |
| **Evidence of a named `down`** `cli/evidence.go`, `deactivate.go`, `target.go` | record as read, listing future, merged rows, one mutex | select targets, submit at once, wait for the listing where it changes an answer, repeat a request, widen | listing goroutine; submission; record | "not active" is never said against evidence that arrived in time; nothing is asked twice without cause; the filter's matches are complete |
| **Activation listing** `cli/active.go`, `eligible.go` | tally of a fan-out over scopes; a future read once | list per scope under a deadline, tenant-wide fallback | sessions, eligibility cache, record | a scope that did not answer is unknown, never empty |
| **Policy and eligibility caches** `cache/*.go` | a file per account and kind | read, store, drop, clear | planning, submission | never serves another account's data; a rejected policy does not come back |
| **Token acquisition and cache** `azauth/*.go` | token file per context | acquire, read, write, drop, migrate into a context's store | `az`, `cloudctx`, submission | never serves a token for another tenant; a rejected token goes |
| **File store** `store/*.go` | files under the cache directory | atomic write, move if absent, remove | all files above | a reader sees a whole file, old or new |
| **Activation planning** `cli/activate.go`, `plan.go`, `duration.go`, `justification.go`, `select.go`, `interactive.go`, `confirm.go`, `row.go` | rows offered and selected, the plan, what was asked and answered | select, narrow, resolve policies and durations, justify, confirm, send, remember | caches, listing, picker, submission | what is sent was resolved by ARM, agreed to, and within the policy of its grant |
| **Projects** `cli/project*.go`, `scoped.go`, `init*.go`, `config/project.go` | a project file, read or created once | choose the eligibility for each role, preserve current windows, set up a file | listing, record, submission | all roles or none, each through the one eligibility that can be meant; a window in force is not renewed; `init` writes only what `up` can resolve |
| **Eligible-scope search** `armclient/eligible_scope.go`, `scope.go`, `resources.go` | none | eligibilities at a scope, choice among them | projects, planning | an ambiguous choice is refused |
| **Contexts and presets** `cli/context.go`, `preset*.go`, `config/config.go` | configuration file | resolve contexts, apply, save and remove presets | everything, at start | explicit beats implicit; nothing is opened that was not named |
| **Picker** `picker/picker.go` | items shown, filter, cursor, window, selection | key presses, resize | planning, `down` | the selection survives filtering; the cursor stays on a shown row |
| **Entry, rendering, terminal, cache commands, origin check, doccheck** | — | — | — | output, dispatch and development tools |

Interaction in one line: *planning* or *evidence* picks targets, *submission* sends them
and calls back per result into the *record*, and the *listing* — read before, during or
after — is folded into the record by reconciliation, which decides what the next command
believes.

Where the hard behaviours are:

* **interleaving** — processes on one record (lock, read, merge, write); goroutines on one
  session (401 and refresh), on one policies file, on one progress callback, behind one
  evidence mutex;
* **ordering and staleness** — a listing older than what the record says; a verdict about
  an earlier request; a record read before a listing and used after it;
* **partial failure and lost answers** — a PUT processed and not answered; a scope that does
  not answer; a token dropped and not minted again;
* **shared files that move** — two commands and a `cache clear` on a token or a record whose
  place changes from pimctl's own directory to the context's store, beside an `az login`;
* **crashes** — between ARM's answer and the write of its outcome, or inside an update;
* **timeouts** — the poll's budget, the HTTP client's own, the listing's, each racing the
  answer it bounds;
* **clock** — this machine's clock ahead of ARM's, or stepped back.

`PROJECT.json` lists each hazard at its line, with the properties that watch it.

## 2. Modules

| Module | Models | Extends / instantiates |
|---|---|---|
| `ActivationEntries` | the entries and every pure function on them: staleness, denial, merge, reconciliation | — |
| `ActivationRecord` | processes running `up`, `down`, `status` over one record, and a lagging ARM | `ActivationEntries`; `INSTANCE RecordUpdates` |
| `RecordUpdates` | the promise: each update is one atomic step | `ActivationEntries` |
| `Submission` | one batch: semaphore, PUT with retries, poll, 401 refresh, policy drop, report, exit | — |
| `Evidence` | one named `down` racing its listing | — |
| `Listing` | one `list`, `status` or `up` reading what is active in all its contexts | — |
| `ContextFiles` | processes sharing a context's token file or record file | — |
| `Picker` | the picker as a value, and each key and resize as a function of it | — |
| `Planning` | one `up`, `up` of a project, or `init`, from its flags to its last request | `Picker` |
| `ActivationRecordProofs`, `SubmissionProofs`, `EvidenceProofs`, `ListingProofs`, `ContextFilesProofs` | theorems | the module they are about, `TLAPS` |
| `ActivationTimesProofs` | theorems about the record in time, and about which activation an entry is of | `ActivationRecordProofs` |
| `PlanningTypesProofs` | theorems about the picker and the types of `Planning` | `Planning`, `TLAPS` |
| `PlanningProofs` | theorems about what a command requests | `PlanningTypesProofs` |
| `MC*` | values for TLC | the module they check |

**ActivationRecord.** `file` is the file on disk, a function from role to entry (`NoEntry`
is absence); `holder` is the `flock`; `pc[p]` is where process `p` is. The handler of one
command is cut into steps exactly where another process can come between: `Submit…` (ARM's
answer), `RecordResult` (the entry is built, with this machine's time), `LockAndRead`,
`WriteResult`. A `status` is `ReadLocalRecord`, `ListActivations`, `VerifyConfirming`,
`AskAll`, `LockAndRead`, `WriteReconciled`. `Die` ends a process anywhere. ARM is
external: `window` is what it granted and `view[r]` the queue of what the listing has yet to
show, which it does in order and at most `MaxLag` late. A `down` may be told of a role granted at most
`MaxLag` ago that it is not active, as `deactivateOne` says ARM does (`DownNotActive`), and records
that. `Flock = FALSE` stands for the
filesystems on which `lockRecord` goes on without a lock. Time is this machine's `local` and
ARM's `now`; `StepClockBack` moves one against the other.

**Submission.** `pc[i]` is role `i`'s goroutine inside `submitAll`; `call` tells the PUT
from the poll, `again` the first call under `retryOn401` from the second. ARM's side is
`request[i]`, which the first processed PUT creates and which settles by itself; a PUT sent
again finds it, as the request's name is fixed. An unanswered PUT may have been processed or
not. `refresh` is `refreshOnce`, in the steps a concurrent call can see: drop the cached
token, mint, store; the calls of the other goroutines wait for it, and the mint is an `az` child without a
timeout, which may never end. `reporter`/`copy`/`recorded` are the progress callback under
`reportMu`, without the record's own lock, which may be absent. `policies`/`hand` are
`DropPolicy`'s read and rewrite of the shared file. `exit` is main's exit code.

**Evidence.** `mu`, `stage` and `timer` are the mutex and what its holder does: `wait` holds
it while it blocks. `future` is the listing: in flight, in its channel, or taken. `held` is
what ARM holds, `shown` what the listing showed — chosen freely, as the listing lags both
ways — and `rows` is `e.rows`. A target is asked (`asking`, `asked`), may doubt ARM's denial
(`doubting`) and is then asked again. `phase` is the command: selection, confirmation, first
round, widening pass, report. How one request is sent and polled is left to `Submission`.

**Listing.** A *call* is one listing that ARM is asked for: a context's eligibilities, the
activations at a scope, or a context's tenant-wide ones. `calls[t]` is where it is; `ReadPage`
is one page of `listAll`, which follows at most `MaxPages`; `Refuse` and `MissDeadline` end it
without an answer. `stage` is the goroutine of the listing (eligibilities, fan-out behind
`MaxScopeFanOut`, or tenant-wide; `Land` folds every call into the tally `res`), `phase` the
command beside it (`Open`, `GatherEligibilities`, `ReadLocal`, `Reconcile`, `Report`, or `Note`
for an `up` that does not wait; `Finish` cancels and `Exit` waits for the goroutine). The record
is the roles it holds and of what kind: the windows and times of its entries are
`ActivationRecord`'s. It is read three times: by `ReadLocal`, by the fan-out (`UseEligibility`) and under the
lock (`Reconcile`). Between them `RecordElsewhere` puts in, replaces or takes out any entry, for the other
processes and for expiry; `unnamed` is the roles that were not in it when the fan-out read it. The
retries under a call are `Submission`'s.

**ContextFiles.** `disk` is the file in each of two places, pimctl's directory (`old`) and the
context's store (`new`); a behaviour has a token file or a record file, and a process is at
`run[p].at`. Every use of the file goes through `Resolve`, `StatOld`, `Rename` — or `Copy` and
`Unlink` across filesystems —, which are `ContextStatePath` and `MoveIfAbsent` cut where another
process can come between. A token is the account it was minted for and who minted it: `ReadCache`,
`Mint`, `Write`, `Rejected`, `Drop` are a session's life. `BeginUpdate` to `SaveRecord` is the
locked update of a record, with the lock file an inode of its own (`sidecar`), and `BeginClear`
to `RemoveLock` is `pimctl cache clear --all`. `SwitchLogin` is `az login` beside it, `Kill` ends a process
anywhere.

**Picker** and **Planning.** A picker is a record; `Update(m, key)` is the code's `Update`, and
`Press` of Planning applies it. `Planning`'s `stage` is where the command is, `todo` the position
of the loop the stage runs (the presets resolved, the rows narrowed, the requirements of the
project). `rows` are what is offered and then what is selected; an item of `plan` is a row with
its policy, hours and outcome. An eligibility schedule is a model value whose role, scope,
condition, membership, holder and end are constants (`GrantOf`), while *which* are granted is
`env.grants`, which `Regrant` changes between two reads. `files` are the caches, each with the
time of its writing. `Verify` takes from the listing and the record what they may say of a project
role (`Evidence`): how they come to say it is the other modules'. A request is sent when `Submit`
makes its outcome `sent` or `rejected`; what becomes of it is `Submission`'s. Simplifications: one context
(of which another may have failed); the two calls of `ListEligibilitiesAtScope` are one step;
a cache can always be written; browsing scopes is a choice from all of them; the order of
`Schedules` is the order `sortRows` gives.

## 3. Runs

| Run | Question | Instance |
|---|---|---|
| `record` | atomic updates, tombstones, losses, and the refinement of `RecordUpdates` | one role, one actor and one watcher, 2 activations, 3 commands, 5 time units, ceiling 2 |
| `record_bounds` | how long a record may claim or hide a role; convergence | activations elsewhere, clock 1 ahead and stepped back by 1, ceiling 1, 8 time units |
| `submission` | outcomes, exit code, session, caches, deadlock; every batch ends, unless `az` hangs | two roles at once (one seen active), sharing one refresh, one retry, `up` and `down` |
| `evidence` | what a named `down` says and asks | two roles, every record, filter or preset, deadlines 1 and 2, deadlock |
| `evidence_ends` | it ends, unless a call never does | two roles, filter |
| `listing` | what a listing that is incomplete may be taken for | two contexts, one with two nested scopes; one page; one entry recorded, replaced or removed behind the command's back |
| `context_files` | whose token is served, what is dropped, cleared and lost | two commands and one clear, a user's account in the context's tenant and a guest account in another, one change of login, one failure of `cloudctx show` |
| `planning` | what is requested, and with whose consent | two roles in a subscription and its group; six schedules, two worlds of them; each of eight selections |

Why the bounds are enough. *One role* in the record: entries are independent — that merging
touches one role only and that reconciliation takes each role from one side are theorems
(section 5), so a second role adds interleavings only through the lock, which the second
process already supplies. *Two processes*: each race needs one writer between another's read
and write. *Two activations* are what it takes for a verdict or a row to be about an earlier
one; *three commands* give up and take again. Times are chosen so that the ceiling passes
within the run, and outlives it, and so does the lag. *Two roles* in a batch: every shared
object (session, mutex, policies file, listing) is contended by two; both roles of a batch have a slot, so that
none waits for one. The listing's
deadlines are distinct (1 and 2) and the clock goes past both. In `listing`, a scope under the other is what it takes
for one scope's read to cover another, one page what it takes to run out of them, and two contexts
for one to fail. `Kinds` leaves confirming and revoked entries to the record's runs. In
`context_files` a lost move needs two movers, and a token that is not this account's needs a
user with accounts in two tenants. Where moves are copies the context is one `cloudctx` is asked about, as
the environment's answer differs only in never failing. In `planning` the two worlds hold, between them, a grant that
is inherited, ends, is duplicated through a group, has a condition, or is somebody else's; the
policies differ in all that is read of them; caches were written one unit before the run (and
expire in it) or one after (by a clock ahead); the picker's window has room for one or two
of three rows.

Bounds, all in guards: `MaxRequests`, `MaxCommands`, `LastChange`, `MaxTime`, `MaxLag`,
`MaxRun` in the record; `MaxRetries` (the code's own) in submission; `Horizon` in evidence;
`MaxOthers` in listing; `MaxSwitches`, `MaxShowFailures` in context_files; `MaxTime`, `MaxChanges`,
`MaxScopes`, `MaxFilter` in planning, with `Worlds`, `Leftovers`, `Flags`, `Asked`, `TypedKeys`,
`Presets` and `Evidence` the inputs it enumerates.
`CHECK_DEADLOCK FALSE` appears in the record's runs only: the clock stops at `MaxTime` and
with it the model. The other modules end in an explicit `Ended` step and are checked for
deadlock.

What the passing runs show:

* `UpdatesAreAtomic`, `ImplementsAtomicUpdates` — with the lock honoured, no process writes
  between another's read and write, and the whole of read, merge, write is one update.
* `GivenUpStaysDenied` — a role given up here is denied for as long as ARM's listing still
  shows that activation and its window is open. It holds where PIM's floor keeps a role
  active for longer than the listing lags and one `status` runs
  (`MinActive` > `MaxLag` + `MaxRun`): without that, deviation 1 of section 4.
* `NoLossButMislisted`, `KeptButForOldAnswer` — a status reports no role lost that is in
  force, and no update drops its entry, except through deviations 2, 3 and (for the second) 6,
  which the properties name as their only exceptions.
* `ClaimsAreBounded`, `HiddenBriefly`, `Converges` — errors the record makes are bounded by
  the ceiling, tolerance and lag, and vanish once commands stop failing. `HiddenBriefly` covers the `down`
  that ARM told too early there was nothing to give up: its tombstone is newer than the access it hides.
* `DeniedIsNotGranted`, `ClaimedIsGranted`, `ExitTellsTheTruth` — FAILED, SKIPPED and success
  are what ARM did, up to an answer that never arrived; exit 0 and 2 mean what they say.
* `OneIdentity`, `RefreshedOnce`, `RejectedTokenIsDropped` — one refresh, same account, and a
  rejected token never outlives the run in the cache.
* `AllRecorded` — every outcome reaches the record, even on a filesystem without locks.
* `NotActiveIsUncontradicted`, `HeldIsNotDenied` — NOT ACTIVE is never said against a listing
  that arrived within its budget, nor against this machine's own unrefuted record.
* `NeverAskedAgain`, `WideningIsComplete` — no role is asked for a second time without a
  denial and a contradicting listing; the widening pass leaves no match without a result.
* `MissedIsUnread`, `EveryContextIsAccountedFor`, `NothingLostUnread` — an activation missing
  from a listing is at a scope the listing says it could not read, a context nothing is known of is
  marked as a whole, and the record gives up a role, or a `status` reports one lost, only where ARM
  was read, or where the entry was not in the record when the fan-out took its scopes from it: finding 4. A page limit, a deadline, throttling, an error, an interrupt and a stale cache all occur.
* `OnlyCompleteIsCached`, `ExitOkIsComplete` — a partial listing never enters the eligibility
  cache, and exit 0 of `list` and `status` leaves nothing unread that is not named.
* `SelectedIsServed` — a session that began with a cached token ends with the same account's,
  through `az login`s and refreshes. `DroppedIsGone`, `ClearLeavesNothing` — a rejected token is
  not on disk again, and a clear that visited both places misses no token that moves between them.
  `NothingRecordedIsLost` — the move into the store loses no entry of the record. `DroppedIsGone`
  and `NothingRecordedIsLost` are stated for one filesystem and a `cloudctx` that answers
  (`Plain`), and the second while no clear has taken the lock file away: otherwise deviation 5.
* `NothingUnresolved` — each request goes through an eligibility that ARM vouched for at its
  target, under the policy of the scope that grants it, no longer than that allows; a project and
  a selection narrowed by `--at` are requested whole or not at all, the latter through schedules that were
  among those selected; `init` writes only what `up` can
  resolve. `ConsentCovers` — nothing is requested twice, or that was not picked, confirmed at its
  size, or in the flags. `WindowsAreKept` — a window in force is not renewed, and is claimed
  only while it lasts. `PickerKeepsItsPlace` — the cursor keeps its row and is drawn, and
  hidden rows keep their selection.
* `Terminates` — no combination of answers, silence, timeouts and interrupts hangs. Of a batch it excepts
  an `az` child that never returns (`Hung`); of a named `down`, a call that never does (`Unanswered`).

Each property is also run against a mutated definition (marked `MUTATION` in the modules,
listed in `PROJECT.json`), a mistake that could be made at that place of the code, and is
violated by it.

## 4. Findings and known deviations

Four runs end in a violation on purpose; each states what a comment of the code says.

1. `submission_aborted` / `AbortedIsInterrupted` — a poll whose last read was cut off by the
   HTTP client's own timeout is reported ABORTED, "interrupted", without an interrupt
   (`cli/request.go:199`).
2. `submission_policy` / `RejectedPolicyIsDropped` — `DropPolicy` reads and rewrites the
   whole policies file, from one goroutine per role and without a lock
   (`cache/policy.go:164`): one role's drop is undone by another's write.
3. `listing_late` / `LateMeansLate` — `up` names as having missed its deadline a scope whose
   own error it has printed already, or that was never asked: `listActivations`
   (`cli/active.go:391`) marks every uncovered context as if it had been late, against the
   comment at `cli/run.go:199-202`.
4. `listing_lost` / `LostIsAnswered` — the fan-out reads the record again (`cli/active.go:441`). An entry
   that `status` had read (`cli/status.go:110`) and that another process has removed since, or
   that has expired, adds no scope, so ARM is not asked about it and nothing marks it unread; the role
   is reported as no longer held, against the comment at `cli/status.go:212-215`.

Deviations the passing properties carry as conditions, so that the models show the rest:

1. `keepAgainstListing` (`cli/reconcile.go:161`) drops a tombstone once a listing omits the
   role. A listing read before ARM had begun to show the activation omits it too; the
   activation is then listed, and the role just given up is shown as held. The listing's lag
   and the run of that `status` must together be as long as the role was held: the
   constants of `record.cfg`, and `Prompt` in the proof, exclude it, so no property watches it.
2. Verdicts are filed by role (`cli/verify.go:133`), so one about an earlier request removes
   the entry of a newer one, and a status reports that as a loss (`OldVerdict` in
   `KeptButForOldAnswer` and in `NoLossButMislisted`).
3. `listedEntries` (`cli/reconcile.go:212`) keeps the previous entry's request with the row of
   an earlier window and marks it listed: the newer activation has that window's end in the
   record, and counts as having been shown, so that its next omission is a loss (`OtherRow` in
   `KeptButForOldAnswer`, `ListedForAnother` in `NoLossButMislisted`).
4. `deactivate` computes what is left of the budget before it queues for the mutex that
   another waiter holds for as long as it waits (`cli/evidence.go:201`), so doubtful answers
   wait one after the other, past the budget. No property bounds that wait.
5. Across filesystems a move is a copy and an unlink (`store/store.go:118-137`) that can put an
   old file over a newer one; when `cloudctx show` fails, a file is written in pimctl's
   own directory that a later drop in the store does not reach; and `cache clear --all`
   removes the lock file (`cli/record.go:490`) from under who waits for it (`Plain` and
   `unlocked` in `ContextFiles`).
6. An `up` that finds a role active already records it with the end of the listed row its plan
   had matched (`fillAlreadyActiveWindows`, `cli/activate.go:485`), which
   may be that of an activation that has been replaced since; the entry then lapses early (`EndOfAnother` in `KeptButForOldAnswer`).

Not all of these exceptions came from the runs; some came from the proofs of section 5: an earlier form of these properties left out `OldVerdict` of a loss and `EndOfAnother`, and
held in `record`'s instance. Three processes, activations elsewhere and a clock ahead show
the losses, in an instance larger than a run can search exhaustively.

Read while modelling, without a run of their own: an interrupt during the policy reads leaves roles
FAILED rather than SKIPPED, because `activateOne` looks at what was found wrong with a role before
the interrupt (`docs/design.md:323-325` says otherwise; `Submit` of `Planning` follows the code);
`config/config.go` says of the saved justification that it is used silently when no prompt is shown,
which no code does; and `savePreset` rewrites the configuration without a lock.

## 5. Proofs

Assumed: each module's named `ASSUME` (constants are of the obvious kinds; durations are
positive), nothing about their size. TLC evaluates them on every run.

* `ActivationRecordProofs`, first — what the pure functions on entries do for every record and listing:
  recording one role leaves the others alone (`MergeTouchesOneRole`); reconciling takes each
  role either from the record or from ARM's row (`ReconcileTakesOneSide`); a tombstone that
  denies its row survives (`DeniedStaysDenied`); a role of an unread scope is left as it is
  (`UnreadStaysPut`).
* `ActivationRecordProofs.TypeCorrect` — `TypeOK` of the shared record. It is not inductive
  alone: that `view[r]` never runs empty and that what it shows is a granted window
  (`ViewInv`) is carried along, since the actions index `window` by it.
* `ActivationRecordProofs.UpdatesAtomic` — assuming `Flock`, nobody writes between a read and
  a write. `UpdatesAreAtomic` is inductive given types: only the holder is between the two,
  and only such a process writes.
* `ActivationRecordProofs.RecordRefinesUpdates` — assuming `Flock`, `Spec` implements
  `RecordUpdates!Spec`. The mapping reads each process's pending update off its `pc`; the
  write maps to `Apply`, because `copy` is then the file, and everything before it to
  `Intend`, a tick or a stutter.
* `ActivationTimesProofs` — the record's promises in time, for every number of processes, roles and
  activations and every length of lag, run, ceiling and floor. `HiddenForAWhile` and
  `ClaimedForAWhile` assume only that the clock is never stepped back by more than the record
  tolerates (`recordClockTolerance`); neither needs the lock. `TimesInv` follows a date from ARM to what
  a command shows: `LagInv` says what the listing still shows and how late each of it is, `AnswerInv` what
  ARM's answer told of a role when it came, `FreshInv` that what is recorded of it is
  stamped while the command runs, `DatesInv` that every entry — in the file, in a copy a process works
  on, or recorded by it — was written while its role was active, or not long after; a tombstone was written
  before the role was active again, or at most `MaxLag` and a command's run after, as ARM may tell
  a `down` of a role it has just granted that there is none (`OverOrGranted`), and `SeenInv` the same of what a `status` read. That `stands` and
  `Denies` end at the ceiling then bounds what is shown. `DeniedWhileListed` assumes the lock
  (`Flock`), and of the numbers `Prompt`: the listing's lag is within the ceiling, lag and one command's
  run together are below PIM's floor, and the clock is stepped back by at most the tolerance and by no
  more than it is ahead and the floor. The code has a ceiling of 30 min, a tolerance of 5 min and a floor of 5 min
  against a lag seen to be up to 4.5 min (`record.go:59-84`); where they do not hold it is
  deviation 1. Its invariant (`DenyInv`) says what a `status` under way was told of the activations that
  are listed or about to be (`ListedInv`: one it missed had not been shown, or had gone, when it started),
  that what is given up had lasted as long as PIM demands (`GivenUpInv`), and that for an activation
  given up and still listed there is a tombstone from after its end (`DeniedInv`; that a process writes
  what it read, so that the tombstone stays, is where the lock is used).
* `ActivationTimesProofs`, second half — which activation an entry is about. `KeptUntilTold`
  (assuming `Flock`) is `KeptButForOldAnswer`; `NothingLostUnawares` is `NoLossButMislisted`, with or
  without the lock, of every behaviour in which no two activations of a role begin at one instant
  (`DistinctStarts`); `NothingLostHere` is the same without that condition where roles
  are changed by these commands only and PIM's floor is positive, as an activation then lasts before the
  next can begin (`StartsDiffer`). The condition is needed because a row says nothing of the request
  it comes from: a window's start is all that tells two activations apart, and the model's clock is coarse
  enough for them to share it. The invariant (`EntriesInv`) says that records and verdicts name requests
  there have been (`RequestInv`) and that one which reads as gone is over (`VerdictInv`); that the request a
  command has yet to record is known to nobody else (`PendingInv`); that the listing shows an activation
  in one stretch (`OnceInv`); and that an entry marked as listed has its start from a row that has been
  shown (`ShownInv`). With it, `MissedInv`: what the listing had shown when the record was read, and does
  not show when it answers, is over.
* `EvidenceProofs` — for every set of roles, record and budget: `TypeCorrect`,
  `NotActiveIsSupported`, `HeldStaysHeld`, `WideningComplete` and, for the steps,
  `AskedAgainOnlyOnEvidence`. The invariant (`EvidenceInv`) ties who holds `e.mu` to where the listing
  is (`LockInv`: the one that merges has taken it from its channel, and it is taken once), the timer to the
  budget it was started with (`TimerInv`), the merged rows to what ARM showed and what was recorded
  and is held (`RowsInv`), and every target's goroutine to how often it has asked (`BatchInv`). That a
  denial without a listing is one whose budget has passed (`AnswerInv`) needs `DoubtInv`: a wait that begins
  late, with what is left of the budget, does not end before it.
* `SubmissionProofs` — two invariants, for any number of roles and any bounds. `SessionInv`
  is about the credential alone: until the one refresh has begun nothing was minted, once a
  token is being stored the bearer is that fresh one, and from its beginning on the cached
  token is gone. From it follow `RefreshedOnlyOnce`, `IdentityKept` and
  `RejectedTokenDropped`. `Inv` carries what each point of a goroutine promises: a poll
  follows a request ARM answered and has read only statuses that are not terminal, a PUT in
  progress is of a role without a request or with an unanswered one, and a result `Fits` what
  ARM had done when it landed (`ItemInv`); one reporter at a time holds the record as it is,
  and every finished role's result is in it (`ReportInv`); an exit code is the one its results
  had (`ExitInv`). A step of one role leaves the others alone (`OthersSame`), so each action
  is looked at for one role only. From `Inv` follow `TypeCorrect`, `ClaimsAreGranted`,
  `DenialsAreNotGranted`, `EveryResultRecorded` and `ExitIsTrue`. None of the properties is
  inductive by itself: that a poll which gives up may say "still pending" but not "failed"
  rests on what it has read before, and that a failed PUT was not granted on `unheard`.

* `PlanningTypesProofs` — `TypeCorrect`, by an invariant (`Types`) that follows the rows, the plan,
  the caches and the picker through every step: a key or a resize leaves a picker whose list
  shows items it has, each once and in order, and whose cursor's row is drawn. `PickerKeeps` is
  `PickerKeepsItsPlace`, from what each key does to a picker (`Filtered`'s order is what lets the cursor find its
  row again). On the way: the sources left for a choice never hold one grant twice
  (`SourcesAreDistinct`), and any picker, typed or not yet clamped, draws its cursor's row and
  leaves the selection of hidden rows alone (`ClampDrawsCursor`, `HiddenKeepTheirSelection`).
* `PlanningProofs` — what a command requests, for every set of roles, scopes, schedules and
  policies, every cache left behind and every change of what is granted while it runs.
  * `WindowsKept` (`WindowsAreKept`): the invariant (`WindowInv`) says what a planned role's item
    promises: if it is kept its window was vouched for, and if it is not, no window that began
    before the command is in force. The second half is what survives to the request: only
    `BeginPlan` looks at a window, and after it time only passes (`ClockStep`).
  * `ConsentCovered` (`ConsentCovers`), from `ConsentInv`: the way of the command from stage to
    stage (`FlowInv`), an item of the plan for each row and none sent before `Submit` (`PlanInv`), the rows in
    hand are those selected, narrowed or required, no role at a scope twice (`SelectInv`), and
    what was asked of whom (`PromptInv`).
  * `NothingIsUnresolved` (`NothingUnresolved`), from `ResolvedInv`: what is in the caches and at
    hand is what ARM answered, of the caller's schedules, at or above the scope it is used for
    (`AnswersInv`); an item with a policy has one ARM gave at the scope that grants it, and an outcome that
    fits it (`PolicyInv`); a row that was selected keeps its schedule when it is narrowed (`SourceInv`, with
    `ConsentInv`): `--at` asks ARM for that one; and each row is what ARM answered as it was listed, narrowed, resolved or
    written (`ResolveInv`). What was vouched for stays so because answers are only added to and
    an eligibility that was answered for changes in being ended only (`SaidStep`).

  Assumed of the tenant: no schedule is the value that stands for asking for any, a scope is at or above itself, ends are dates, and a policy that has a maximum has
  a positive one. Of the input: a project file names no role twice at a scope, as `Validate` checks, and
  neither does a preset, as pimctl saves them (`TenantAssumption`, `PlanningAssumption`).

* `ListingProofs` — `MissedIsUnread`, `EveryContextIsAccountedFor`, `OnlyCompleteIsCached` and
  `NothingLostUnread`, for every set of contexts and scopes and every limit on pages and calls.
  The invariant (`ListingInv`) says that a call at a scope, read in full, has what ARM shows
  there (`ReadInv`); that the tally of a landed listing holds, of each call, its rows or a mark
  (`LandedInv`); and that from the start of the fan-out every context has an account of it
  (`AccountInv`), and so has every role that was in the record when the fan-out read it (`RecordedInv`,
  whatever others do to the record before and after). With it, what is dropped or reported lost was read,
  or is in `unnamed`: it was not in the record at that moment, and finding 4 is what then happens. The
  theorems assume that the
  visible activations stay as they are during the run, as the module does. `TypeCorrect` is types,
  and `ExitOkComplete` that exit 0 leaves nothing unread unnamed: a context whose
  eligibilities were handed over was read or is among the errors (`GivenInv`), one that is not asked
  about as a whole has an error (`ErrorsInv`), a call without an answer is in the landed tally as an error
  or as late (`TallyInv`), and exit 0 follows only a landed listing (`OutcomeInv`).

* `ContextFilesProofs` — `TypeCorrect`, `SelectedServed`, `DroppedGone`, `NothingLeft` and
  `NothingLost`, for any finite set of commands, any set of clears and of accounts, every change of
  login. What each action does is first said field by field (`…Does`), and `EveryStep` is the case
  distinction the rest uses. `TypeInv` adds who may be at which step, with what in its hands; that
  `OpenLock` finds a free lock file is a count of those that are open (`FreeLock`), which is why the
  commands are finite. `ServedInv` is the account of a session from the moment it is expected; that a file which
  matches in tenant and user is that account's is the assumption that an account is nothing else to
  pimctl (`cachedTokenFor`). `MintInv` says that a run mints at most once, or
  once more after a refusal, and that until it has stored what it minted neither a place nor another
  process has it. With that, and since a file is used in the store only (`PathInv`), what is still in
  pimctl's directory was never used (`DropInv`), and nothing a clear has swept comes back from behind
  it (`ClearInv`). For the record, the invariant is four facts about the protocol (`RecordInv`, while no
  clear has removed a lock file): nothing is moved over a file that is in the store (`PlaceInv`); those who
  wait for the lock wait for the same file, and one at a time has it (`LockInv`); what is about to be
  written has all that must be there (`SaveInv`); and so has the file.

Only model-checked: liveness (`Converges`, and `Terminates` of `Submission` and of `Evidence`), which is out of the proof
system's reach. Every other property of a passing run, invariants and action properties alike, is
stated by a theorem; two are stated under a condition on the constants or the behaviour that is
narrower than the module's own (`Prompt` and `DistinctStarts`, above), and those of
the record that speak of the file as one thing assume its lock.

## 6. Fairness

* `ActivationRecord.FairSpec` (for `Converges`): time passes and ARM's listing catches up;
  somebody keeps running `status`, and a process that started an update goes on with it
  unless it dies. `up` and `down` are not fair: nobody has to run them.
* `Submission.FairSpec`: each goroutine goes on whenever it can — Go's scheduler —, each
  HTTP call ends (the client has a timeout of 60 s), and a poll's budget ends. A refresh is *not* fair:
  `az` is run without a context and without a timeout (`azauth/token.go:227-246`), so it may block
  the calls that wait for it for ever, and `Terminates` says so (`Hung`). ARM's `Settle` is *not* fair: a request may never
  settle, and the batch must end nevertheless.
* `Evidence.FairSpec`: goroutines run, time passes, timers fire and prompts are answered. An answer to a
  request, a verification and the listing are *not* fair, as each of them may turn into such a
  refresh; `Terminates` excepts a command that waits for one for ever (`Unanswered`). `Interrupt` and
  what others do are never fair.
* `Listing`, `ContextFiles` and `Planning` assume none: their properties are about what
  is never done, and a command in a prompt may wait there for ever.

## 7. Not modelled, and the plan

Not modelled by choice: wording, tables, JSON, colour, completion, the command tree, prompts,
the spinner, request bodies, and the documentation checker — pure output or input without a
state the program depends on. The record's JSON and its ownership check are abstracted to
"the record of the account".

Abstracted inside what is modelled: ARM's many request statuses are the classes the
predicates of `armclient/types.go` tell apart; `--role`, `--scope` and `--key` matching is
"all roles match"; a listing's rows carry only a window.

Not modelled of the parts that are: several contexts in one `up`; how durations are parsed and which
contexts a command line names (`duration.go`, `context.go`); deleting a preset; finding a project
file in a parent directory, and `project status`; `down` with no name or with `--all`; retry delays and the
poll's backoff, whose numbers no property depends on; a clear of one context's
eligibility files; the check of a `nextLink`'s origin.

Next, in this order:

1. Abstract specifications — a session that is refreshed at most once and atomically (for
   `Submission`), and a `down` that waits for its listing before it says anything (for
   `Evidence`, which should say nothing that one would not).
2. Composition — `ActivationRecord` with `Listing` in place of its free choice of silent
   scopes; several contexts in one `up`.
