------------------------- MODULE ContextFilesProofs -------------------------
(***************************************************************************)
(* Theorems about ContextFiles, for every set of processes and accounts:   *)
(* types, whose token a session holds, that a token ARM would not take is  *)
(* gone, that a clear leaves nothing it should have taken, and that the    *)
(* record keeps what processes put in it.                                  *)
(***************************************************************************)
EXTENDS ContextFiles, FiniteSetTheorems, TLAPS

-----------------------------------------------------------------------------
(* Types.                                                                  *)

Moving == {"resolve", "statOld", "rename", "copy", "unlink"}
\* What a process is about, the move of its file left aside.
Doing(p) == IF run[p].at \in Moving THEN run[p].op ELSE run[p].at

UsesPath    == {"read", "write", "drop", "dropLast", "lock"}
InSession   == {"read", "mint", "write", "running", "drop", "dropLast"}
HasBearer   == {"write", "running", "drop", "dropLast"}
HasLockFile == {"locking", "load", "save"}
InUpdate    == {"lock"} \union HasLockFile
InClear     == {"sweep", "remove", "removeLock", "list"}

Content == SUBSET (Tokens \union Entries)
RunType == [ambient : BOOLEAN, shown : BOOLEAN, at : Steps, op : Steps, path : Places, blob : Content,
            expected : Accounts \union {NoAccount}, bearer : Tokens \union {NoToken}, cached : BOOLEAN,
            refreshed : BOOLEAN, lock : Locks \union {0}, swept : BOOLEAN, unlocked : BOOLEAN]

\* Who may be where, and what it has there.
AtStep(p) ==
  /\ run[p].at \in Moving => run[p].op \in UsesPath
  /\ Doing(p) \in InSession => p \in Runs /\ file = "token"
  /\ Doing(p) \in HasBearer => run[p].bearer \in Tokens
  /\ Doing(p) \in InUpdate => p \in Runs /\ file = "record"
  /\ run[p].lock # 0 <=> run[p].at \in HasLockFile
  /\ run[p].at \in InClear => p \in Clears
  /\ run[p].at \in {"remove", "removeLock"} => file = "record"
  /\ run[p].at \in {"copy", "unlink"} => crossFs
  /\ run[p].swept => run[p].at = "done"
  /\ run[p].at = "copy" /\ file = "token" => \E t \in Tokens : run[p].blob = {t}
StepInv == \A p \in Procs : AtStep(p)

DiskInv == \A pl \in Places : ~disk[pl].there => disk[pl].holds = {}

TypeInv ==
  /\ TypeOK /\ StepInv /\ DiskInv
  /\ run \in [Procs -> RunType] /\ sidecar \in [Places -> Locks \union {0}]

-----------------------------------------------------------------------------
(* Whose token a session holds.                                            *)

ServedInv ==
  \A p \in Procs :
    /\ run[p].at = "start" => ~run[p].cached
    /\ Doing(p) = "read" => ~run[p].cached /\ run[p].expected \in Accounts
    /\ run[p].cached => run[p].bearer \in Tokens /\ AccountOf(run[p].bearer) = run[p].expected

-----------------------------------------------------------------------------
(* Where the tokens are.                                                   *)

Mine(p, t) == t[2] = p /\ t[3] # 0
Known(t)   == t \in OnDisk \/ t \in dropped \/ \E c \in Clears : t \in before[c]

\* A run mints at most once, and until it has stored what it minted nobody knows it.
MintAt(p) ==
  /\ run[p].at \notin Over /\ ~Mine(p, run[p].bearer) =>
       \A t \in Tokens : Mine(p, t) => ~Known(t) /\ \A q \in Procs : run[q].bearer # t
  /\ Doing(p) = "write" =>
       /\ Mine(p, run[p].bearer) /\ ~Known(run[p].bearer)
       /\ \A q \in Procs : run[q].bearer = run[p].bearer => q = p
  /\ Doing(p) \in {"start", "read", "mint", "drop"} => ~Mine(p, run[p].bearer)
  /\ run[p].cached /\ Mine(p, run[p].bearer) => run[p].refreshed
  /\ (Doing(p) = "mint" /\ run[p].cached) \/ Doing(p) = "drop" => run[p].refreshed
MintInv == file = "token" /\ ~crossFs => \A p \in Runs : MintAt(p)

\* A process that moves its file and is always told where uses it in the store.
PathInv == Plain => \A p \in Procs : run[p].at \in UsesPath \union HasLockFile => run[p].path = "new"

\* What is still in pimctl's own directory nobody has used.
DropInv ==
  Plain /\ file = "token" =>
           /\ dropped \cap disk["new"].holds = {}
           /\ \A t \in disk["old"].holds :
                t \notin disk["new"].holds \union dropped /\ \A p \in Procs : run[p].bearer # t

\* A clear leaves nothing behind in a place it has visited.
ClearInv ==
  ~crossFs /\ file = "token" =>
    \A p \in Clears :
      /\ run[p].at = "list" \/ (run[p].at = "sweep" /\ run[p].path = "new") =>
           before[p] \cap disk["old"].holds = {}
      /\ run[p].swept => before[p] \cap OnDisk = {}

\* Each of the two files has its own history.
NoRecord   == file = "token" => recorded = {}
HistoryInv == file = "record" => dropped = {} /\ \A c \in Clears : before[c] = {}


-----------------------------------------------------------------------------
(* What the record must still have.                                        *)

Locked == Plain /\ file = "record" /\ \A p \in Clears : ~run[p].unlocked

\* There is a record in the store, or none to be moved there.
Moved == disk["new"].there \/ ~disk["old"].there

\* Nothing is moved over a file that is in the store, and a clear in the store left none to be moved.
PlaceInv ==
  /\ \A p \in Procs : run[p].at \in InUpdate => Moved
  /\ \A p \in Procs : run[p].at \in {"statOld", "rename"} /\ disk["old"].there => ~disk["new"].there
  /\ \A p \in Clears : run[p].at = "list" \/ (run[p].at \in InClear /\ run[p].path = "new") => ~disk["old"].there

\* Those who wait for the lock wait for the same one, and no two have it.
LockInv ==
  /\ \A p \in Procs : run[p].at \in HasLockFile => run[p].lock = sidecar["new"]
  /\ \A p, q \in Procs : run[p].at \in {"load", "save"} /\ run[q].at \in {"load", "save"} => p = q

\* What is about to be written has all of it.
SaveInv == \A p \in Procs : run[p].at = "save" => recorded \subseteq run[p].blob

\* All of it, until a clear removes the lock file.
RecordInv == Locked => PlaceInv /\ LockInv /\ SaveInv /\ recorded \subseteq Current

\* The inductive invariant.
FilesInv ==
  TypeInv /\ ServedInv /\ MintInv /\ PathInv /\ DropInv /\ ClearInv /\ HistoryInv /\ NoRecord /\ RecordInv
-----------------------------------------------------------------------------
(* What a step of one process does, field by field.                        *)

\* The other processes stay where they are.
Turns(p) == run' \in [Procs -> RunType] /\ \A q \in Procs : q # p => run'[q] = run[q]

\* The fields of a record that a step leaves alone.
SessionSame(p) ==
  /\ run'[p].expected = run[p].expected /\ run'[p].bearer = run[p].bearer
  /\ run'[p].cached = run[p].cached /\ run'[p].refreshed = run[p].refreshed
RestSame(p) == run'[p].lock = run[p].lock /\ run'[p].swept = run[p].swept /\ run'[p].unlocked = run[p].unlocked
FileSame(p) == run'[p].op = run[p].op /\ run'[p].path = run[p].path /\ run'[p].blob = run[p].blob

\* Only the step it is at changes.
Steps1(p, step) == Turns(p) /\ SessionSame(p) /\ RestSame(p) /\ FileSame(p) /\ run'[p].at = step

Asked(p, op) ==
  /\ Turns(p) /\ RestSame(p) /\ run'[p].at = "resolve" /\ run'[p].op = op
  /\ run'[p].path = run[p].path /\ run'[p].blob = run[p].blob

Ended(p, how) ==
  /\ Turns(p) /\ run'[p].at = how /\ run'[p].op = "start" /\ run'[p].path = "old" /\ run'[p].blob = {}
  /\ run'[p].expected = NoAccount /\ run'[p].bearer = NoToken /\ ~run'[p].cached /\ ~run'[p].refreshed
  /\ run'[p].lock = 0 /\ run'[p].swept = run[p].swept /\ run'[p].unlocked = run[p].unlocked

\* The use of the file is over.
Used(p, step) ==
  /\ Turns(p) /\ RestSame(p) /\ run'[p].at = step /\ run'[p].op = "start"
  /\ run'[p].path = "old" /\ run'[p].blob = run[p].blob

\* The path is known.
Placed(p, place) ==
  /\ Turns(p) /\ SessionSame(p) /\ RestSame(p) /\ run'[p].op = run[p].op /\ run'[p].blob = run[p].blob
  /\ run'[p].path = place /\ run'[p].at = run[p].op

\* A process takes its new state.
LEMMA GoTurns ==
  ASSUME run \in [Procs -> RunType], NEW p \in Procs, NEW s \in RunType, Go(p, s)
  PROVE  Turns(p) /\ run'[p] = s
BY DEF Go, Turns

\* It goes on to another step, ...
LEMMA ToTurns ==
  ASSUME run \in [Procs -> RunType], NEW p \in Procs, NEW step \in Steps, To(p, step)
  PROVE  Steps1(p, step)
<1> DEFINE s == [run[p] EXCEPT !.at = step]
<1>1. s \in RunType
  BY DEF RunType
<1>2. Go(p, s)
  BY DEF To
<1>3. Turns(p) /\ run'[p] = s
  BY <1>1, <1>2, GoTurns
<1> QED BY <1>3 DEF Steps1, SessionSame, RestSame, FileSame, RunType

\* ... is over, ...
LEMMA EndType ==
  ASSUME NEW r \in RunType, NEW how \in Over
  PROVE  /\ End(r, how) \in RunType
         /\ End(r, how).at = how /\ End(r, how).op = "start" /\ End(r, how).path = "old"
         /\ End(r, how).blob = {} /\ End(r, how).lock = 0
         /\ End(r, how).expected = NoAccount /\ End(r, how).bearer = NoToken
         /\ ~End(r, how).cached /\ ~End(r, how).refreshed
         /\ End(r, how).swept = r.swept /\ End(r, how).unlocked = r.unlocked
<1>1. End(r, how) \in RunType
  BY DEF RunType, End, NoRun, Over, Steps, Places, Content
<1> QED BY <1>1 DEF RunType, End, NoRun

LEMMA EndTurns ==
  ASSUME run \in [Procs -> RunType], NEW p \in Procs, NEW how \in Over, Ends(p, how)
  PROVE  Ended(p, how)
<1> DEFINE s == End(run[p], how)
<1>1. run[p] \in RunType /\ Go(p, s)
  BY DEF Ends
<1>2. s \in RunType
  BY <1>1, EndType
<1>3. Turns(p) /\ run'[p] = s
  BY <1>1, <1>2, GoTurns
<1> QED BY <1>1, <1>3, EndType DEF Ended

\* ... asks for the path of its file, ...
LEMMA AskTurns ==
  ASSUME run \in [Procs -> RunType], NEW p \in Procs, NEW a \in RunType, NEW op \in Steps, Go(p, Ask(a, op)),
         a.lock = run[p].lock, a.swept = run[p].swept, a.unlocked = run[p].unlocked,
         a.path = run[p].path, a.blob = run[p].blob
  PROVE  /\ Asked(p, op) /\ run'[p].expected = a.expected /\ run'[p].bearer = a.bearer
         /\ run'[p].cached = a.cached /\ run'[p].refreshed = a.refreshed
<1> DEFINE s == Ask(a, op)
<1>1. s \in RunType
  BY DEF RunType, Ask, Steps
<1>3. Turns(p) /\ run'[p] = s
  BY <1>1, GoTurns
<1> QED BY <1>3 DEF Asked, RestSame, Ask, RunType

\* ... has done with it, ...
LEMMA SettledType ==
  ASSUME NEW p, run[p] \in RunType, NEW step \in Steps
  PROVE  /\ Settled(p, step) \in RunType
         /\ Settled(p, step).at = step /\ Settled(p, step).op = "start" /\ Settled(p, step).path = "old"
         /\ Settled(p, step).blob = run[p].blob /\ Settled(p, step).expected = run[p].expected
         /\ Settled(p, step).bearer = run[p].bearer /\ Settled(p, step).cached = run[p].cached
         /\ Settled(p, step).refreshed = run[p].refreshed /\ Settled(p, step).lock = run[p].lock
         /\ Settled(p, step).swept = run[p].swept /\ Settled(p, step).unlocked = run[p].unlocked
<1>1. Settled(p, step) \in RunType
  BY DEF RunType, Settled, Steps, Places
<1> QED BY <1>1 DEF RunType, Settled

LEMMA SettledTurns ==
  ASSUME run \in [Procs -> RunType], NEW p \in Procs, NEW step \in Steps, Go(p, Settled(p, step))
  PROVE  Used(p, step) /\ SessionSame(p)
<1> DEFINE s == Settled(p, step)
<1>0. run[p] \in RunType
  OBVIOUS
<1>1. s \in RunType
  BY <1>0, SettledType
<1>2. Turns(p) /\ run'[p] = s
  BY <1>1, GoTurns
<1> QED BY <1>0, <1>2, SettledType DEF Used, SessionSame, RestSame

\* ... or has been told.
LEMMA ResolvedTurns ==
  ASSUME run \in [Procs -> RunType], NEW p \in Procs, NEW place \in Places, Resolved(p, place)
  PROVE  Placed(p, place)
<1> DEFINE s == [run[p] EXCEPT !.path = place, !.at = run[p].op]
<1>1. s \in RunType
  BY DEF RunType
<1>2. Go(p, s)
  BY DEF Resolved
<1>3. Turns(p) /\ run'[p] = s
  BY <1>1, <1>2, GoTurns
<1> QED BY <1>3 DEF Placed, SessionSame, RestSame, RunType

-----------------------------------------------------------------------------
(* A lock file of its own.                                                 *)

\* One element more.
LEMMA OneMore ==
  ASSUME NEW S, NEW x, IsFiniteSet(S), NEW n \in Int, Cardinality(S) <= n
  PROVE  IsFiniteSet(S \union {x}) /\ Cardinality(S \union {x}) <= n + 1
<1>1. Cardinality(S) \in Nat
  BY FS_CardinalityType
<1>2. IsFiniteSet(S \union {x}) /\ Cardinality(S \union {x}) = IF x \in S THEN Cardinality(S) ELSE Cardinality(S) + 1
  BY FS_AddElement, Zenon
<1>3. CASE x \in S
  <2>1. Cardinality(S \union {x}) = Cardinality(S)
    BY <1>2, <1>3
  <2> QED BY <1>1, <1>2, <2>1
<1>4. CASE x \notin S
  <2>1. Cardinality(S \union {x}) = Cardinality(S) + 1
    BY <1>2, <1>4
  <2> QED BY <1>1, <1>2, <2>1
<1> QED BY <1>3, <1>4

\* At most one lock file for each run, and one in each place: a run that opens one
\* finds a number that is free.
LEMMA FreeLock ==
  ASSUME TypeInv, NEW p \in Runs, run[p].lock = 0
  PROVE  \E n \in Locks : n # sidecar["old"] /\ n # sidecar["new"] /\ \A q \in Procs : run[q].lock # n
<1> DEFINE Others == Runs \ {p}
           ByRuns   == {run[q].lock : q \in Others}
           InUse   == (ByRuns \union {sidecar["old"]}) \union {sidecar["new"]}
           f      == [q \in Others |-> run[q].lock]
<1>1. /\ IsFiniteSet(Runs) /\ Cardinality(Runs) \in Nat
      /\ IsFiniteSet(Others) /\ Cardinality(Others) = Cardinality(Runs) - 1
  BY FS_CardinalityType, FS_RemoveElement, ContextFilesAssumption
<1>2. f \in Surjection(Others, ByRuns)
  BY DEF Surjection
<1>3. IsFiniteSet(ByRuns) /\ Cardinality(ByRuns) <= Cardinality(Runs) - 1 /\ Cardinality(ByRuns) \in Nat
  BY <1>1, <1>2, FS_Surjection, FS_CardinalityType
<1> HIDE DEF ByRuns, f, Others
<1>4. IsFiniteSet(ByRuns \union {sidecar["old"]}) /\ Cardinality(ByRuns \union {sidecar["old"]}) <= Cardinality(Runs)
  <2>1. Cardinality(Runs) - 1 \in Int /\ (Cardinality(Runs) - 1) + 1 = Cardinality(Runs)
    BY <1>1
  <2>2. Cardinality(ByRuns \union {sidecar["old"]}) <= (Cardinality(Runs) - 1) + 1
    BY <1>3, <2>1, OneMore, Zenon
  <2> QED BY <1>3, <2>1, <2>2, OneMore, Zenon
<1>5. IsFiniteSet(InUse) /\ Cardinality(InUse) <= Cardinality(Runs) + 1
  <2>1. Cardinality(Runs) \in Int
    BY <1>1
  <2> QED BY <1>4, <2>1, OneMore, Zenon
<1>6. Cardinality(Locks) = Cardinality(Runs) + 2
  BY <1>1, FS_Interval DEF Locks
<1>7. ~(Locks \subseteq InUse)
  <2> SUFFICES ASSUME Locks \subseteq InUse PROVE FALSE
    OBVIOUS
  <2>1. Cardinality(Locks) <= Cardinality(InUse)
    BY <1>5, FS_Subset, Zenon
  <2>2. Cardinality(InUse) \in Nat
    BY <1>5, FS_CardinalityType
  <2> QED BY <1>1, <1>5, <1>6, <2>1, <2>2
<1>8. PICK n \in Locks : n \notin InUse
  BY <1>7
<1>9. n # 0
  BY DEF Locks
<1>10. ASSUME NEW q \in Procs PROVE run[q].lock # n
  <2>1. CASE q \in Others
    BY <1>8, <2>1 DEF ByRuns
  <2>2. CASE q = p
    BY <1>9, <2>2
  <2>3. CASE q \in Clears
    <3>1. q \notin Runs
      BY <2>3, ContextFilesAssumption
    <3>2. run[q].at \notin HasLockFile
      BY <3>1, <1>10 DEF TypeInv, StepInv, AtStep, Doing, InUpdate, HasLockFile, Moving
    <3> QED BY <3>2, <1>9, <1>10 DEF TypeInv, StepInv, AtStep
  <2> QED BY <1>10, <2>1, <2>2, <2>3 DEF Procs, Others
<1> QED BY <1>8, <1>10

-----------------------------------------------------------------------------
(* What each action does.                                                  *)

Outside == UNCHANGED <<file, crossFs, login, expired, switches, sidecar>>
Inside  == Outside /\ UNCHANGED <<disk, failures, dropped, before, recorded>>

\* The file is moved, or found, before it is used.
Resolves(p) ==
  /\ run[p].at = "resolve" /\ Outside /\ UNCHANGED <<disk, dropped, before, recorded>>
  /\ \/ Placed(p, "old") /\ failures' = failures + 1 /\ failures' <= MaxShowFailures
     \/ Placed(p, "new") /\ disk["new"].there /\ failures' = failures
     \/ Steps1(p, "statOld") /\ ~disk["new"].there /\ failures' = failures

Stats(p) ==
  /\ run[p].at = "statOld" /\ Inside
  /\ \/ Steps1(p, "rename") /\ disk["old"].there
     \/ Placed(p, "new") /\ ~disk["old"].there

Renames(p) ==
  /\ run[p].at = "rename" /\ Outside /\ UNCHANGED <<failures, dropped, before, recorded>>
  /\ \/ Placed(p, "new") /\ ~disk["old"].there /\ disk' = disk
     \/ /\ crossFs /\ disk["old"].there /\ disk' = disk
        /\ Turns(p) /\ SessionSame(p) /\ RestSame(p) /\ run'[p].op = run[p].op /\ run'[p].path = run[p].path
        /\ run'[p].blob = disk["old"].holds /\ run'[p].at = "copy"
     \/ /\ ~crossFs /\ disk["old"].there /\ disk' = [old |-> NoFile, new |-> disk["old"]]
        /\ Placed(p, "new")

Copies(p) ==
  /\ run[p].at = "copy" /\ Outside /\ UNCHANGED <<failures, dropped, before, recorded>>
  /\ disk' \in {disk, [disk EXCEPT !["new"] = File(run[p].blob, FALSE)]}
  /\ Turns(p) /\ SessionSame(p) /\ RestSame(p) /\ run'[p].op = run[p].op /\ run'[p].path = run[p].path
  /\ run'[p].blob = {} /\ run'[p].at = "unlink"

Unlinks(p) ==
  /\ run[p].at = "unlink" /\ Outside /\ UNCHANGED <<failures, dropped, before, recorded>>
  /\ disk' \in {disk, [disk EXCEPT !["old"] = NoFile]}
  /\ Placed(p, "new")

\* A session begins, ...
Expects(p) ==
  /\ run[p].at = "start" /\ p \in Runs /\ file = "token"
  /\ Outside /\ UNCHANGED <<disk, dropped, before, recorded>> /\ failures' \in 0..MaxShowFailures
  /\ failures' = 0 => failures = 0
  /\ run'[p].bearer = run[p].bearer /\ run'[p].cached = run[p].cached /\ run'[p].refreshed = run[p].refreshed
  /\ \/ Asked(p, "read") /\ login \in Accounts /\ run'[p].expected = login
     \/ Steps1(p, "mint")

Skips(p) == run[p].at = "start" /\ p \in Runs /\ file = "token" /\ Inside /\ Steps1(p, "mint")

Reads(p) ==
  /\ run[p].at = "read" /\ Inside
  /\ \/ Ended(p, "failed")
     \/ /\ Used(p, "running") /\ run'[p].cached
        /\ run'[p].expected = run[p].expected /\ run'[p].refreshed = run[p].refreshed
        /\ \E t \in disk[run[p].path].holds : Usable(p, t) /\ run'[p].bearer = t
     \/ /\ Used(p, "mint") /\ run'[p].expected = NoAccount
        /\ run'[p].bearer = run[p].bearer /\ run'[p].cached = run[p].cached /\ run'[p].refreshed = run[p].refreshed

Mints(p) ==
  /\ run[p].at = "mint" /\ Inside
  /\ \/ Ended(p, "failed")
     \/ /\ Asked(p, "write") /\ run'[p].bearer = Fresh(p) /\ login \in Accounts
        /\ run[p].bearer = NoToken \/ AccountOf(run[p].bearer) = login
        /\ run'[p].expected = run[p].expected /\ run'[p].cached = run[p].cached
        /\ run'[p].refreshed = run[p].refreshed

\* ... stores what it minted, ...
Stores(p) ==
  /\ run[p].at = "write" /\ Outside /\ UNCHANGED <<failures, dropped, before, recorded>>
  /\ disk' \in {disk, [disk EXCEPT ![run[p].path] = File({run[p].bearer}, FALSE)]}
  /\ Used(p, "running") /\ SessionSame(p)

\* ... is told that ARM will not take a token, ...
Rejects(p) ==
  /\ run[p].at = "running" /\ run[p].cached /\ ~run[p].refreshed /\ Inside
  /\ Asked(p, "drop") /\ run'[p].expected = run[p].expected /\ run'[p].bearer = run[p].bearer
  /\ run'[p].cached = run[p].cached /\ run'[p].refreshed

Challenges(p) == run[p].at = "running" /\ Inside /\ Asked(p, "dropLast") /\ SessionSame(p)

Drops(p) ==
  /\ Outside /\ UNCHANGED <<failures, before, recorded>>
  /\ disk' = [disk EXCEPT ![run[p].path] = NoFile]
  /\ dropped' = dropped \union {run[p].bearer}
  /\ \/ run[p].at = "drop" /\ Used(p, "mint") /\ SessionSame(p)
     \/ run[p].at = "dropLast" /\ Ended(p, "failed")

\* ... and is over.
Finishes(p) == run[p].at = "running" /\ Inside /\ Ended(p, "done")

\* An update of the record.
Updates(p) ==
  run[p].at = "start" /\ p \in Runs /\ file = "record" /\ Inside /\ Asked(p, "lock") /\ SessionSame(p)

Opens(p) ==
  /\ run[p].at = "lock" /\ UNCHANGED <<file, crossFs, login, expired, switches>>
  /\ UNCHANGED <<disk, failures, dropped, before, recorded>>
  /\ \E n \in Locks : /\ sidecar' = [sidecar EXCEPT ![run[p].path] = n] /\ run'[p].lock = n
                      /\ n = sidecar[run[p].path] \/ sidecar[run[p].path] = 0
  /\ Turns(p) /\ SessionSame(p) /\ FileSame(p) /\ run'[p].at = "locking"
  /\ run'[p].swept = run[p].swept /\ run'[p].unlocked = run[p].unlocked

Takes(p) ==
  run[p].at = "locking" /\ Inside /\ (\A q \in Procs : ~Holds(q, run[p].lock)) /\ Steps1(p, "load")

Loads(p) ==
  /\ run[p].at = "load" /\ Inside
  /\ Turns(p) /\ SessionSame(p) /\ RestSame(p) /\ run'[p].op = run[p].op /\ run'[p].path = run[p].path
  /\ run'[p].blob = disk[run[p].path].holds /\ run'[p].at = "save"

Saves(p) ==
  /\ run[p].at = "save" /\ Outside /\ UNCHANGED <<failures, dropped, before>>
  /\ disk' = [disk EXCEPT ![run[p].path] = File(run[p].blob \union {p}, FALSE)]
  /\ recorded' = recorded \union {p} /\ Ended(p, "done")

Kills(p) == run[p].lock # 0 /\ Inside /\ Ended(p, "killed")

\* A clear, place by place.
Begins(p) ==
  /\ run[p].at = "start" /\ p \in Clears /\ Outside /\ UNCHANGED <<disk, failures, dropped, recorded>>
  /\ before' = [before EXCEPT ![p] = IF file = "token" THEN OnDisk ELSE {}]
  /\ Turns(p) /\ SessionSame(p) /\ RestSame(p) /\ run'[p].op = run[p].op /\ run'[p].blob = run[p].blob
  /\ run'[p].path = "old" /\ run'[p].at = "sweep"

\* The place is done with.
Passed(p) ==
  /\ Turns(p) /\ run'[p].lock = run[p].lock
  /\ \/ run[p].path = "old" /\ SessionSame(p) /\ FileSame(p) /\ run'[p].at = "list" /\ run'[p].swept = run[p].swept
     \/ /\ run[p].path = "new" /\ run'[p].at = "done" /\ run'[p].swept
        /\ run'[p].op = "start" /\ run'[p].path = "old" /\ run'[p].blob = {}
        /\ run'[p].expected = NoAccount /\ run'[p].bearer = NoToken /\ ~run'[p].cached /\ ~run'[p].refreshed

Sweeps(p) ==
  /\ run[p].at = "sweep" /\ file = "token" /\ Outside /\ UNCHANGED <<failures, dropped, before, recorded>>
  /\ disk' = [disk EXCEPT ![run[p].path] = NoFile]
  /\ Passed(p) /\ run'[p].unlocked = run[p].unlocked

Lists(p) ==
  /\ run[p].at = "list" /\ Outside /\ UNCHANGED <<disk, dropped, before, recorded>>
  /\ failures' \in 0..MaxShowFailures /\ (failures' = 0 => failures = 0)
  /\ \/ /\ Turns(p) /\ SessionSame(p) /\ RestSame(p) /\ run'[p].op = run[p].op /\ run'[p].blob = run[p].blob
        /\ run'[p].path = "new" /\ run'[p].at = "sweep"
     \/ Ended(p, "done")

Finds(p) ==
  /\ run[p].at = "sweep" /\ file = "record" /\ Inside
  /\ \/ disk[run[p].path].there /\ Steps1(p, "remove")
     \/ ~disk[run[p].path].there /\ Passed(p) /\ run'[p].unlocked = run[p].unlocked

Removes(p) ==
  /\ run[p].at = "remove" /\ Outside /\ UNCHANGED <<failures, dropped, before>>
  /\ disk' = [disk EXCEPT ![run[p].path] = NoFile]
  /\ \/ disk[run[p].path].there /\ Steps1(p, "removeLock") /\ recorded' = {}
     \/ ~disk[run[p].path].there /\ Ended(p, "failed") /\ recorded' = recorded

Unlocks(p) ==
  /\ run[p].at = "removeLock" /\ UNCHANGED <<file, crossFs, login, expired, switches>>
  /\ UNCHANGED <<disk, failures, dropped, before, recorded>>
  /\ sidecar' = [sidecar EXCEPT ![run[p].path] = 0]
  /\ Passed(p) /\ run'[p].unlocked

MovesFile(p)   == Resolves(p) \/ Stats(p) \/ Renames(p) \/ Copies(p) \/ Unlinks(p)
HasSession(p)  == Expects(p) \/ Skips(p) \/ Reads(p) \/ Mints(p) \/ Stores(p)
                  \/ Rejects(p) \/ Challenges(p) \/ Drops(p) \/ Finishes(p)
UpdatesFile(p) == Updates(p) \/ Opens(p) \/ Takes(p) \/ Loads(p) \/ Saves(p) \/ Kills(p)
Clearing(p)    == Begins(p) \/ Sweeps(p) \/ Lists(p) \/ Finds(p) \/ Removes(p) \/ Unlocks(p)
Does(p) == MovesFile(p) \/ HasSession(p) \/ UpdatesFile(p) \/ Clearing(p)

\* The login changes, and the file, the processes and what was recorded do not.
Switches ==
  /\ login' \in Accounts \union {NoAccount} /\ switches' \in 0..MaxSwitches
  /\ UNCHANGED <<file, crossFs, expired, disk, sidecar, run, failures, dropped, before, recorded>>

\* What is needed of the types of one process.
LEMMA ProcType ==
  ASSUME TypeInv, NEW p \in Procs
  PROVE  run \in [Procs -> RunType] /\ run[p] \in RunType /\ failures \in 0..MaxShowFailures /\ MaxShowFailures \in Nat
BY ContextFilesAssumption DEF TypeInv, TypeOK

\* pimctl's own directory is swept first.
LEMMA PlaceNames == FirstPlace = "old" /\ SecondPlace = "new" /\ "old" \in Places /\ "new" \in Places
BY DEF FirstPlace, SecondPlace, Places

\* The moves of the file do what the predicates above say.
LEMMA ResolveDoes == ASSUME TypeInv, NEW p \in Procs, Resolve(p) PROVE Resolves(p)
<1>0. /\ run \in [Procs -> RunType] /\ run[p] \in RunType /\ failures \in 0..MaxShowFailures
      /\ MaxShowFailures \in Nat
  BY ProcType
<1>1. PICK answers \in BOOLEAN :
        /\ Asks(p, answers)
        /\ Go(p, LET r == Answered(p, answers)
                 IN  IF ~answers THEN [r EXCEPT !.path = "old", !.at = r.op]
                     ELSE IF disk["new"].there THEN [r EXCEPT !.path = "new", !.at = r.op]
                     ELSE [r EXCEPT !.at = "statOld"])
  BY DEF Resolve
<1> DEFINE a == Answered(p, answers)
           s == IF ~answers THEN [a EXCEPT !.path = "old", !.at = a.op]
                ELSE IF disk["new"].there THEN [a EXCEPT !.path = "new", !.at = a.op]
                ELSE [a EXCEPT !.at = "statOld"]
<1>2. /\ a \in RunType /\ a.op = run[p].op /\ a.path = run[p].path /\ a.blob = run[p].blob
      /\ a.expected = run[p].expected /\ a.bearer = run[p].bearer /\ a.cached = run[p].cached
      /\ a.refreshed = run[p].refreshed
      /\ a.lock = run[p].lock /\ a.swept = run[p].swept /\ a.unlocked = run[p].unlocked
  BY <1>0 DEF Answered, RunType
<1> HIDE DEF a
<1>3. s \in RunType
  BY <1>2 DEF RunType, Places, Steps
<1>4. Turns(p) /\ run'[p] = s
  BY <1>0, <1>1, <1>3, GoTurns DEF a
<1>5. CASE ~answers
  <2>1. Placed(p, "old")
    BY <1>2, <1>4, <1>5 DEF Placed, SessionSame, RestSame, RunType
  <2>2. failures' = failures + 1 /\ failures' <= MaxShowFailures
    BY <1>0, <1>1, <1>5 DEF Asks
  <2> QED BY <2>1, <2>2 DEF Resolve, Resolves, At, Outside, world, account, history
<1>6. CASE answers /\ disk["new"].there
  <2>1. Placed(p, "new")
    BY <1>2, <1>4, <1>6 DEF Placed, SessionSame, RestSame, RunType
  <2>2. failures' = failures
    BY <1>0, <1>1, <1>6 DEF Asks
  <2> QED BY <1>6, <2>1, <2>2 DEF Resolve, Resolves, At, Outside, world, account, history
<1>7. CASE answers /\ ~disk["new"].there
  <2>1. Steps1(p, "statOld")
    BY <1>2, <1>4, <1>7 DEF Steps1, SessionSame, RestSame, FileSame, RunType
  <2>2. failures' = failures
    BY <1>0, <1>1, <1>7 DEF Asks
  <2> QED BY <1>7, <2>1, <2>2 DEF Resolve, Resolves, At, Outside, world, account, history
<1> QED BY <1>5, <1>6, <1>7

LEMMA StatDoes == ASSUME TypeInv, NEW p \in Procs, StatOld(p) PROVE Stats(p)
<1>0. run \in [Procs -> RunType] /\ "rename" \in Steps /\ "new" \in Places
  BY ProcType, PlaceNames DEF Steps
<1>1. disk["old"].there => Steps1(p, "rename")
  BY <1>0, ToTurns, Zenon DEF StatOld
<1>2. ~disk["old"].there => Placed(p, "new")
  BY <1>0, ResolvedTurns, Zenon DEF StatOld
<1> QED BY <1>1, <1>2 DEF StatOld, Stats, At, Inside, Outside, world, account, history

LEMMA RenameDoes == ASSUME TypeInv, NEW p \in Procs, Rename(p) PROVE Renames(p)
<1>0. run \in [Procs -> RunType] /\ "new" \in Places /\ run[p] \in RunType /\ disk["old"].holds \in Content
  BY ProcType, PlaceNames DEF TypeInv, TypeOK, Content
<1>1. Resolved(p, "new") => Placed(p, "new")
  BY <1>0, ResolvedTurns, Zenon
<1> DEFINE s == [run[p] EXCEPT !.blob = disk["old"].holds, !.at = "copy"]
<1>2. s \in RunType
  BY <1>0 DEF RunType, Steps
<1>3. ASSUME Go(p, s)
      PROVE  /\ Turns(p) /\ SessionSame(p) /\ RestSame(p) /\ run'[p].op = run[p].op /\ run'[p].path = run[p].path
             /\ run'[p].blob = disk["old"].holds /\ run'[p].at = "copy"
  <2>1. Turns(p) /\ run'[p] = s
    BY <1>0, <1>2, <1>3, GoTurns
  <2> QED BY <1>0, <2>1 DEF SessionSame, RestSame, RunType
<1> QED BY <1>1, <1>3 DEF Rename, Renames, At, Outside, world, account, history

LEMMA CopyDoes == ASSUME TypeInv, NEW p \in Procs, Copy(p) PROVE Copies(p)
<1>0. run \in [Procs -> RunType] /\ run[p] \in RunType
  BY ProcType
<1> DEFINE s == [run[p] EXCEPT !.blob = {}, !.at = "unlink"]
<1>2. s \in RunType
  BY <1>0 DEF RunType, Steps, Content
<1>3. Turns(p) /\ run'[p] = s
  BY <1>0, <1>2, GoTurns DEF Copy
<1>4. /\ SessionSame(p) /\ RestSame(p) /\ run'[p].op = run[p].op /\ run'[p].path = run[p].path
      /\ run'[p].blob = {} /\ run'[p].at = "unlink"
  BY <1>0, <1>3 DEF SessionSame, RestSame, RunType
<1> QED BY <1>3, <1>4 DEF Copy, Copies, At, Outside, world, account, history

LEMMA UnlinkDoes == ASSUME TypeInv, NEW p \in Procs, Unlink(p) PROVE Unlinks(p)
<1>0. run \in [Procs -> RunType] /\ "new" \in Places
  BY ProcType, PlaceNames
<1>1. Placed(p, "new")
  BY <1>0, ResolvedTurns, Zenon DEF Unlink
<1> QED BY <1>1 DEF Unlink, Unlinks, At, Outside, world, account, history

\* What cloudctx is asked, and may fail to answer, MaxShowFailures times.
LEMMA AsksDoes ==
  ASSUME failures \in 0..MaxShowFailures, MaxShowFailures \in Nat, NEW p \in Procs, NEW answers \in BOOLEAN,
         Asks(p, answers)
  PROVE  /\ failures' \in 0..MaxShowFailures
         /\ failures' = 0 => failures = 0 /\ answers
BY DEF Asks

\* So do the steps of a session, ...
LEMMA ExpectDoes == ASSUME TypeInv, NEW p \in Procs, ExpectAccount(p) PROVE Expects(p)
<1>0. /\ run \in [Procs -> RunType] /\ run[p] \in RunType /\ failures \in 0..MaxShowFailures
      /\ MaxShowFailures \in Nat
  BY ProcType
<1>1. PICK answers \in BOOLEAN :
        /\ Asks(p, answers)
        /\ Go(p, IF answers /\ login # NoAccount /\ (run[p].ambient \/ TenantOf[login] = PinnedTenant)
                   THEN Ask([Answered(p, answers) EXCEPT !.expected = login], "read")
                   ELSE [Answered(p, answers) EXCEPT !.at = "mint"])
  BY DEF ExpectAccount
<1>2. failures' \in 0..MaxShowFailures /\ (failures' = 0 => failures = 0)
  BY <1>0, <1>1, AsksDoes
<1> DEFINE a == Answered(p, answers)
           b == [a EXCEPT !.expected = login]
           s == [a EXCEPT !.at = "mint"]
<1>3. /\ a \in RunType /\ a.op = run[p].op /\ a.path = run[p].path /\ a.blob = run[p].blob
      /\ a.expected = run[p].expected /\ a.bearer = run[p].bearer /\ a.cached = run[p].cached
      /\ a.refreshed = run[p].refreshed
      /\ a.lock = run[p].lock /\ a.swept = run[p].swept /\ a.unlocked = run[p].unlocked
  BY <1>0 DEF Answered, RunType
<1> HIDE DEF a
<1>4. CASE answers /\ login # NoAccount /\ (run[p].ambient \/ TenantOf[login] = PinnedTenant)
  <2>1. login \in Accounts
    BY <1>4 DEF TypeInv, TypeOK
  <2>2. /\ b \in RunType /\ b.path = run[p].path /\ b.blob = run[p].blob
        /\ b.expected = login /\ b.bearer = run[p].bearer /\ b.cached = run[p].cached
        /\ b.refreshed = run[p].refreshed
        /\ b.lock = run[p].lock /\ b.swept = run[p].swept /\ b.unlocked = run[p].unlocked
    BY <1>3, <2>1 DEF RunType
  <2>3. Go(p, Ask(b, "read"))
    BY <1>1, <1>4 DEF a
  <2> HIDE DEF b
  <2>4. "read" \in Steps
    BY DEF Steps
  <2>5. /\ Asked(p, "read") /\ run'[p].expected = login /\ run'[p].bearer = run[p].bearer
        /\ run'[p].cached = run[p].cached /\ run'[p].refreshed = run[p].refreshed
    BY <1>0, <2>2, <2>3, <2>4, AskTurns
  <2> QED BY <1>2, <2>1, <2>5 DEF ExpectAccount, Expects, At, Outside, world, account, history
<1>5. CASE ~(answers /\ login # NoAccount /\ (run[p].ambient \/ TenantOf[login] = PinnedTenant))
  <2>1. s \in RunType
    BY <1>3 DEF RunType, Steps
  <2>2. Turns(p) /\ run'[p] = s
    BY <1>0, <1>1, <1>5, <2>1, GoTurns DEF a
  <2>3. Steps1(p, "mint")
    BY <1>3, <2>2 DEF Steps1, SessionSame, RestSame, FileSame, RunType
  <2> QED BY <1>2, <2>3 DEF ExpectAccount, Expects, At, Outside, world, account, history, Steps1, SessionSame
<1> QED BY <1>4, <1>5

LEMMA SkipDoes == ASSUME TypeInv, NEW p \in Procs, SkipCache(p) PROVE Skips(p)
<1>1. Steps1(p, "mint")
  BY ProcType, ToTurns DEF SkipCache, Steps
<1> QED BY <1>1 DEF SkipCache, Skips, At, Inside, Outside, world, account, history

\* A run that fails, where it reads the file or mints.
LEMMA FailTurns == ASSUME TypeInv, NEW p \in Procs, Go(p, End(run[p], "failed")) PROVE Ended(p, "failed")
<1>1. "failed" \in Over /\ Ends(p, "failed")
  BY DEF Over, Ends
<1> QED BY <1>1, ProcType, EndTurns

LEMMA ReadDoes == ASSUME TypeInv, NEW p \in Procs, ReadCache(p) PROVE Reads(p)
<1>0. run \in [Procs -> RunType] /\ run[p] \in RunType /\ run[p].path \in Places /\ file = "token"
  BY ProcType DEF ReadCache, At, TypeInv, TypeOK, StepInv, AtStep, Doing, InSession, Moving
<1> DEFINE f == disk[run[p].path]
           t == CHOOSE x \in f.holds : TRUE
           o == Settled(p, "running")
           s == [o EXCEPT !.bearer = t, !.cached = TRUE]
           w == Settled(p, "mint")
           v == [w EXCEPT !.expected = NoAccount]
<1>a. "running" \in Steps /\ "mint" \in Steps
  BY DEF Steps
<1>1. o \in RunType /\ w \in RunType
  BY <1>0, <1>a, SettledType
<1>2. /\ o.at = "running" /\ o.op = "start" /\ o.path = "old" /\ o.blob = run[p].blob
      /\ o.expected = run[p].expected /\ o.refreshed = run[p].refreshed
      /\ o.lock = run[p].lock /\ o.swept = run[p].swept /\ o.unlocked = run[p].unlocked
  BY <1>0, <1>a, SettledType
<1>3. /\ w.at = "mint" /\ w.op = "start" /\ w.path = "old" /\ w.blob = run[p].blob
      /\ w.bearer = run[p].bearer /\ w.cached = run[p].cached /\ w.refreshed = run[p].refreshed
      /\ w.lock = run[p].lock /\ w.swept = run[p].swept /\ w.unlocked = run[p].unlocked
  BY <1>0, <1>a, SettledType
<1>4. Go(p, IF f.there /\ f.wide THEN End(run[p], "failed")
            ELSE IF f.there /\ \E x \in f.holds : Usable(p, x) THEN s ELSE v)
  BY DEF ReadCache
<1>5. At(p, "read") /\ Inside
  BY DEF ReadCache, Inside, Outside, world, account, history
<1> HIDE DEF o, w
<1>6. CASE f.there /\ f.wide
  <2>1. Ended(p, "failed")
    BY <1>4, <1>6, FailTurns
  <2> QED BY <1>5, <2>1 DEF Reads, At
<1>7. CASE ~(f.there /\ f.wide) /\ f.there /\ \E x \in f.holds : Usable(p, x)
  <2>1. PICK c \in Tokens : f.holds = {c}
    BY <1>0, <1>7 DEF TypeInv, TypeOK
  <2>2. t = c /\ t \in Tokens /\ Usable(p, t)
    BY <1>7, <2>1
  <2> HIDE DEF t
  <2>3. s \in RunType
    BY <1>1, <2>2 DEF RunType
  <2>4. Turns(p) /\ run'[p] = s
    BY <1>0, <1>4, <1>7, <2>3, GoTurns
  <2>5. /\ Used(p, "running") /\ run'[p].cached /\ run'[p].bearer = t
        /\ run'[p].expected = run[p].expected /\ run'[p].refreshed = run[p].refreshed
    BY <1>1, <1>2, <2>4 DEF Used, RestSame, RunType
  <2> QED BY <1>5, <2>1, <2>2, <2>5 DEF Reads, At
<1>8. CASE ~(f.there /\ f.wide) /\ ~(f.there /\ \E x \in f.holds : Usable(p, x))
  <2>3. v \in RunType
    BY <1>1 DEF RunType
  <2>4. Turns(p) /\ run'[p] = v
    BY <1>0, <1>4, <1>8, <2>3, GoTurns
  <2>5. /\ Used(p, "mint") /\ run'[p].expected = NoAccount
        /\ run'[p].bearer = run[p].bearer /\ run'[p].cached = run[p].cached /\ run'[p].refreshed = run[p].refreshed
    BY <1>1, <1>3, <2>4 DEF Used, RestSame, RunType
  <2> QED BY <1>5, <2>5 DEF Reads, At
<1> QED BY <1>6, <1>7, <1>8, Zenon

\* What a run mints is its own, and of the login.
LEMMA FreshType ==
  ASSUME login \in Accounts, NEW p \in Runs
  PROVE  Fresh(p) \in Tokens /\ Mine(p, Fresh(p)) /\ AccountOf(Fresh(p)) = login
BY DEF Fresh, Tokens, Mine, AccountOf

LEMMA MintDoes == ASSUME TypeInv, NEW p \in Procs, Mint(p) PROVE Mints(p)
<1>0. run \in [Procs -> RunType] /\ run[p] \in RunType /\ p \in Runs
  BY ProcType DEF Mint, At, TypeInv, StepInv, AtStep, Doing, InSession, Moving
<1>1. At(p, "mint") /\ Inside
  BY DEF Mint, Inside, Outside, world, account, history
<1>2. CASE login = NoAccount \/ (run[p].bearer # NoToken /\ AccountOf(run[p].bearer) # login)
  <2>1. Ended(p, "failed")
    BY <1>2, FailTurns DEF Mint, Ends
  <2> QED BY <1>1, <2>1 DEF Mints, At
<1>3. CASE ~(login = NoAccount \/ (run[p].bearer # NoToken /\ AccountOf(run[p].bearer) # login))
  <2>1. login \in Accounts
    BY <1>3 DEF TypeInv, TypeOK
  <2> DEFINE a == [run[p] EXCEPT !.bearer = Fresh(p)]
  <2>2. Fresh(p) \in Tokens
    BY <1>0, <2>1, FreshType
  <2>3. /\ a \in RunType /\ a.path = run[p].path /\ a.blob = run[p].blob
        /\ a.expected = run[p].expected /\ a.bearer = Fresh(p) /\ a.cached = run[p].cached
        /\ a.refreshed = run[p].refreshed
        /\ a.lock = run[p].lock /\ a.swept = run[p].swept /\ a.unlocked = run[p].unlocked
    BY <1>0, <2>2 DEF RunType
  <2>4. Go(p, Ask(a, "write")) /\ "write" \in Steps
    BY <1>3 DEF Mint, Steps
  <2> HIDE DEF a
  <2>5. /\ Asked(p, "write") /\ run'[p].expected = run[p].expected /\ run'[p].bearer = Fresh(p)
        /\ run'[p].cached = run[p].cached /\ run'[p].refreshed = run[p].refreshed
    BY <1>0, <2>3, <2>4, AskTurns
  <2> QED BY <1>1, <1>3, <2>1, <2>5 DEF Mints, At
<1> QED BY <1>2, <1>3

LEMMA WriteDoes == ASSUME TypeInv, NEW p \in Procs, Write(p) PROVE Stores(p)
<1>1. Used(p, "running") /\ SessionSame(p)
  BY ProcType, SettledTurns DEF Write, Steps
<1> QED BY <1>1 DEF Write, Stores, At, Outside, world, account, history

LEMMA RejectDoes == ASSUME TypeInv, NEW p \in Procs, Rejected(p) PROVE Rejects(p)
<1>0. run \in [Procs -> RunType] /\ run[p] \in RunType
  BY ProcType
<1> DEFINE a == [run[p] EXCEPT !.refreshed = TRUE]
<1>1. /\ a \in RunType /\ a.path = run[p].path /\ a.blob = run[p].blob
      /\ a.expected = run[p].expected /\ a.bearer = run[p].bearer /\ a.cached = run[p].cached
      /\ a.refreshed
      /\ a.lock = run[p].lock /\ a.swept = run[p].swept /\ a.unlocked = run[p].unlocked
  BY <1>0 DEF RunType
<1>2. Go(p, Ask(a, "drop")) /\ "drop" \in Steps
  BY DEF Rejected, Steps
<1> HIDE DEF a
<1>3. /\ Asked(p, "drop") /\ run'[p].expected = run[p].expected /\ run'[p].bearer = run[p].bearer
      /\ run'[p].cached = run[p].cached /\ run'[p].refreshed = a.refreshed
  BY <1>0, <1>1, <1>2, AskTurns
<1>4. run'[p].refreshed
  BY <1>1, <1>3
<1> QED BY <1>3, <1>4 DEF Rejected, Rejects, At, Inside, Outside, world, account, history

LEMMA AskedTurns ==
  ASSUME TypeInv, NEW p \in Procs, NEW op \in Steps, Go(p, Ask(run[p], op))
  PROVE  Asked(p, op) /\ SessionSame(p)
BY ProcType, AskTurns DEF SessionSame

LEMMA ChallengeDoes == ASSUME TypeInv, NEW p \in Procs, Challenged(p) PROVE Challenges(p)
<1>1. Asked(p, "dropLast") /\ SessionSame(p)
  BY AskedTurns DEF Challenged, Steps
<1> QED BY <1>1 DEF Challenged, Challenges, At, Inside, Outside, world, account, history

LEMMA DropDoes == ASSUME TypeInv, NEW p \in Procs, Drop(p) PROVE Drops(p)
<1>1. CASE At(p, "drop")
  <2>1. Used(p, "mint") /\ SessionSame(p)
    BY <1>1, ProcType, SettledTurns DEF Drop, Steps
  <2> QED BY <1>1, <2>1 DEF Drop, Drops, At, Outside, world, account, history
<1>2. CASE ~At(p, "drop")
  <2>1. Ended(p, "failed")
    BY <1>2, FailTurns DEF Drop
  <2> QED BY <1>2, <2>1 DEF Drop, Drops, At, Outside, world, account, history
<1> QED BY <1>1, <1>2

LEMMA FinishDoes == ASSUME TypeInv, NEW p \in Procs, Finish(p) PROVE Finishes(p)
<1>1. Ended(p, "done")
  BY ProcType, EndTurns DEF Finish, Over
<1> QED BY <1>1 DEF Finish, Finishes, At, Inside, Outside, world, account, history

\* ... those of an update, ...
LEMMA UpdateDoes == ASSUME TypeInv, NEW p \in Procs, BeginUpdate(p) PROVE Updates(p)
<1>1. Asked(p, "lock") /\ SessionSame(p)
  BY AskedTurns DEF BeginUpdate, Steps
<1> QED BY <1>1 DEF BeginUpdate, Updates, At, Inside, Outside, world, account, history

LEMMA OpenDoes == ASSUME TypeInv, NEW p \in Procs, OpenLock(p) PROVE Opens(p)
<1>0. /\ run \in [Procs -> RunType] /\ run[p] \in RunType /\ run[p].path \in Places
      /\ p \in Runs /\ run[p].lock = 0
  BY ProcType DEF OpenLock, At, TypeInv, TypeOK, StepInv, AtStep, Doing, InUpdate, HasLockFile, Moving
<1> DEFINE free == CHOOSE n \in Locks :
                     n # sidecar["old"] /\ n # sidecar["new"] /\ \A q \in Procs : run[q].lock # n
           n == IF sidecar[run[p].path] = 0 THEN free ELSE sidecar[run[p].path]
           s == [run[p] EXCEPT !.lock = n, !.at = "locking"]
<1>1. free \in Locks
  BY <1>0, FreeLock
<1>2. sidecar' = [sidecar EXCEPT ![run[p].path] = n] /\ Go(p, s)
  BY DEF OpenLock
<1> HIDE DEF free
<1>3. n \in Locks
  BY <1>0, <1>1 DEF TypeInv
<1>4. n = sidecar[run[p].path] \/ sidecar[run[p].path] = 0
  OBVIOUS
<1> HIDE DEF n
<1>5. s \in RunType
  BY <1>0, <1>3 DEF RunType, Steps
<1>6. Turns(p) /\ run'[p] = s
  BY <1>0, <1>2, <1>5, GoTurns
<1>7. /\ SessionSame(p) /\ FileSame(p) /\ run'[p].at = "locking" /\ run'[p].lock = n
      /\ run'[p].swept = run[p].swept /\ run'[p].unlocked = run[p].unlocked
  BY <1>0, <1>6 DEF SessionSame, FileSame, RunType
<1> QED BY <1>2, <1>3, <1>4, <1>6, <1>7 DEF OpenLock, Opens, At, world, account, history

LEMMA TakeDoes == ASSUME TypeInv, NEW p \in Procs, TakeLock(p) PROVE Takes(p)
<1>1. Steps1(p, "load")
  BY ProcType, ToTurns DEF TakeLock, Steps
<1> QED BY <1>1 DEF TakeLock, Takes, At, Inside, Outside, world, account, history

LEMMA LoadDoes == ASSUME TypeInv, NEW p \in Procs, LoadRecord(p) PROVE Loads(p)
<1>0. run \in [Procs -> RunType] /\ run[p] \in RunType /\ disk[run[p].path].holds \in Content
  BY ProcType DEF TypeInv, TypeOK, Content
<1> DEFINE s == [run[p] EXCEPT !.blob = disk[run[p].path].holds, !.at = "save"]
<1>1. s \in RunType
  BY <1>0 DEF RunType, Steps
<1>2. Turns(p) /\ run'[p] = s
  BY <1>0, <1>1, GoTurns DEF LoadRecord
<1>3. /\ SessionSame(p) /\ RestSame(p) /\ run'[p].op = run[p].op /\ run'[p].path = run[p].path
      /\ run'[p].blob = disk[run[p].path].holds /\ run'[p].at = "save"
  BY <1>0, <1>2 DEF SessionSame, RestSame, RunType
<1> QED BY <1>2, <1>3 DEF LoadRecord, Loads, At, Inside, Outside, world, account, history

LEMMA SaveDoes == ASSUME TypeInv, NEW p \in Procs, SaveRecord(p) PROVE Saves(p)
<1>1. Ended(p, "done")
  BY ProcType, EndTurns DEF SaveRecord, Over
<1> QED BY <1>1 DEF SaveRecord, Saves, At, Outside, world, account

LEMMA KillDoes == ASSUME TypeInv, NEW p \in Procs, Kill(p) PROVE Kills(p)
<1>1. Ended(p, "killed")
  BY ProcType, EndTurns DEF Kill, Over
<1> QED BY <1>1 DEF Kill, Kills, Inside, Outside, world, account, history

\* ... and those of a clear.
LEMMA BeginDoes == ASSUME TypeInv, NEW p \in Procs, BeginClear(p) PROVE Begins(p)
<1>0. run \in [Procs -> RunType] /\ run[p] \in RunType
  BY ProcType
<1> DEFINE s == [run[p] EXCEPT !.path = FirstPlace, !.at = "sweep"]
<1>1. s \in RunType
  BY <1>0, PlaceNames DEF RunType, Steps
<1>2. Turns(p) /\ run'[p] = s
  BY <1>0, <1>1, GoTurns DEF BeginClear
<1>3. /\ SessionSame(p) /\ RestSame(p) /\ run'[p].op = run[p].op /\ run'[p].blob = run[p].blob
      /\ run'[p].path = "old" /\ run'[p].at = "sweep"
  BY <1>0, <1>2, PlaceNames DEF SessionSame, RestSame, RunType
<1> QED BY <1>2, <1>3 DEF BeginClear, Begins, At, Outside, world, account

\* What the next place is.
LEMMA NextType ==
  ASSUME NEW p, run[p] \in RunType
  PROVE  /\ NextPlace(p) \in RunType
         /\ run[p].lock = 0 => NextPlace(p).lock = run[p].lock
         /\ NextPlace(p).unlocked = run[p].unlocked
         /\ run[p].path = "old" =>
              /\ NextPlace(p).at = "list" /\ NextPlace(p).swept = run[p].swept
              /\ NextPlace(p).op = run[p].op /\ NextPlace(p).path = run[p].path /\ NextPlace(p).blob = run[p].blob
              /\ NextPlace(p).expected = run[p].expected /\ NextPlace(p).bearer = run[p].bearer
              /\ NextPlace(p).cached = run[p].cached /\ NextPlace(p).refreshed = run[p].refreshed
         /\ run[p].path = "new" =>
              /\ NextPlace(p).at = "done" /\ NextPlace(p).swept
              /\ NextPlace(p).op = "start" /\ NextPlace(p).path = "old" /\ NextPlace(p).blob = {}
              /\ NextPlace(p).expected = NoAccount /\ NextPlace(p).bearer = NoToken
              /\ ~NextPlace(p).cached /\ ~NextPlace(p).refreshed
<1> DEFINE a == [run[p] EXCEPT !.swept = TRUE]
           l == [run[p] EXCEPT !.at = "list"]
           e == End(a, "done")
<1>1. l \in RunType /\ a \in RunType
  BY DEF RunType, Steps
<1>2. "done" \in Over /\ a.swept /\ a.unlocked = run[p].unlocked
  BY <1>1 DEF Over, RunType
<1>3. /\ e \in RunType
      /\ e.at = "done" /\ e.swept /\ e.op = "start" /\ e.path = "old" /\ e.blob = {} /\ e.lock = 0
      /\ e.expected = NoAccount /\ e.bearer = NoToken /\ ~e.cached /\ ~e.refreshed /\ e.unlocked = run[p].unlocked
  BY <1>1, <1>2, EndType, Zenon
<1>4. /\ l.at = "list" /\ l.swept = run[p].swept /\ l.unlocked = run[p].unlocked /\ l.lock = run[p].lock
      /\ l.op = run[p].op /\ l.path = run[p].path /\ l.blob = run[p].blob
      /\ l.expected = run[p].expected /\ l.bearer = run[p].bearer
      /\ l.cached = run[p].cached /\ l.refreshed = run[p].refreshed
  BY DEF RunType
<1>5. NextPlace(p) = IF run[p].path = "old" THEN l ELSE e
  BY PlaceNames DEF NextPlace
<1>6. run[p].path \in {"old", "new"}
  BY DEF RunType, Places
<1> HIDE DEF l, a, e
<1>7. CASE run[p].path = "old"
  <2>1. NextPlace(p) = l
    BY <1>5, <1>7
  <2> QED BY <1>1, <1>4, <1>7, <2>1
<1>8. CASE run[p].path = "new"
  <2>1. NextPlace(p) = e
    BY <1>5, <1>8
  <2> QED BY <1>3, <1>8, <2>1
<1> QED BY <1>6, <1>7, <1>8

\* A clear goes on to the next place.
LEMMA PassTurns ==
  ASSUME run \in [Procs -> RunType], NEW p \in Procs, run[p].lock = 0, Go(p, NextPlace(p))
  PROVE  Passed(p) /\ run'[p].unlocked = run[p].unlocked
<1>1. run[p] \in RunType /\ run[p].path \in {"old", "new"}
  BY DEF RunType, Places
<1>2. Turns(p) /\ run'[p] = NextPlace(p)
  BY <1>1, NextType, GoTurns
<1> QED BY <1>1, <1>2, NextType DEF Passed, SessionSame, FileSame

\* A clear never waits for a lock.
LEMMA ClearsHaveNoLock == ASSUME TypeInv, NEW p \in Procs, run[p].at \in InClear PROVE run[p].lock = 0
BY DEF TypeInv, StepInv, AtStep, InClear, HasLockFile

LEMMA SweepDoes == ASSUME TypeInv, NEW p \in Procs, SweepTokens(p) PROVE Sweeps(p)
<1>1. run[p].lock = 0
  BY ClearsHaveNoLock DEF SweepTokens, At, InClear
<1>2. Passed(p) /\ run'[p].unlocked = run[p].unlocked
  BY <1>1, ProcType, PassTurns DEF SweepTokens
<1> QED BY <1>2 DEF SweepTokens, Sweeps, At, Outside, world, account, history

LEMMA ListDoes == ASSUME TypeInv, NEW p \in Procs, ListContexts(p) PROVE Lists(p)
<1>0. /\ run \in [Procs -> RunType] /\ run[p] \in RunType /\ failures \in 0..MaxShowFailures
      /\ MaxShowFailures \in Nat
  BY ProcType
<1>1. PICK answers \in BOOLEAN :
        /\ Asks(p, answers)
        /\ Go(p, IF answers THEN [Answered(p, TRUE) EXCEPT !.path = SecondPlace, !.at = "sweep"]
                 ELSE End(run[p], "done"))
  BY DEF ListContexts
<1>2. failures' \in 0..MaxShowFailures /\ (failures' = 0 => failures = 0)
  BY <1>0, <1>1, AsksDoes
<1> DEFINE a == Answered(p, TRUE)
           s == [a EXCEPT !.path = SecondPlace, !.at = "sweep"]
<1>3. /\ a \in RunType /\ a.op = run[p].op /\ a.blob = run[p].blob
      /\ a.expected = run[p].expected /\ a.bearer = run[p].bearer /\ a.cached = run[p].cached
      /\ a.refreshed = run[p].refreshed
      /\ a.lock = run[p].lock /\ a.swept = run[p].swept /\ a.unlocked = run[p].unlocked
  BY <1>0 DEF Answered, RunType
<1> HIDE DEF a
<1>4. s \in RunType
  BY <1>3, PlaceNames DEF RunType, Steps
<1>5. CASE answers
  <2>1. Turns(p) /\ run'[p] = s
    BY <1>0, <1>1, <1>4, <1>5, GoTurns DEF a
  <2>2. /\ SessionSame(p) /\ RestSame(p) /\ run'[p].op = run[p].op /\ run'[p].blob = run[p].blob
        /\ run'[p].path = "new" /\ run'[p].at = "sweep"
    BY <1>3, <2>1, PlaceNames DEF SessionSame, RestSame, RunType
  <2> QED BY <1>2, <2>1, <2>2 DEF ListContexts, Lists, At, Outside, world, account, history
<1>6. CASE ~answers
  <2>1. Ends(p, "done") /\ "done" \in Over
    BY <1>1, <1>6 DEF Ends, Over
  <2>2. Ended(p, "done")
    BY <1>0, <2>1, EndTurns
  <2> QED BY <1>2, <2>2 DEF ListContexts, Lists, At, Outside, world, account, history
<1> QED BY <1>5, <1>6

LEMMA FindDoes == ASSUME TypeInv, NEW p \in Procs, FindRecord(p) PROVE Finds(p)
<1>1. CASE disk[run[p].path].there
  <2>1. To(p, "remove") /\ "remove" \in Steps
    BY <1>1 DEF FindRecord, To, Steps
  <2>2. Steps1(p, "remove")
    BY <2>1, ProcType, ToTurns
  <2> QED BY <1>1, <2>2 DEF FindRecord, Finds, At, Inside, Outside, world, account, history
<1>2. CASE ~disk[run[p].path].there
  <2>1. run[p].lock = 0
    BY ClearsHaveNoLock DEF FindRecord, At, InClear
  <2>2. Go(p, NextPlace(p))
    BY <1>2 DEF FindRecord
  <2>3. Passed(p) /\ run'[p].unlocked = run[p].unlocked
    BY <2>1, <2>2, ProcType, PassTurns
  <2> QED BY <1>2, <2>3 DEF FindRecord, Finds, At, Inside, Outside, world, account, history
<1> QED BY <1>1, <1>2

LEMMA RemoveDoes == ASSUME TypeInv, NEW p \in Procs, RemoveRecord(p) PROVE Removes(p)
<1>1. disk[run[p].path].there => Steps1(p, "removeLock")
  BY ProcType, ToTurns DEF RemoveRecord, Steps
<1>2. ~disk[run[p].path].there => Ended(p, "failed")
  BY ProcType, EndTurns DEF RemoveRecord, Over
<1> QED BY <1>1, <1>2 DEF RemoveRecord, Removes, At, Outside, world, account

LEMMA UnlockDoes == ASSUME TypeInv, NEW p \in Procs, RemoveLock(p) PROVE Unlocks(p)
<1>0. run \in [Procs -> RunType] /\ run[p] \in RunType /\ run[p].lock = 0 /\ run[p].path \in {"old", "new"}
  BY ProcType, ClearsHaveNoLock DEF RemoveLock, At, InClear, RunType, Places
<1> DEFINE n == NextPlace(p)
           s == [n EXCEPT !.unlocked = TRUE]
<1>1. n \in RunType
  BY <1>0, NextType
<1>2. Go(p, s)
  BY DEF RemoveLock
<1> HIDE DEF n
<1>3. s \in RunType
  BY <1>1 DEF RunType
<1>4. Turns(p) /\ run'[p] = s
  BY <1>0, <1>2, <1>3, GoTurns
<1>5. /\ run'[p].unlocked /\ run'[p].at = n.at /\ run'[p].op = n.op /\ run'[p].path = n.path /\ run'[p].blob = n.blob
      /\ run'[p].expected = n.expected /\ run'[p].bearer = n.bearer /\ run'[p].cached = n.cached
      /\ run'[p].refreshed = n.refreshed /\ run'[p].lock = n.lock /\ run'[p].swept = n.swept
  BY <1>1, <1>4 DEF RunType
<1>6. Passed(p)
  BY <1>0, <1>4, <1>5, NextType DEF Passed, SessionSame, FileSame, n
<1> QED BY <1>5, <1>6 DEF RemoveLock, Unlocks, At, world, account, history

\* A step of the specification is a step of one process, a login, or none.
LEMMA EveryStep ==
  ASSUME TypeInv, [Next]_vars
  PROVE  UNCHANGED vars \/ Switches \/ \E p \in Procs : Does(p)
<1>1. CASE UNCHANGED vars
  BY <1>1
<1>2. CASE SwitchLogin
  <2>1. login' \in Accounts \union {NoAccount}
    BY <1>2 DEF SwitchLogin
  <2>2. switches' \in 0..MaxSwitches
    BY <1>2, ContextFilesAssumption DEF SwitchLogin, TypeInv, TypeOK
  <2> QED BY <1>2, <2>1, <2>2 DEF SwitchLogin, Switches, world, history
<1>3. CASE Finished
  BY <1>3 DEF Finished
<1>4. ASSUME NEW p \in Procs,
             Resolve(p) \/ StatOld(p) \/ Rename(p) \/ Copy(p) \/ Unlink(p)
      PROVE  MovesFile(p)
  BY <1>4, ResolveDoes, StatDoes, RenameDoes, CopyDoes, UnlinkDoes DEF MovesFile
<1>5. ASSUME NEW p \in Procs,
             \/ ExpectAccount(p) \/ SkipCache(p) \/ ReadCache(p) \/ Mint(p) \/ Write(p)
             \/ Rejected(p) \/ Challenged(p) \/ Drop(p) \/ Finish(p)
      PROVE  HasSession(p)
  BY <1>5, ExpectDoes, SkipDoes, ReadDoes, MintDoes, WriteDoes, RejectDoes, ChallengeDoes, DropDoes, FinishDoes
     DEF HasSession
<1>6. ASSUME NEW p \in Procs,
             BeginUpdate(p) \/ OpenLock(p) \/ TakeLock(p) \/ LoadRecord(p) \/ SaveRecord(p) \/ Kill(p)
      PROVE  UpdatesFile(p)
  BY <1>6, UpdateDoes, OpenDoes, TakeDoes, LoadDoes, SaveDoes, KillDoes DEF UpdatesFile
<1>7. ASSUME NEW p \in Procs,
             \/ BeginClear(p) \/ SweepTokens(p) \/ ListContexts(p)
             \/ FindRecord(p) \/ RemoveRecord(p) \/ RemoveLock(p)
      PROVE  Clearing(p)
  BY <1>7, BeginDoes, SweepDoes, ListDoes, FindDoes, RemoveDoes, UnlockDoes DEF Clearing
<1> QED BY <1>1, <1>2, <1>3, <1>4, <1>5, <1>6, <1>7, Zenon DEF Next, Does

-----------------------------------------------------------------------------
(* Types.                                                                  *)

\* A step is a step of one process, ...
LEMMA DoesTurns == ASSUME NEW p, Does(p) PROVE Turns(p)
<1>1. ASSUME MovesFile(p) PROVE Turns(p)
  BY <1>1, Zenon DEF MovesFile, Resolves, Stats, Renames, Copies, Unlinks, Placed, Steps1
<1>2. ASSUME HasSession(p) PROVE Turns(p)
  BY <1>2, Zenon DEF HasSession, Expects, Skips, Reads, Mints, Stores, Rejects, Challenges, Drops, Finishes,
                 Asked, Used, Ended, Steps1
<1>3. ASSUME UpdatesFile(p) PROVE Turns(p)
  BY <1>3, Zenon DEF UpdatesFile, Updates, Opens, Takes, Loads, Saves, Kills, Asked, Ended, Steps1
<1>4. ASSUME Clearing(p) PROVE Turns(p)
  BY <1>4, Zenon DEF Clearing, Begins, Sweeps, Lists, Finds, Removes, Unlocks, Passed, Ended, Steps1
<1> QED BY <1>1, <1>2, <1>3, <1>4 DEF Does

\* ... and the world around it is as it was.
LEMMA DoesKeeps == ASSUME NEW p, Does(p) PROVE UNCHANGED <<file, crossFs, login, expired, switches>>
<1>1. ASSUME MovesFile(p) PROVE UNCHANGED <<file, crossFs, login, expired, switches>>
  BY <1>1, Zenon DEF MovesFile, Resolves, Stats, Renames, Copies, Unlinks, Inside, Outside
<1>2. ASSUME HasSession(p) PROVE UNCHANGED <<file, crossFs, login, expired, switches>>
  BY <1>2, Zenon DEF HasSession, Expects, Skips, Reads, Mints, Stores, Rejects, Challenges, Drops, Finishes,
                 Inside, Outside
<1>3. ASSUME UpdatesFile(p) PROVE UNCHANGED <<file, crossFs, login, expired, switches>>
  BY <1>3, Zenon DEF UpdatesFile, Updates, Opens, Takes, Loads, Saves, Kills, Inside, Outside
<1>4. ASSUME Clearing(p) PROVE UNCHANGED <<file, crossFs, login, expired, switches>>
  BY <1>4, Zenon DEF Clearing, Begins, Sweeps, Lists, Finds, Removes, Unlocks, Inside, Outside
<1> QED BY <1>1, <1>2, <1>3, <1>4 DEF Does

\* Another process is where it was.
LEMMA OthersAtStep ==
  ASSUME NEW p \in Procs, NEW q \in Procs, q # p, Turns(p), file' = file, crossFs' = crossFs, AtStep(q)
  PROVE  AtStep(q)'
<1>1. run'[q] = run[q]
  BY DEF Turns
<1>2. Doing(q)' = Doing(q)
  BY <1>1 DEF Doing
<1> QED BY <1>1, <1>2 DEF AtStep

\* A token file holds one token, and none is there without it.
LEMMA TokensOnDisk ==
  ASSUME TypeInv, file = "token", NEW pl \in Places
  PROVE  disk[pl].holds \subseteq Tokens
<1>1. CASE disk[pl].there
  <2>1. PICK t \in Tokens : disk[pl].holds = {t}
    BY <1>1 DEF TypeInv, TypeOK
  <2> QED BY <2>1
<1>2. CASE ~disk[pl].there
  <2>1. disk[pl].holds = {}
    BY <1>2 DEF TypeInv, DiskInv
  <2> QED BY <2>1
<1> QED BY <1>1, <1>2

\* A process is where its kind of process may be.
LEMMA StepStep == ASSUME TypeInv, NEW p \in Procs, Does(p) PROVE StepInv'
<1> USE DEF Moving, UsesPath, InSession, HasBearer, HasLockFile, InUpdate, InClear, Doing
<1>0. AtStep(p) /\ file' = file /\ crossFs' = crossFs /\ run[p].at \in Steps
  BY DoesKeeps DEF TypeInv, TypeOK, StepInv
<1>1. ASSUME Resolves(p) PROVE AtStep(p)'
  BY <1>0, <1>1 DEF AtStep, Resolves, Placed, Steps1, SessionSame, RestSame, FileSame
<1>2. ASSUME Stats(p) PROVE AtStep(p)'
  BY <1>0, <1>2 DEF AtStep, Stats, Placed, Steps1, SessionSame, RestSame, FileSame
<1>3. ASSUME Renames(p) PROVE AtStep(p)'
  <2>1. file = "token" /\ disk["old"].there => \E t \in Tokens : disk["old"].holds = {t}
    BY DEF TypeInv, TypeOK, Places
  <2> QED BY <1>0, <1>3, <2>1 DEF AtStep, Renames, Placed, SessionSame, RestSame
<1>4. ASSUME Copies(p) PROVE AtStep(p)'
  BY <1>0, <1>4 DEF AtStep, Copies, SessionSame, RestSame
<1>5. ASSUME Unlinks(p) PROVE AtStep(p)'
  BY <1>0, <1>5 DEF AtStep, Unlinks, Placed, SessionSame, RestSame
<1>6. ASSUME Expects(p) PROVE AtStep(p)'
  BY <1>0, <1>6 DEF AtStep, Expects, Asked, Steps1, RestSame
<1>7. ASSUME Skips(p) PROVE AtStep(p)'
  BY <1>0, <1>7 DEF AtStep, Skips, Steps1, RestSame
<1>8. ASSUME Reads(p) PROVE AtStep(p)'
  <2>1. file = "token" /\ run[p].path \in Places /\ p \in Runs
    BY <1>0, <1>8 DEF AtStep, Reads, TypeInv, TypeOK
  <2>2. \A t \in disk[run[p].path].holds : t \in Tokens
    BY <2>1, TokensOnDisk
  <2> QED BY <1>0, <1>8, <2>1, <2>2 DEF AtStep, Reads, Used, Ended, RestSame
<1>9. ASSUME Mints(p) PROVE AtStep(p)'
  <2>1. p \in Runs
    BY <1>0, <1>9 DEF AtStep, Mints
  <2>2. login \in Accounts => Fresh(p) \in Tokens
    BY <2>1, FreshType
  <2> QED BY <1>0, <1>9, <2>1, <2>2 DEF AtStep, Mints, Asked, Ended, RestSame
<1>10. ASSUME Stores(p) PROVE AtStep(p)'
  BY <1>0, <1>10 DEF AtStep, Stores, Used, SessionSame, RestSame
<1>11. ASSUME Rejects(p) \/ Challenges(p) PROVE AtStep(p)'
  BY <1>0, <1>11 DEF AtStep, Rejects, Challenges, Asked, SessionSame, RestSame
<1>12. ASSUME Drops(p) PROVE AtStep(p)'
  BY <1>0, <1>12 DEF AtStep, Drops, Used, Ended, SessionSame, RestSame
<1>13. ASSUME Finishes(p) \/ Kills(p) PROVE AtStep(p)'
  BY <1>0, <1>13 DEF AtStep, Finishes, Kills, Ended
<1>14. ASSUME Updates(p) PROVE AtStep(p)'
  BY <1>0, <1>14 DEF AtStep, Updates, Asked, RestSame
<1>15. ASSUME Opens(p) PROVE AtStep(p)'
  <2>1. \A n \in Locks : n # 0
    BY DEF Locks
  <2> QED BY <1>0, <1>15, <2>1 DEF AtStep, Opens, SessionSame, FileSame
<1>16. ASSUME Takes(p) \/ Loads(p) PROVE AtStep(p)'
  BY <1>0, <1>16 DEF AtStep, Takes, Loads, Steps1, SessionSame, RestSame, FileSame
<1>17. ASSUME Saves(p) PROVE AtStep(p)'
  BY <1>0, <1>17 DEF AtStep, Saves, Ended
<1>18. ASSUME Begins(p) PROVE AtStep(p)'
  BY <1>0, <1>18 DEF AtStep, Begins, RestSame
<1>19. ASSUME Sweeps(p) \/ Unlocks(p) PROVE AtStep(p)'
  BY <1>0, <1>19 DEF AtStep, Sweeps, Unlocks, Passed
<1>20. ASSUME Lists(p) PROVE AtStep(p)'
  BY <1>0, <1>20 DEF AtStep, Lists, Ended, RestSame
<1>21. ASSUME Finds(p) PROVE AtStep(p)'
  BY <1>0, <1>21 DEF AtStep, Finds, Passed, Steps1, RestSame
<1>22. ASSUME Removes(p) PROVE AtStep(p)'
  BY <1>0, <1>22 DEF AtStep, Removes, Ended, Steps1, RestSame
<1>23. AtStep(p)'
  BY <1>1, <1>2, <1>3, <1>4, <1>5, <1>6, <1>7, <1>8, <1>9, <1>10, <1>11, <1>12, <1>13, <1>14, <1>15, <1>16,
     <1>17, <1>18, <1>19, <1>20, <1>21, <1>22, Zenon
  DEF Does, MovesFile, HasSession, UpdatesFile, Clearing
<1>24. \A q \in Procs : q # p => AtStep(q)'
  BY <1>0, DoesTurns, OthersAtStep, Zenon DEF TypeInv, StepInv
<1> QED BY <1>23, <1>24, Zenon DEF StepInv

\* The parts of the type invariant that are not about the processes.
DiskType ==
  /\ disk \in [Places -> [there : BOOLEAN, holds : SUBSET (Tokens \union Entries), wide : BOOLEAN]]
  /\ \A pl \in Places : file = "token" /\ disk[pl].there => \E t \in Tokens : disk[pl].holds = {t}
  /\ DiskInv
HistoryType == dropped \subseteq Tokens /\ before \in [Clears -> SUBSET Tokens] /\ recorded \subseteq Entries
CountType   == failures \in 0..MaxShowFailures
LockType    == sidecar \in [Places -> Locks \union {0}]
WorldType ==
  /\ file \in {"token", "record"} /\ crossFs \in BOOLEAN /\ login \in Accounts \union {NoAccount}
  /\ expired \subseteq Tokens /\ switches \in 0..MaxSwitches

\* The parts together are the invariant, ...
LEMMA TypeParts ==
  ASSUME TypeInv
  PROVE  /\ DiskType /\ HistoryType /\ CountType /\ LockType /\ WorldType
         /\ StepInv /\ run \in [Procs -> RunType]
BY DEF TypeInv, TypeOK, DiskType, HistoryType, CountType, LockType, WorldType

\* ... also in the next state.
LEMMA TypePartsNext ==
  ASSUME DiskType', HistoryType', CountType', LockType', WorldType', StepInv', run' \in [Procs -> RunType]
  PROVE  TypeInv'
<1>1. \A p \in Procs :
        /\ run'[p].at \in Steps /\ run'[p].op \in Steps
        /\ run'[p].path \in Places /\ run'[p].bearer \in Tokens \union {NoToken}
        /\ run'[p].expected \in Accounts \union {NoAccount}
        /\ run'[p].blob \subseteq Tokens \union Entries
  BY DEF RunType, Content
<1>2. \A pl \in Places : sidecar'[pl] \in Locks \union {0}
  BY DEF LockType
<1> QED BY <1>1, <1>2 DEF TypeInv, TypeOK, DiskType, HistoryType, CountType, LockType, WorldType

\* A file that is written has the type of its kind, ...
LEMMA FilePut ==
  ASSUME DiskType, NEW pl \in Places, NEW holds \in Content, file' = file,
         file = "token" => \E t \in Tokens : holds = {t},
         disk' = [disk EXCEPT ![pl] = File(holds, FALSE)]
  PROVE  DiskType'
<1>1. \A o \in Places : disk'[o] = IF o = pl THEN File(holds, FALSE) ELSE disk[o]
  BY DEF DiskType
<1>2. File(holds, FALSE) \in [there : BOOLEAN, holds : SUBSET (Tokens \union Entries), wide : BOOLEAN]
  BY DEF File, Content
<1>3. File(holds, FALSE).there /\ File(holds, FALSE).holds = holds
  BY DEF File
<1>4. disk' \in [Places -> [there : BOOLEAN, holds : SUBSET (Tokens \union Entries), wide : BOOLEAN]]
  BY <1>2 DEF DiskType
<1>5. \A o \in Places : file = "token" /\ disk'[o].there => \E t \in Tokens : disk'[o].holds = {t}
  BY <1>1, <1>3 DEF DiskType
<1>6. \A o \in Places : ~disk'[o].there => disk'[o].holds = {}
  BY <1>1, <1>3 DEF DiskType, DiskInv
<1> QED BY <1>4, <1>5, <1>6 DEF DiskType, DiskInv

\* ... as it has when it is removed.
LEMMA FileGone ==
  ASSUME DiskType, NEW pl \in Places, file' = file, disk' = [disk EXCEPT ![pl] = NoFile]
  PROVE  DiskType'
<1>1. \A o \in Places : disk'[o] = IF o = pl THEN NoFile ELSE disk[o]
  BY DEF DiskType
<1>2. NoFile \in [there : BOOLEAN, holds : SUBSET (Tokens \union Entries), wide : BOOLEAN]
  BY DEF NoFile
<1>3. ~NoFile.there /\ NoFile.holds = {}
  BY DEF NoFile
<1>4. disk' \in [Places -> [there : BOOLEAN, holds : SUBSET (Tokens \union Entries), wide : BOOLEAN]]
  BY <1>2 DEF DiskType
<1>5. \A o \in Places : file = "token" /\ disk'[o].there => \E t \in Tokens : disk'[o].holds = {t}
  BY <1>1, <1>3 DEF DiskType
<1>6. \A o \in Places : ~disk'[o].there => disk'[o].holds = {}
  BY <1>1, <1>3 DEF DiskType, DiskInv
<1> QED BY <1>4, <1>5, <1>6 DEF DiskType, DiskInv

\* The file is moved into the store.
LEMMA FileMoved ==
  ASSUME DiskType, file' = file, disk' = [old |-> NoFile, new |-> disk["old"]]
  PROVE  /\ DiskType' /\ disk'["old"] = NoFile /\ disk'["new"] = disk["old"]
<1>1. disk'["old"] = NoFile /\ disk'["new"] = disk["old"] /\ Places = {"old", "new"}
  BY DEF Places
<1>2. NoFile \in [there : BOOLEAN, holds : SUBSET (Tokens \union Entries), wide : BOOLEAN]
  BY DEF NoFile
<1>3. ~NoFile.there /\ NoFile.holds = {}
  BY DEF NoFile
<1>4. disk' \in [Places -> [there : BOOLEAN, holds : SUBSET (Tokens \union Entries), wide : BOOLEAN]]
  BY <1>1, <1>2 DEF DiskType
<1>5. \A o \in Places : file = "token" /\ disk'[o].there => \E t \in Tokens : disk'[o].holds = {t}
  BY <1>1, <1>3 DEF DiskType
<1>6. \A o \in Places : ~disk'[o].there => disk'[o].holds = {}
  BY <1>1, <1>3 DEF DiskType, DiskInv
<1> QED BY <1>1, <1>4, <1>5, <1>6 DEF DiskType, DiskInv

\* Each part after a step of a process.
LEMMA DiskTypeStep == ASSUME TypeInv, NEW p \in Procs, Does(p) PROVE DiskType'
<1>0. /\ DiskType /\ file' = file /\ AtStep(p)
      /\ run[p].path \in Places /\ run[p].blob \in Content /\ "new" \in Places /\ "old" \in Places
  BY TypeParts, DoesKeeps, PlaceNames, ProcType DEF StepInv, RunType
<1>1. CASE disk' = disk
  BY <1>0, <1>1 DEF DiskType, DiskInv
<1>2. CASE \E pl \in Places : disk' = [disk EXCEPT ![pl] = NoFile]
  BY <1>0, <1>2, FileGone
<1>3. CASE disk' = [old |-> NoFile, new |-> disk["old"]]
  BY <1>0, <1>3, FileMoved
<1>4. ASSUME Copies(p), disk' # disk PROVE DiskType'
  <2>1. disk' = [disk EXCEPT !["new"] = File(run[p].blob, FALSE)] /\ run[p].at = "copy"
    BY <1>4 DEF Copies
  <2>2. file = "token" => \E t \in Tokens : run[p].blob = {t}
    BY <1>0, <2>1 DEF AtStep
  <2> QED BY <1>0, <2>1, <2>2, FilePut
<1>5. ASSUME Stores(p), disk' # disk PROVE DiskType'
  <2>1. disk' = [disk EXCEPT ![run[p].path] = File({run[p].bearer}, FALSE)] /\ run[p].at = "write"
    BY <1>5 DEF Stores
  <2>2. run[p].bearer \in Tokens
    BY <1>0, <2>1 DEF AtStep, Doing, Moving, HasBearer
  <2>3. {run[p].bearer} \in Content
    BY <2>2 DEF Content
  <2> QED BY <1>0, <2>1, <2>2, <2>3, FilePut
<1>6. ASSUME Saves(p) PROVE DiskType'
  <2>1. disk' = [disk EXCEPT ![run[p].path] = File(run[p].blob \union {p}, FALSE)] /\ run[p].at = "save"
    BY <1>6 DEF Saves
  <2>2. p \in Runs /\ file # "token"
    BY <1>0, <2>1 DEF AtStep, Doing, Moving, InUpdate, HasLockFile
  <2>3. run[p].blob \union {p} \in Content
    BY <1>0, <2>2 DEF Content, Entries
  <2> QED BY <1>0, <2>1, <2>2, <2>3, FilePut
<1>7. ASSUME MovesFile(p), ~Copies(p) PROVE disk' = disk \/ (\E pl \in Places : disk' = [disk EXCEPT ![pl] = NoFile])
                                             \/ disk' = [old |-> NoFile, new |-> disk["old"]]
  BY <1>0, <1>7, Zenon DEF MovesFile, Resolves, Stats, Renames, Unlinks, Inside, Outside
<1>8. ASSUME HasSession(p), ~Stores(p) PROVE disk' = disk \/ \E pl \in Places : disk' = [disk EXCEPT ![pl] = NoFile]
  BY <1>0, <1>8, Zenon DEF HasSession, Expects, Skips, Reads, Mints, Rejects, Challenges, Drops, Finishes, Inside
<1>9. ASSUME UpdatesFile(p), ~Saves(p) PROVE disk' = disk
  BY <1>9, Zenon DEF UpdatesFile, Updates, Opens, Takes, Loads, Kills, Inside
<1>10. ASSUME Clearing(p) PROVE disk' = disk \/ \E pl \in Places : disk' = [disk EXCEPT ![pl] = NoFile]
  BY <1>0, <1>10, Zenon DEF Clearing, Begins, Sweeps, Lists, Finds, Removes, Unlocks, Inside
<1> QED BY <1>1, <1>2, <1>3, <1>4, <1>5, <1>6, <1>7, <1>8, <1>9, <1>10, Zenon DEF Does

LEMMA HistoryTypeStep == ASSUME TypeInv, NEW p \in Procs, Does(p) PROVE HistoryType'
<1>0. HistoryType /\ AtStep(p)
  BY TypeParts DEF StepInv
<1>1. CASE UNCHANGED <<dropped, before, recorded>>
  BY <1>0, <1>1 DEF HistoryType
<1>2. ASSUME Drops(p) PROVE HistoryType'
  <2>1. run[p].bearer \in Tokens
    BY <1>0, <1>2 DEF AtStep, Drops, Doing, Moving, HasBearer
  <2> QED BY <1>0, <1>2, <2>1 DEF Drops, HistoryType
<1>3. ASSUME Saves(p) PROVE HistoryType'
  <2>1. p \in Runs
    BY <1>0, <1>3 DEF AtStep, Saves, Doing, Moving, InUpdate, HasLockFile
  <2> QED BY <1>0, <1>3, <2>1 DEF Saves, HistoryType, Entries
<1>4. ASSUME Removes(p) PROVE HistoryType'
  BY <1>0, <1>4 DEF Removes, HistoryType
<1>5. ASSUME Begins(p) PROVE HistoryType'
  <2>1. file = "token" => OnDisk \subseteq Tokens
    BY TokensOnDisk, PlaceNames DEF OnDisk
  <2> DEFINE b == IF file = "token" THEN OnDisk ELSE {}
  <2>2. b \subseteq Tokens
    BY <2>1
  <2>3. before' = [before EXCEPT ![p] = b] /\ p \in Clears
    BY <1>5 DEF Begins
  <2> HIDE DEF b
  <2> QED BY <1>0, <1>5, <2>2, <2>3 DEF Begins, HistoryType
<1>6. ASSUME MovesFile(p) \/ (HasSession(p) /\ ~Drops(p)) PROVE UNCHANGED <<dropped, before, recorded>>
  BY <1>6, Zenon DEF MovesFile, Resolves, Stats, Renames, Copies, Unlinks, HasSession, Expects, Skips, Reads, Mints,
                 Stores, Rejects, Challenges, Finishes, Inside, Outside
<1>7. ASSUME UpdatesFile(p) /\ ~Saves(p) PROVE UNCHANGED <<dropped, before, recorded>>
  BY <1>7, Zenon DEF UpdatesFile, Updates, Opens, Takes, Loads, Kills, Inside, Outside
<1>8. ASSUME Clearing(p) /\ ~Removes(p) /\ ~Begins(p) PROVE UNCHANGED <<dropped, before, recorded>>
  BY <1>8, Zenon DEF Clearing, Sweeps, Lists, Finds, Unlocks, Inside, Outside
<1> QED BY <1>1, <1>2, <1>3, <1>4, <1>5, <1>6, <1>7, <1>8, Zenon DEF Does

LEMMA CountTypeStep == ASSUME TypeInv, NEW p \in Procs, Does(p) PROVE CountType'
<1>0. failures \in 0..MaxShowFailures /\ MaxShowFailures \in Nat
  BY ProcType
<1>1. CASE failures' = failures
  BY <1>0, <1>1 DEF CountType
<1>2. ASSUME Resolves(p) PROVE CountType'
  BY <1>0, <1>2 DEF Resolves, CountType
<1>3. ASSUME Expects(p) PROVE CountType'
  BY <1>3 DEF Expects, CountType
<1>4. ASSUME Lists(p) PROVE CountType'
  BY <1>4 DEF Lists, CountType
<1>5. ASSUME MovesFile(p) /\ ~Resolves(p) PROVE failures' = failures
  BY <1>5, Zenon DEF MovesFile, Stats, Renames, Copies, Unlinks, Inside
<1>6. ASSUME HasSession(p) /\ ~Expects(p) PROVE failures' = failures
  BY <1>6, Zenon DEF HasSession, Skips, Reads, Mints, Stores, Rejects, Challenges, Drops, Finishes, Inside
<1>7. ASSUME UpdatesFile(p) PROVE failures' = failures
  BY <1>7, Zenon DEF UpdatesFile, Updates, Opens, Takes, Loads, Saves, Kills, Inside
<1>8. ASSUME Clearing(p) /\ ~Lists(p) PROVE failures' = failures
  BY <1>8, Zenon DEF Clearing, Begins, Sweeps, Finds, Removes, Unlocks, Inside
<1> QED BY <1>1, <1>2, <1>3, <1>4, <1>5, <1>6, <1>7, <1>8, Zenon DEF Does

LEMMA LockTypeStep == ASSUME TypeInv, NEW p \in Procs, Does(p) PROVE LockType'
<1>0. LockType /\ run[p].path \in Places
  BY TypeParts, ProcType DEF RunType
<1>1. CASE sidecar' = sidecar
  BY <1>0, <1>1 DEF LockType
<1>2. ASSUME Opens(p) PROVE LockType'
  BY <1>0, <1>2 DEF Opens, LockType
<1>3. ASSUME Unlocks(p) PROVE LockType'
  BY <1>0, <1>3 DEF Unlocks, LockType
<1>4. ASSUME MovesFile(p) PROVE sidecar' = sidecar
  BY <1>4, Zenon DEF MovesFile, Resolves, Stats, Renames, Copies, Unlinks, Inside, Outside
<1>5. ASSUME HasSession(p) PROVE sidecar' = sidecar
  BY <1>5, Zenon DEF HasSession, Expects, Skips, Reads, Mints, Stores, Rejects, Challenges, Drops, Finishes, Inside,
                 Outside
<1>6. ASSUME UpdatesFile(p) /\ ~Opens(p) PROVE sidecar' = sidecar
  BY <1>6, Zenon DEF UpdatesFile, Updates, Takes, Loads, Saves, Kills, Inside, Outside
<1>7. ASSUME Clearing(p) /\ ~Unlocks(p) PROVE sidecar' = sidecar
  BY <1>7, Zenon DEF Clearing, Begins, Sweeps, Lists, Finds, Removes, Inside, Outside
<1> QED BY <1>1, <1>2, <1>3, <1>4, <1>5, <1>6, <1>7, Zenon DEF Does

\* The type invariant after every step.
LEMMA TypeStep == TypeInv /\ [Next]_vars => TypeInv'
<1> SUFFICES ASSUME TypeInv, [Next]_vars PROVE TypeInv'
  OBVIOUS
<1>0. /\ DiskType /\ HistoryType /\ CountType /\ LockType /\ WorldType
      /\ StepInv /\ run \in [Procs -> RunType]
  BY TypeParts
<1>1. CASE UNCHANGED vars
  <2> USE <1>1 DEF vars
  <2>1. DiskType' /\ HistoryType' /\ CountType' /\ LockType' /\ WorldType' /\ run' \in [Procs -> RunType]
    BY <1>0 DEF DiskType, DiskInv, HistoryType, CountType, LockType, WorldType
  <2>2. StepInv'
    BY <1>0 DEF StepInv, AtStep, Doing
  <2> QED BY <2>1, <2>2, TypePartsNext
<1>2. CASE Switches
  <2> USE <1>2 DEF Switches
  <2>1. DiskType' /\ HistoryType' /\ CountType' /\ LockType' /\ WorldType' /\ run' \in [Procs -> RunType]
    BY <1>0 DEF DiskType, DiskInv, HistoryType, CountType, LockType, WorldType
  <2>2. StepInv'
    BY <1>0 DEF StepInv, AtStep, Doing
  <2> QED BY <2>1, <2>2, TypePartsNext
<1>3. ASSUME NEW p \in Procs, Does(p) PROVE TypeInv'
  <2>1. WorldType'
    BY <1>0, <1>3, DoesKeeps DEF WorldType
  <2>2. run' \in [Procs -> RunType]
    BY <1>3, DoesTurns DEF Turns
  <2>3. DiskType' /\ HistoryType' /\ CountType' /\ LockType' /\ StepInv'
    BY <1>3, DiskTypeStep, HistoryTypeStep, CountTypeStep, LockTypeStep, StepStep
  <2> QED BY <2>1, <2>2, <2>3, TypePartsNext
<1> QED BY <1>1, <1>2, <1>3, EveryStep

\* What an earlier process may have left is a file of its kind.
LEMMA LeftType ==
  ASSUME file \in {"token", "record"}, NEW pl \in Places, NEW f \in {NoFile} \union Left(pl)
  PROVE  /\ f \in [there : BOOLEAN, holds : SUBSET (Tokens \union Entries), wide : BOOLEAN]
         /\ file = "token" /\ f.there => \E t \in Tokens : f.holds = {t}
         /\ ~f.there => f.holds = {}
         /\ file = "token" => \A t \in f.holds : t[2] = pl /\ t[3] = 0
<1>1. CASE f = NoFile
  BY <1>1 DEF NoFile
<1>2. CASE file = "token" /\ f \in Left(pl)
  <2>1. PICK a \in Accounts, wide \in BOOLEAN : f = File({<<a, pl, 0>>}, wide)
    BY <1>2 DEF Left
  <2>2. <<a, pl, 0>> \in Tokens
    BY DEF Tokens, Places
  <2> DEFINE t == <<a, pl, 0>>
  <2>3. t[2] = pl /\ t[3] = 0
    OBVIOUS
  <2> HIDE DEF t
  <2>4. f = [there |-> TRUE, holds |-> {t}, wide |-> wide] /\ t \in Tokens
    BY <2>1, <2>2 DEF t, File
  <2>5. f.there /\ f.holds = {t}
    BY <2>4
  <2> QED BY <1>2, <2>3, <2>4, <2>5
<1>3. CASE file = "record" /\ f \in Left(pl)
  <2>1. f = [there |-> TRUE, holds |-> {pl}, wide |-> FALSE]
    BY <1>3 DEF Left, File
  <2>2. pl \in Entries
    BY DEF Entries
  <2> QED BY <1>3, <2>1, <2>2
<1> QED BY <1>1, <1>2, <1>3

\* Nobody has done anything.
LEMMA AtFirst ==
  ASSUME Init
  PROVE  /\ run \in [Procs -> RunType]
         /\ \A p \in Procs : /\ run[p].at = "start" /\ run[p].bearer = NoToken /\ run[p].lock = 0
                             /\ ~run[p].cached /\ ~run[p].swept /\ ~run[p].unlocked
<1>1. PICK ambient \in BOOLEAN : run = [p \in Procs |-> [NoRun EXCEPT !.ambient = ambient]]
  BY DEF Init
<1> DEFINE r == [NoRun EXCEPT !.ambient = ambient]
<1>2. NoRun \in RunType
  BY DEF NoRun, RunType, Steps, Places, Content
<1>3. /\ NoRun.at = "start" /\ NoRun.bearer = NoToken /\ NoRun.lock = 0
      /\ ~NoRun.cached /\ ~NoRun.swept /\ ~NoRun.unlocked
  BY DEF NoRun
<1>4. r \in RunType
  BY <1>2 DEF RunType
<1>5. r.at = "start" /\ r.bearer = NoToken /\ r.lock = 0 /\ ~r.cached /\ ~r.swept /\ ~r.unlocked
  BY <1>2, <1>3 DEF RunType
<1>6. run = [p \in Procs |-> r]
  BY <1>1
<1> HIDE DEF r
<1> QED BY <1>4, <1>5, <1>6

\* The files an earlier process may have left.
LEMMA DiskAtFirst ==
  ASSUME Init
  PROVE  /\ DiskType
         /\ file = "token" => \A pl \in Places : \A t \in disk[pl].holds : t[2] = pl /\ t[3] = 0
<1>1. PICK old \in {NoFile} \union Left("old"), new \in {NoFile} \union Left("new") : disk = [old |-> old, new |-> new]
  BY DEF Init
<1>2. file \in {"token", "record"} /\ Places = {"old", "new"} /\ disk["old"] = old /\ disk["new"] = new
  BY <1>1 DEF Init, Places
<1>3. disk = [pl \in Places |-> disk[pl]]
  BY <1>1, <1>2
<1>4. /\ \A pl \in Places : disk[pl] \in [there : BOOLEAN, holds : SUBSET (Tokens \union Entries), wide : BOOLEAN]
      /\ \A pl \in Places : file = "token" /\ disk[pl].there => \E t \in Tokens : disk[pl].holds = {t}
      /\ \A pl \in Places : ~disk[pl].there => disk[pl].holds = {}
      /\ \A pl \in Places : file = "token" => \A t \in disk[pl].holds : t[2] = pl /\ t[3] = 0
  <2>1. ASSUME NEW pl \in Places PROVE disk[pl] \in {NoFile} \union Left(pl)
    BY <1>2
  <2> QED BY <1>2, <2>1, LeftType, Zenon
<1>5. disk \in [Places -> [there : BOOLEAN, holds : SUBSET (Tokens \union Entries), wide : BOOLEAN]]
  <2> DEFINE F == [there : BOOLEAN, holds : SUBSET (Tokens \union Entries), wide : BOOLEAN]
  <2>1. \A pl \in Places : disk[pl] \in F
    BY <1>4
  <2> HIDE DEF F
  <2>2. disk \in [Places -> F]
    BY <1>3, <2>1
  <2> QED BY <2>2 DEF F
<1> QED BY <1>4, <1>5, Zenon DEF DiskType, DiskInv

\* The type invariant at first.
LEMMA TypeInit == Init => TypeInv
<1> SUFFICES ASSUME Init PROVE TypeInv
  OBVIOUS
<1>1. DiskType /\ run \in [Procs -> RunType]
  BY AtFirst, DiskAtFirst
<1>2. HistoryType
  <2>1. Current \subseteq Entries \/ file = "token"
    <3>1. PICK old \in {NoFile} \union Left("old"), new \in {NoFile} \union Left("new") :
            disk = [old |-> old, new |-> new]
      BY DEF Init
    <3>2. ASSUME file = "record", NEW pl \in Places, NEW f \in {NoFile} \union Left(pl) PROVE f.holds \subseteq Entries
      BY <3>2 DEF NoFile, Left, File, Entries
    <3>3. disk["old"] = old /\ disk["new"] = new /\ "old" \in Places /\ "new" \in Places
      BY <3>1, PlaceNames
    <3>4. file = "record" => disk["old"].holds \subseteq Entries /\ disk["new"].holds \subseteq Entries
      BY <3>2, <3>3, Zenon
    <3> QED BY <3>4 DEF Init, Current
  <2> QED BY <2>1 DEF Init, HistoryType
<1>3. CountType /\ LockType
  BY ContextFilesAssumption DEF Init, CountType, LockType
<1>4. WorldType
  <2>1. expired \subseteq Tokens
    BY DEF Init
  <2> QED BY <2>1, ContextFilesAssumption DEF Init, WorldType
<1>5. StepInv
  BY AtFirst DEF StepInv, AtStep, Doing, Moving, InSession, HasBearer, HasLockFile, InUpdate, InClear
<1>6. \A p \in Procs :
        /\ run[p].at \in Steps /\ run[p].op \in Steps
        /\ run[p].path \in Places /\ run[p].bearer \in Tokens \union {NoToken}
        /\ run[p].expected \in Accounts \union {NoAccount}
        /\ run[p].blob \subseteq Tokens \union Entries
  BY <1>1 DEF RunType, Content
<1>7. \A pl \in Places : sidecar[pl] \in Locks \union {0}
  BY <1>3 DEF LockType
<1> QED BY <1>1, <1>2, <1>3, <1>4, <1>5, <1>6, <1>7
    DEF TypeInv, TypeOK, DiskType, HistoryType, CountType, LockType, WorldType

\* The type invariant always.
LEMMA TypeInvariant == Spec => []TypeInv
BY TypeInit, TypeStep, PTL DEF Spec

\* The files, the processes and what is remembered of them keep their types; in particular
\* a token file holds one token whatever moves it, and an update always finds a free
\* lock file (OpenLock).
THEOREM TypeCorrect == Spec => []TypeOK
<1>1. TypeInv => TypeOK
  BY DEF TypeInv
<1> QED BY <1>1, TypeInvariant, PTL

-----------------------------------------------------------------------------
(* Whose token a session holds.                                            *)

ServedAt(p) ==
  /\ run[p].at = "start" => ~run[p].cached
  /\ Doing(p) = "read" => ~run[p].cached /\ run[p].expected \in Accounts
  /\ run[p].cached => run[p].bearer \in Tokens /\ AccountOf(run[p].bearer) = run[p].expected

\* A session keeps to its account: what it reads is usable for it, and what it mints is of the same.
LEMMA ServedStep == TypeInv /\ ServedInv /\ [Next]_vars => ServedInv'
<1> SUFFICES ASSUME TypeInv, ServedInv, [Next]_vars PROVE ServedInv'
  OBVIOUS
<1> USE DEF Doing, Moving
<1>1. CASE UNCHANGED vars \/ Switches
  BY <1>1 DEF vars, Switches, ServedInv
<1>2. ASSUME NEW p \in Procs, Does(p) PROVE ServedInv'
  <2>0. ServedAt(p) /\ AtStep(p)
    BY DEF TypeInv, StepInv, ServedInv, ServedAt
  <2>1. ASSUME MovesFile(p) PROVE ServedAt(p)'
    <3>1. SessionSame(p) /\ run[p].at \in Moving
      BY <2>1 DEF MovesFile, Resolves, Stats, Renames, Copies, Unlinks, Placed, Steps1
    <3>2. Doing(p)' = Doing(p) /\ run'[p].at # "start"
      BY <2>0, <2>1 DEF AtStep, UsesPath, MovesFile, Resolves, Stats, Renames, Copies, Unlinks, Placed, Steps1, FileSame
    <3> QED BY <2>0, <3>1, <3>2 DEF ServedAt, SessionSame
  <2>2. ASSUME HasSession(p), ~Reads(p), ~Mints(p) PROVE ServedAt(p)'
    BY <2>0, <2>2 DEF ServedAt, HasSession, Expects, Skips, Stores, Rejects, Challenges, Drops, Finishes,
                      Asked, Used, Ended, Steps1, SessionSame
  <2>3. ASSUME Reads(p) PROVE ServedAt(p)'
    <3>1. file = "token" /\ run[p].path \in Places
      BY <2>0, <2>3, ProcType DEF AtStep, Reads, InSession, RunType
    <3>2. ASSUME NEW t \in Tokens, Usable(p, t) PROVE AccountOf(t) = run[p].expected
      <4>1. AccountOf(t) \in Accounts
        BY DEF Tokens, AccountOf
      <4>2. run[p].expected \in Accounts
        BY <2>0, <2>3 DEF ServedAt, Reads
      <4> QED BY <3>2, <4>1, <4>2, ContextFilesAssumption DEF Usable
    <3>3. \A t \in disk[run[p].path].holds : t \in Tokens
      BY <3>1, TokensOnDisk
    <3> QED BY <2>0, <2>3, <3>2, <3>3 DEF ServedAt, Reads, Used, Ended
  <2>4. ASSUME Mints(p) PROVE ServedAt(p)'
    <3>1. p \in Runs
      BY <2>0, <2>4 DEF AtStep, Mints, InSession
    <3>2. login \in Accounts => Fresh(p) \in Tokens /\ AccountOf(Fresh(p)) = login
      BY <3>1, FreshType
    <3>3. NoToken \notin Tokens
      BY ContextFilesAssumption DEF NoToken, Tokens
    <3> QED BY <2>0, <2>4, <3>2, <3>3 DEF ServedAt, Mints, Asked, Ended
  <2>5. ASSUME UpdatesFile(p) PROVE ServedAt(p)'
    BY <2>0, <2>5 DEF ServedAt, UpdatesFile, Updates, Opens, Takes, Loads, Saves, Kills, Asked, Ended, Steps1, SessionSame
  <2>6. ASSUME Clearing(p) PROVE ServedAt(p)'
    BY <2>0, <2>6 DEF ServedAt, Clearing, Begins, Sweeps, Lists, Finds, Removes, Unlocks, Passed, Ended, Steps1, SessionSame
  <2>7. ServedAt(p)'
    BY <1>2, <2>1, <2>2, <2>3, <2>4, <2>5, <2>6, Zenon DEF Does, HasSession
  <2>8. \A q \in Procs : q # p => run'[q] = run[q]
    BY <1>2, DoesTurns DEF Turns
  <2> QED BY <2>7, <2>8 DEF ServedAt, ServedInv
<1> QED BY <1>1, <1>2, EveryStep

\* A cached token that a session begins with is of the account az is logged in as, and
\* every token that replaces it is of the same: `az login` meanwhile ends the session
\* (expectedAccount, cachedTokenFor, refreshSession).
THEOREM SelectedServed == Spec => []SelectedIsServed
<1>1. Init => ServedInv
  BY AtFirst DEF ServedInv, Doing, Moving
<1>2. ServedInv => SelectedIsServed
  BY DEF ServedInv, SelectedIsServed
<1> QED BY <1>1, <1>2, ServedStep, TypeInvariant, PTL DEF Spec

-----------------------------------------------------------------------------
(* Where the tokens are.                                                   *)

\* Files are only moved, or taken away.
LEMMA NoneAdded ==
  ASSUME DiskType,
         \/ disk' = disk \/ disk' = [old |-> NoFile, new |-> disk["old"]]
         \/ \E pl \in Places : disk' = [disk EXCEPT ![pl] = NoFile]
  PROVE  OnDisk' \subseteq OnDisk /\ (disk'["old"].holds \subseteq disk["old"].holds)
<1>0. NoFile.holds = {} /\ "old" \in Places /\ "new" \in Places
  BY DEF NoFile, Places
<1>1. CASE disk' = disk
  BY <1>1 DEF OnDisk
<1>2. CASE disk' = [old |-> NoFile, new |-> disk["old"]]
  <2>1. disk'["old"] = NoFile /\ disk'["new"] = disk["old"]
    BY <1>2
  <2> QED BY <1>0, <2>1 DEF OnDisk
<1>3. ASSUME NEW pl \in Places, disk' = [disk EXCEPT ![pl] = NoFile]
      PROVE  OnDisk' \subseteq OnDisk /\ (disk'["old"].holds \subseteq disk["old"].holds)
  <2>1. /\ disk'["old"] = IF pl = "old" THEN NoFile ELSE disk["old"]
        /\ disk'["new"] = IF pl = "new" THEN NoFile ELSE disk["new"]
    BY <1>0, <1>3 DEF DiskType
  <2> QED BY <1>0, <2>1 DEF OnDisk
<1> QED BY <1>1, <1>2, <1>3

\* What a step puts on disk is what a run stores.
LEMMA DiskGrows ==
  ASSUME TypeInv, NEW a \in Procs, Does(a), file = "token", ~crossFs
  PROVE  \/ OnDisk' \subseteq OnDisk /\ (disk'["old"].holds \subseteq disk["old"].holds)
         \/ /\ Stores(a) /\ OnDisk' \subseteq OnDisk \union {run[a].bearer}
            /\ disk'["old"].holds \subseteq disk["old"].holds \union {run[a].bearer}
<1>0. DiskType /\ AtStep(a) /\ run[a].path \in Places /\ "old" \in Places
  BY TypeParts, ProcType, PlaceNames DEF StepInv, RunType
<1>1. ASSUME Stores(a)
      PROVE  /\ OnDisk' \subseteq OnDisk \union {run[a].bearer}
             /\ disk'["old"].holds \subseteq disk["old"].holds \union {run[a].bearer}
  <2>1. CASE disk' = disk
    BY <2>1 DEF OnDisk
  <2>2. CASE disk' = [disk EXCEPT ![run[a].path] = File({run[a].bearer}, FALSE)]
    <3> DEFINE f == File({run[a].bearer}, FALSE)
    <3>1. f.holds = {run[a].bearer}
      BY DEF File
    <3>2. /\ disk'["old"] = IF run[a].path = "old" THEN f ELSE disk["old"]
          /\ disk'["new"] = IF run[a].path = "new" THEN f ELSE disk["new"]
      BY <1>0, <2>2 DEF DiskType, Places
    <3> HIDE DEF f
    <3> QED BY <3>1, <3>2 DEF OnDisk
  <2> QED BY <1>1, <2>1, <2>2 DEF Stores
<1>2. ASSUME ~Stores(a)
      PROVE  \/ disk' = disk \/ disk' = [old |-> NoFile, new |-> disk["old"]]
             \/ \E pl \in Places : disk' = [disk EXCEPT ![pl] = NoFile]
  <2>1. ASSUME MovesFile(a) PROVE disk' = disk \/ disk' = [old |-> NoFile, new |-> disk["old"]]
    <3>1. ~Copies(a) /\ ~Unlinks(a)
      BY <1>0 DEF Copies, Unlinks, AtStep
    <3> QED BY <2>1, <3>1, Zenon DEF MovesFile, Resolves, Stats, Renames, Inside
  <2>2. ASSUME HasSession(a) PROVE disk' = disk \/ \E pl \in Places : disk' = [disk EXCEPT ![pl] = NoFile]
    BY <1>0, <1>2, <2>2, Zenon DEF HasSession, Expects, Skips, Reads, Mints, Rejects, Challenges, Drops, Finishes, Inside
  <2>3. ~Saves(a)
    BY <1>0 DEF Saves, AtStep, Doing, Moving, InUpdate, HasLockFile
  <2>4. ASSUME UpdatesFile(a) PROVE disk' = disk
    BY <2>3, <2>4, Zenon DEF UpdatesFile, Updates, Opens, Takes, Loads, Kills, Inside
  <2>5. ASSUME Clearing(a) PROVE disk' = disk \/ \E pl \in Places : disk' = [disk EXCEPT ![pl] = NoFile]
    BY <1>0, <2>5, Zenon DEF Clearing, Begins, Sweeps, Lists, Finds, Removes, Unlocks, Inside
  <2> QED BY <2>1, <2>2, <2>4, <2>5, Zenon DEF Does
<1> QED BY <1>0, <1>1, <1>2, NoneAdded, Zenon

\* Which token a step of a run with a token file makes known, ...
LEMMA KnownGrows ==
  ASSUME TypeInv, NEW a \in Procs, Does(a), file = "token", ~crossFs, NEW t, Known(t)'
  PROVE  Known(t) \/ (t = run[a].bearer /\ (Stores(a) \/ Drops(a)))
<1>1. ASSUME t \in OnDisk' PROVE Known(t) \/ (t = run[a].bearer /\ Stores(a))
  BY <1>1, DiskGrows DEF Known
<1>2. dropped' = dropped \/ (Drops(a) /\ dropped' = dropped \union {run[a].bearer})
  BY Zenon DEF Does, MovesFile, HasSession, UpdatesFile, Clearing, Resolves, Stats, Renames, Copies, Unlinks,
               Expects, Skips, Reads, Mints, Stores, Rejects, Challenges, Drops, Finishes, Updates, Opens, Takes, Loads,
               Saves, Kills, Begins, Sweeps, Lists, Finds, Removes, Unlocks, Inside
<1>3. before' = before \/ Begins(a)
  BY Zenon DEF Does, MovesFile, HasSession, UpdatesFile, Clearing, Resolves, Stats, Renames, Copies, Unlinks,
               Expects, Skips, Reads, Mints, Stores, Rejects, Challenges, Drops, Finishes, Updates, Opens, Takes, Loads,
               Saves, Kills, Sweeps, Lists, Finds, Removes, Unlocks, Inside
<1>4. ASSUME Begins(a), NEW c \in Clears, t \in before'[c] PROVE Known(t)
  <2>1. before'[c] = IF c = a THEN OnDisk ELSE before[c]
    BY <1>4, TypeParts DEF Begins, HistoryType
  <2> QED BY <1>4, <2>1 DEF Known
<1> QED BY <1>1, <1>2, <1>3, <1>4 DEF Known

\* ... and which token a process comes to hold.
LEMMA BearerFrom ==
  ASSUME TypeInv, NEW a \in Procs, Does(a), NEW q \in Procs
  PROVE  \/ run'[q].bearer = run[q].bearer \/ run'[q].bearer = NoToken
         \/ q = a /\ Reads(a) /\ run'[q].bearer \in disk[run[a].path].holds
         \/ q = a /\ Mints(a) /\ run'[q].bearer = Fresh(a) /\ login \in Accounts
<1>1. CASE q # a
  BY <1>1, DoesTurns DEF Turns
<1>2. CASE q = a
  <2>1. ASSUME MovesFile(a) PROVE run'[a].bearer = run[a].bearer
    BY <2>1, Zenon DEF MovesFile, Resolves, Stats, Renames, Copies, Unlinks, Placed, Steps1, SessionSame
  <2>2. ASSUME HasSession(a), ~Reads(a), ~Mints(a) PROVE run'[a].bearer = run[a].bearer \/ run'[a].bearer = NoToken
    BY <2>2, Zenon DEF HasSession, Expects, Skips, Stores, Rejects, Challenges, Drops, Finishes, Ended, Steps1, SessionSame
  <2>3. ASSUME Reads(a) PROVE \/ run'[a].bearer = run[a].bearer \/ run'[a].bearer = NoToken
                              \/ run'[a].bearer \in disk[run[a].path].holds
    BY <2>3 DEF Reads, Ended
  <2>4. ASSUME Mints(a) PROVE run'[a].bearer = NoToken \/ (run'[a].bearer = Fresh(a) /\ login \in Accounts)
    BY <2>4, Zenon DEF Mints, Ended
  <2>5. ASSUME UpdatesFile(a) PROVE run'[a].bearer = run[a].bearer \/ run'[a].bearer = NoToken
    BY <2>5, Zenon DEF UpdatesFile, Updates, Opens, Takes, Loads, Saves, Kills, Ended, Steps1, SessionSame
  <2>6. ASSUME Clearing(a) PROVE run'[a].bearer = run[a].bearer \/ run'[a].bearer = NoToken
    BY <2>6, Zenon DEF Clearing, Begins, Sweeps, Lists, Finds, Removes, Unlocks, Passed, Ended, Steps1, SessionSame
  <2> QED BY <1>2, <2>1, <2>2, <2>3, <2>4, <2>5, <2>6, Zenon DEF Does
<1> QED BY <1>1, <1>2

\* No token is nobody's, ...
LEMMA NotMine == \A p \in Runs : ~Mine(p, NoToken)
BY DEF Mine, NoToken

\* ... and no token.
LEMMA NoTokenIsNone == NoToken \notin Tokens
BY ContextFilesAssumption DEF NoToken, Tokens

\* What a run minted is known to nobody else, whatever another process does.
LEMMA MintOthers ==
  ASSUME TypeInv, NEW a \in Procs, Does(a), file = "token", ~crossFs,
         NEW p \in Runs, p # a, MintAt(p)
  PROVE  MintAt(p)'
<1>0. p \in Procs /\ run'[p] = run[p]
  BY DoesTurns DEF Turns, Procs
<1>1. Doing(p)' = Doing(p)
  BY <1>0 DEF Doing
<1>2. ASSUME NEW t \in Tokens, Mine(p, t), ~Known(t), run[a].bearer # t PROVE ~Known(t)'
  BY <1>2, KnownGrows
<1>3. ASSUME NEW t \in Tokens, Mine(p, t), ~Known(t), NEW q \in Procs, run[q].bearer # t
      PROVE  run'[q].bearer # t
  <2> SUFFICES ASSUME run'[q].bearer = t PROVE FALSE
    OBVIOUS
  <2>1. ~(run'[q].bearer = NoToken)
    BY NoTokenIsNone
  <2>2. ~(Mints(a) /\ q = a /\ t = Fresh(a) /\ login \in Accounts)
    BY <1>3 DEF Fresh, Mine
  <2>3. ~(Reads(a) /\ t \in disk[run[a].path].holds)
    <3>1. run[a].path \in {"old", "new"}
      BY ProcType DEF RunType, Places
    <3> QED BY <1>3, <3>1 DEF Known, OnDisk
  <2> QED BY <1>3, <2>1, <2>2, <2>3, BearerFrom
<1>4. run[p].at \notin Over /\ ~Mine(p, run[p].bearer) =>
        \A t \in Tokens : Mine(p, t) => ~Known(t)' /\ \A q \in Procs : run'[q].bearer # t
  BY <1>2, <1>3 DEF MintAt
<1>5. Doing(p) = "write" =>
        /\ Mine(p, run[p].bearer) /\ ~Known(run[p].bearer)'
        /\ \A q \in Procs : run'[q].bearer = run[p].bearer => q = p
  <2> SUFFICES ASSUME Doing(p) = "write" PROVE /\ Mine(p, run[p].bearer) /\ ~Known(run[p].bearer)'
                                               /\ \A q \in Procs : run'[q].bearer = run[p].bearer => q = p
    OBVIOUS
  <2>1. PICK t \in Tokens : t = run[p].bearer
    BY <1>0 DEF TypeInv, StepInv, AtStep, HasBearer
  <2>2. Mine(p, t) /\ ~Known(t) /\ \A q \in Procs : q # p => run[q].bearer # t
    BY <2>1 DEF MintAt
  <2>3. ~Known(t)'
    BY <1>0, <1>2, <2>2
  <2>4. \A q \in Procs : q # p => run'[q].bearer # t
    BY <1>3, <2>2
  <2>5. ~Known(run[p].bearer)'
    BY <1>0, <2>1, <2>3 DEF Known
  <2> QED BY <2>1, <2>2, <2>4, <2>5
<1> QED BY <1>0, <1>1, <1>4, <1>5 DEF MintAt

\* A step that leaves the session as it is, and makes no token of the run known.
LEMMA MintQuiet ==
  ASSUME TypeInv, NEW a \in Runs, MintAt(a), Turns(a), SessionSame(a), run[a].at \notin Over,
         \A t \in Tokens : Mine(a, t) /\ Known(t)' => Known(t) \/ t = run[a].bearer,
         Doing(a)' = "write" => Doing(a) = "write" /\ ~Known(run[a].bearer)',
         Doing(a)' \in {"start", "read", "mint", "drop"} => Doing(a) \in {"start", "read", "mint", "drop"},
         (Doing(a)' = "mint" /\ run[a].cached) \/ Doing(a)' = "drop" => run[a].refreshed
  PROVE  MintAt(a)'
<1>0. /\ run'[a].bearer = run[a].bearer /\ run'[a].cached = run[a].cached
      /\ run'[a].refreshed = run[a].refreshed
      /\ \A q \in Procs : run'[q].bearer = run[q].bearer
  BY DEF Turns, SessionSame
<1>1. ASSUME ~Mine(a, run[a].bearer), NEW t \in Tokens, Mine(a, t)
      PROVE  ~Known(t)' /\ \A q \in Procs : run'[q].bearer # t
  BY <1>0, <1>1 DEF MintAt
<1>2. ASSUME Doing(a)' = "write"
      PROVE  /\ Mine(a, run[a].bearer) /\ ~Known(run[a].bearer)'
             /\ \A q \in Procs : run'[q].bearer = run[a].bearer => q = a
  BY <1>0, <1>2 DEF MintAt
<1>4. Doing(a)' \in {"start", "read", "mint", "drop"} => ~Mine(a, run[a].bearer)
  BY DEF MintAt
<1>5. run[a].cached /\ Mine(a, run[a].bearer) => run[a].refreshed
  BY DEF MintAt
<1> QED BY <1>0, <1>1, <1>2, <1>4, <1>5 DEF MintAt

\* A run that is over has nothing of its own left to tell.
LEMMA MintEnded ==
  ASSUME NEW a \in Runs, NEW how \in Over, Ended(a, how)
  PROVE  MintAt(a)'
<1>1. /\ run'[a].at \in Over /\ ~run'[a].cached /\ Doing(a)' \notin {"write", "start", "read", "mint", "drop"}
  BY DEF Ended, Over, Doing, Moving
<1> QED BY <1>1 DEF MintAt

\* The run that steps: what it mints is new, and it mints only when its session began without
\* a token or ARM would not take the one it had.
LEMMA MintSelf ==
  ASSUME TypeInv, ServedInv, NEW a \in Runs, a \in Procs, Does(a), file = "token", ~crossFs, MintAt(a)
  PROVE  MintAt(a)'
<1> USE DEF Moving
<1>0. AtStep(a) /\ run'[a] \in RunType /\ Turns(a)
  BY DoesTurns DEF Turns, TypeInv, StepInv
<1>1. ASSUME MovesFile(a) PROVE MintAt(a)'
  <2>1. SessionSame(a) /\ run[a].at \in Moving /\ run[a].at \notin Over
    BY <1>1 DEF MovesFile, Resolves, Stats, Renames, Copies, Unlinks, Placed, Steps1, Over
  <2>2. Doing(a)' = Doing(a)
    BY <1>0, <1>1 DEF AtStep, UsesPath, MovesFile, Resolves, Stats, Renames, Copies, Unlinks, Placed, Steps1, FileSame,
                      Doing
  <2>3. ~Stores(a) /\ ~Drops(a)
    BY <2>1 DEF Stores, Drops
  <2>4. \A t : Known(t)' => Known(t)
    BY <2>3, KnownGrows
  <2>5. Doing(a) = "write" => ~Known(run[a].bearer)'
    <3>1. run'[a].bearer = run[a].bearer
      BY <2>1 DEF SessionSame
    <3>2. ASSUME NEW t, t = run[a].bearer, Known(run[a].bearer)' PROVE Known(t)
      <4>1. Known(t)'
        BY <3>1, <3>2 DEF Known
      <4> QED BY <2>4, <4>1
    <3> QED BY <3>2 DEF MintAt
  <2>6. (Doing(a) = "mint" /\ run[a].cached) \/ Doing(a) = "drop" => run[a].refreshed
    BY DEF MintAt
  <2> QED BY <1>0, <2>1, <2>2, <2>4, <2>5, <2>6, MintQuiet
<1>2. ASSUME \/ Expects(a) \/ Skips(a) \/ Stores(a) \/ Challenges(a) \/ (Drops(a) /\ run[a].at = "drop")
      PROVE  MintAt(a)'
  <2>1. /\ run'[a].bearer = run[a].bearer /\ run'[a].cached = run[a].cached /\ run'[a].refreshed = run[a].refreshed
        /\ \A q \in Procs : run'[q].bearer = run[q].bearer
        /\ run[a].at \in {"start", "write", "running", "drop"} /\ Doing(a) = run[a].at
    BY <1>0, <1>2 DEF Expects, Skips, Stores, Challenges, Drops, Steps1, SessionSame, Doing, Turns
  <2>2. /\ Doing(a)' \in {"read", "mint", "running", "dropLast"}
        /\ Doing(a)' \in {"read", "mint"} => Doing(a) \in {"start", "drop"}
    BY <1>2 DEF Expects, Skips, Stores, Challenges, Drops, Steps1, Asked, Used, Doing
  <2>3. Doing(a) = "start" => ~run[a].cached
    BY <2>1 DEF ServedInv
  <2>4. ASSUME ~Mine(a, run[a].bearer), NEW t \in Tokens, Mine(a, t)
        PROVE  ~Known(t)' /\ \A q \in Procs : run'[q].bearer # t
    <3>1. run[a].at \notin Over /\ t # run[a].bearer
      BY <2>1, <2>4 DEF Over
    <3>2. ~Known(t) /\ \A q \in Procs : run[q].bearer # t
      BY <2>4, <3>1 DEF MintAt
    <3> QED BY <2>1, <3>1, <3>2, KnownGrows
  <2> QED BY <2>1, <2>2, <2>3, <2>4 DEF MintAt
<1>3. ASSUME Reads(a) PROVE MintAt(a)'
  <2>1. run[a].at = "read" /\ Doing(a) = "read" /\ run[a].path \in {"old", "new"} /\ ~run[a].cached
    BY <1>3, ProcType DEF Reads, Doing, RunType, Places, ServedInv
  <2>2. ~Mine(a, run[a].bearer) /\ run[a].at \notin Over
    BY <2>1 DEF MintAt, Over
  <2>3. \A t \in Tokens : Mine(a, t) => ~Known(t) /\ \A q \in Procs : run[q].bearer # t
    BY <2>2 DEF MintAt
  <2>4. \A t : Known(t)' => Known(t)
    <3>1. ~Stores(a) /\ ~Drops(a)
      BY <2>1 DEF Stores, Drops
    <3> QED BY <3>1, KnownGrows
  <2>5. disk[run[a].path].holds \subseteq Tokens /\ \A t \in disk[run[a].path].holds : Known(t)
    <3>1. run[a].path \in Places
      BY <2>1 DEF Places
    <3> QED BY <2>1, <3>1, TokensOnDisk DEF Known, OnDisk
  <2>6. \A q \in Procs : q # a => run'[q] = run[q]
    BY <1>0 DEF Turns
  <2>7. CASE Ended(a, "failed")
    BY <2>7, MintEnded DEF Over
  <2>8. CASE /\ Used(a, "running") /\ \E t \in disk[run[a].path].holds : Usable(a, t) /\ run'[a].bearer = t
    <3>1. PICK t \in disk[run[a].path].holds : run'[a].bearer = t
      BY <2>8
    <3>2. ~Mine(a, t) /\ t \in Tokens
      BY <2>3, <2>5
    <3>3. ASSUME NEW u \in Tokens, Mine(a, u) PROVE ~Known(u)' /\ \A q \in Procs : run'[q].bearer # u
      <4>1. ~Known(u)'
        BY <2>3, <2>4, <3>3
      <4>2. ASSUME NEW q \in Procs PROVE run'[q].bearer # u
        BY <2>3, <2>6, <3>1, <3>2, <3>3
      <4> QED BY <4>1, <4>2
    <3>4. Doing(a)' = "running"
      BY <2>8 DEF Used, Doing
    <3> QED BY <3>1, <3>2, <3>3, <3>4 DEF MintAt
  <2>9. CASE /\ Used(a, "mint") /\ run'[a].bearer = run[a].bearer
             /\ run'[a].cached = run[a].cached /\ run'[a].refreshed = run[a].refreshed
    <3>1. ASSUME NEW u \in Tokens, Mine(a, u) PROVE ~Known(u)' /\ \A q \in Procs : run'[q].bearer # u
      <4>1. ~Known(u)'
        BY <2>3, <2>4, <3>1
      <4>2. ASSUME NEW q \in Procs PROVE run'[q].bearer # u
        BY <2>3, <2>6, <2>9, <3>1
      <4> QED BY <4>1, <4>2
    <3>2. Doing(a)' = "mint"
      BY <2>9 DEF Used, Doing
    <3> QED BY <2>1, <2>2, <2>9, <3>1, <3>2 DEF MintAt
  <2> QED BY <1>3, <2>7, <2>8, <2>9 DEF Reads
<1>4. ASSUME Mints(a) PROVE MintAt(a)'
  <2>1. run[a].at = "mint" /\ Doing(a) = "mint" /\ ~Mine(a, run[a].bearer) /\ run[a].at \notin Over
    BY <1>4 DEF Mints, Doing, MintAt, Over
  <2>2. \A t \in Tokens : Mine(a, t) => ~Known(t) /\ \A q \in Procs : run[q].bearer # t
    BY <2>1 DEF MintAt
  <2>3. \A t : Known(t)' => Known(t)
    <3>1. ~Stores(a) /\ ~Drops(a)
      BY <2>1 DEF Stores, Drops
    <3> QED BY <3>1, KnownGrows
  <2>4. CASE Ended(a, "failed")
    BY <2>4, MintEnded DEF Over
  <2>5. CASE /\ Asked(a, "write") /\ run'[a].bearer = Fresh(a) /\ login \in Accounts
             /\ run'[a].cached = run[a].cached /\ run'[a].refreshed = run[a].refreshed
    <3>1. PICK t \in Tokens : t = Fresh(a) /\ Mine(a, t)
      BY <2>5, FreshType
    <3>2. ~Known(t) /\ \A q \in Procs : run[q].bearer # t
      BY <2>2, <3>1
    <3>3. ~Known(t)' /\ run'[a].bearer = t
      BY <2>3, <2>5, <3>1, <3>2
    <3>4. \A q \in Procs : run'[q].bearer = t => q = a
      BY <1>0, <3>2 DEF Turns
    <3>5. Doing(a)' = "write"
      BY <2>5 DEF Asked, Doing
    <3>6. run[a].cached => run[a].refreshed
      BY <2>1 DEF MintAt
    <3>7. ~Known(run[a].bearer)'
      BY <3>3 DEF Known
    <3> QED BY <2>5, <3>1, <3>3, <3>4, <3>5, <3>6, <3>7 DEF MintAt
  <2> QED BY <1>4, <2>4, <2>5 DEF Mints
<1>5. ASSUME Rejects(a) PROVE MintAt(a)'
  <2>1. /\ run'[a].bearer = run[a].bearer /\ run'[a].refreshed /\ run[a].at = "running"
        /\ run[a].cached /\ ~run[a].refreshed /\ Doing(a)' = "drop"
        /\ \A q \in Procs : run'[q].bearer = run[q].bearer
    BY <1>0, <1>5 DEF Rejects, Asked, Doing, Turns
  <2>2. ~Mine(a, run[a].bearer) /\ run[a].at \notin Over
    BY <2>1 DEF MintAt, Over
  <2>3. \A t : Known(t)' => Known(t)
    <3>1. ~Stores(a) /\ ~Drops(a)
      BY <2>1 DEF Stores, Drops
    <3> QED BY <3>1, KnownGrows
  <2> QED BY <2>1, <2>2, <2>3 DEF MintAt
<1>6. ASSUME (Drops(a) /\ run[a].at # "drop") \/ Finishes(a) PROVE MintAt(a)'
  <2>1. \E how \in {"done", "failed"} : Ended(a, how)
    BY <1>6 DEF Drops, Finishes
  <2> QED BY <2>1, MintEnded DEF Over
<1>7. ~UpdatesFile(a)
  BY <1>0 DEF AtStep, InUpdate, HasLockFile, Doing, UpdatesFile, Updates, Opens, Takes, Loads, Saves, Kills
<1>8. ~Clearing(a)
  <2>1. a \notin Clears
    BY ContextFilesAssumption
  <2> QED BY <1>0, <2>1 DEF AtStep, InClear, Clearing, Begins, Sweeps, Lists, Finds, Removes, Unlocks
<1> QED BY <1>1, <1>2, <1>3, <1>4, <1>5, <1>6, <1>7, <1>8, Zenon DEF Does, HasSession

\* A run mints what nobody has seen.
LEMMA MintStep == TypeInv /\ ServedInv /\ MintInv /\ [Next]_vars => MintInv'
<1> SUFFICES ASSUME TypeInv, ServedInv, MintInv, [Next]_vars PROVE MintInv'
  OBVIOUS
<1>1. CASE UNCHANGED vars \/ Switches
  BY <1>1 DEF vars, Switches, MintInv, MintAt, Doing, Known, OnDisk
<1>2. ASSUME NEW a \in Procs, Does(a) PROVE MintInv'
  <2> SUFFICES ASSUME file' = "token", ~crossFs', NEW p \in Runs PROVE MintAt(p)'
    BY DEF MintInv
  <2>1. file = "token" /\ ~crossFs /\ MintAt(p)
    BY <1>2, DoesKeeps DEF MintInv
  <2> QED BY <1>2, <2>1, MintOthers, MintSelf
<1> QED BY <1>1, <1>2, EveryStep

\* A run that stores what it minted stores what nobody has seen.
LEMMA StoredIsNew ==
  ASSUME TypeInv, MintInv, file = "token", ~crossFs, NEW a \in Procs, run[a].at = "write"
  PROVE  /\ a \in Runs /\ run[a].bearer \in Tokens /\ ~Known(run[a].bearer)
BY DEF TypeInv, StepInv, AtStep, MintInv, MintAt, Doing, Moving, InSession, HasBearer

\* Moves are renames and cloudctx answers, after a step, only if they did before.
LEMMA PlainBefore == ASSUME TypeInv, NEW a \in Procs, Does(a), Plain' PROVE Plain /\ failures' = failures
<1>0. failures \in Nat /\ crossFs' = crossFs
  BY ProcType, DoesKeeps
<1>1. failures' = 0
  BY DEF Plain
<1>2. failures' = failures \/ failures' = failures + 1 \/ (failures' = 0 => failures = 0)
  BY Zenon DEF Does, MovesFile, HasSession, UpdatesFile, Clearing, Resolves, Stats, Renames, Copies, Unlinks,
               Expects, Skips, Reads, Mints, Stores, Rejects, Challenges, Drops, Finishes, Updates, Opens, Takes, Loads,
               Saves, Kills, Begins, Sweeps, Lists, Finds, Removes, Unlocks, Inside
<1> QED BY <1>0, <1>1, <1>2 DEF Plain

\* A file is used in the store.
LEMMA PathStep == TypeInv /\ PathInv /\ [Next]_vars => PathInv'
<1> SUFFICES ASSUME TypeInv, PathInv, [Next]_vars PROVE PathInv'
  OBVIOUS
<1> USE DEF UsesPath, HasLockFile
<1>1. CASE UNCHANGED vars \/ Switches
  BY <1>1 DEF vars, Switches, PathInv, Plain
<1>2. ASSUME NEW a \in Procs, Does(a) PROVE PathInv'
  <2> SUFFICES ASSUME Plain' PROVE \A p \in Procs : run'[p].at \in UsesPath \union HasLockFile => run'[p].path = "new"
    BY DEF PathInv
  <2>0. /\ failures' = failures /\ failures \in Nat /\ AtStep(a)
        /\ \A p \in Procs : run[p].at \in UsesPath \union HasLockFile => run[p].path = "new"
    BY <1>2, PlainBefore, ProcType DEF PathInv, TypeInv, StepInv
  <2>1. ASSUME MovesFile(a), run'[a].at \in UsesPath \union HasLockFile PROVE run'[a].path = "new"
    <3>1. failures' # failures + 1
      BY <2>0
    <3>2. /\ "statOld" \notin UsesPath \union HasLockFile /\ "rename" \notin UsesPath \union HasLockFile
          /\ "copy" \notin UsesPath \union HasLockFile /\ "unlink" \notin UsesPath \union HasLockFile
      OBVIOUS
    <3> QED BY <2>1, <3>1, <3>2, Zenon DEF MovesFile, Resolves, Stats, Renames, Copies, Unlinks, Placed, Steps1
  <2>2. ASSUME HasSession(a) PROVE run'[a].at \notin UsesPath \union HasLockFile
    BY <2>2 DEF HasSession, Expects, Skips, Reads, Mints, Stores, Rejects, Challenges, Drops, Finishes,
                Asked, Used, Ended, Steps1
  <2>3. ASSUME UpdatesFile(a), run'[a].at \in UsesPath \union HasLockFile PROVE run'[a].path = "new"
    BY <2>0, <2>3 DEF UpdatesFile, Updates, Opens, Takes, Loads, Saves, Kills, Asked, Ended, Steps1, FileSame
  <2>4. ASSUME Clearing(a) PROVE run'[a].at \notin UsesPath \union HasLockFile
    BY <2>4 DEF Clearing, Begins, Sweeps, Lists, Finds, Removes, Unlocks, Passed, Ended, Steps1
  <2>5. run'[a].at \in UsesPath \union HasLockFile => run'[a].path = "new"
    BY <1>2, <2>1, <2>2, <2>3, <2>4, Zenon DEF Does
  <2>6. \A p \in Procs : p # a => run'[p] = run[p]
    BY <1>2, DoesTurns DEF Turns
  <2> QED BY <2>0, <2>5, <2>6
<1> QED BY <1>1, <1>2, EveryStep

\* A behaviour about the record drops and clears no token, ...
LEMMA HistoryStep == TypeInv /\ HistoryInv /\ [Next]_vars => HistoryInv'
<1> SUFFICES ASSUME TypeInv, HistoryInv, [Next]_vars PROVE HistoryInv'
  OBVIOUS
<1>1. CASE UNCHANGED vars \/ Switches
  BY <1>1 DEF vars, Switches, HistoryInv
<1>2. ASSUME NEW a \in Procs, Does(a) PROVE HistoryInv'
  <2> SUFFICES ASSUME file' = "record" PROVE dropped' = {} /\ \A c \in Clears : before'[c] = {}
    BY DEF HistoryInv
  <2>0. file = "record" /\ dropped = {} /\ \A c \in Clears : before[c] = {}
    BY <1>2, DoesKeeps DEF HistoryInv
  <2>1. ~Drops(a)
    BY <2>0 DEF TypeInv, StepInv, AtStep, Drops, Doing, Moving, InSession
  <2>2. dropped' = dropped
    BY <1>2, <2>1, Zenon DEF Does, MovesFile, HasSession, UpdatesFile, Clearing, Resolves, Stats, Renames, Copies, Unlinks,
               Expects, Skips, Reads, Mints, Stores, Rejects, Challenges, Finishes, Updates, Opens, Takes, Loads,
               Saves, Kills, Begins, Sweeps, Lists, Finds, Removes, Unlocks, Inside
  <2>3. before' = before \/ Begins(a)
    BY <1>2, Zenon DEF Does, MovesFile, HasSession, UpdatesFile, Clearing, Resolves, Stats, Renames, Copies, Unlinks,
               Expects, Skips, Reads, Mints, Stores, Rejects, Challenges, Drops, Finishes, Updates, Opens, Takes, Loads,
               Saves, Kills, Sweeps, Lists, Finds, Removes, Unlocks, Inside
  <2>4. ASSUME Begins(a), NEW c \in Clears PROVE before'[c] = {}
    <3>1. before'[c] = IF c = a THEN (IF file = "token" THEN OnDisk ELSE {}) ELSE before[c]
      BY <2>4, TypeParts DEF Begins, HistoryType
    <3> QED BY <2>0, <3>1
  <2> QED BY <2>0, <2>2, <2>3, <2>4
<1> QED BY <1>1, <1>2, EveryStep

\* What a drop takes away is in the store.
LEMMA DropStep == TypeInv /\ MintInv /\ PathInv /\ DropInv /\ [Next]_vars => DropInv'
<1> SUFFICES ASSUME TypeInv, MintInv, PathInv, DropInv, [Next]_vars PROVE DropInv'
  OBVIOUS
<1>1. CASE UNCHANGED vars \/ Switches
  BY <1>1 DEF vars, Switches, DropInv, Plain
<1>2. ASSUME NEW a \in Procs, Does(a) PROVE DropInv'
  <2> DEFINE Old == disk["old"].holds
             New == disk["new"].holds
  <2> SUFFICES ASSUME Plain', file' = "token"
               PROVE  /\ dropped' \cap New' = {}
                      /\ \A t \in Old' : t \notin New' \union dropped' /\ \A p \in Procs : run'[p].bearer # t
    BY DEF DropInv
  <2>0. /\ Plain /\ file = "token" /\ ~crossFs
        /\ dropped \cap New = {}
        /\ \A t \in Old : t \notin New \union dropped /\ \A p \in Procs : run[p].bearer # t
    BY <1>2, PlainBefore, DoesKeeps DEF DropInv, Plain
  <2>1. /\ DiskType /\ AtStep(a) /\ Old \subseteq Tokens
        /\ run[a].at \in UsesPath => run[a].path = "new"
    BY <2>0, TypeParts, TokensOnDisk, PlaceNames DEF StepInv, PathInv
  <2>2. ASSUME NEW t \in Old, NEW p \in Procs PROVE run'[p].bearer # t
    <3>1. t # NoToken /\ run[p].bearer # t /\ t \notin New
      BY <2>0, <2>1, NoTokenIsNone
    <3>2. ~(Reads(a) /\ t \in disk[run[a].path].holds)
      BY <2>1, <3>1 DEF Reads, UsesPath
    <3>3. ~(Mints(a) /\ t = Fresh(a) /\ login \in Accounts)
      <4> SUFFICES ASSUME Mints(a), t = Fresh(a), login \in Accounts PROVE FALSE
        OBVIOUS
      <4>1. a \in Runs /\ run[a].at \notin Over /\ Doing(a) = "mint"
        BY <2>1 DEF AtStep, Mints, Doing, Moving, InSession, Over
      <4>2. t \in Tokens /\ Mine(a, t)
        BY <4>1, FreshType
      <4>3. ~Known(t)
        BY <2>0, <4>1, <4>2 DEF MintInv, MintAt
      <4> QED BY <4>3 DEF Known, OnDisk
    <3> QED BY <1>2, <3>1, <3>2, <3>3, BearerFrom
  <2>3. CASE Stores(a)
    <3>1. run[a].at = "write" /\ run[a].path = "new" /\ dropped' = dropped
      BY <2>1, <2>3 DEF Stores, UsesPath
    <3>2. ~Known(run[a].bearer)
      BY <2>0, <3>1, StoredIsNew
    <3>3. CASE disk' = disk
      BY <2>0, <2>2, <3>1, <3>3
    <3>4. CASE disk' = [disk EXCEPT !["new"] = File({run[a].bearer}, FALSE)]
      <4>1. Old' = Old /\ New' = {run[a].bearer}
        BY <2>1, <3>4 DEF DiskType, Places, File
      <4>2. run[a].bearer \notin dropped /\ \A t \in Old : t # run[a].bearer
        BY <2>0, <3>2 DEF Known
      <4> QED BY <2>0, <2>2, <3>1, <4>1, <4>2
    <3> QED BY <2>3, <3>1, <3>3, <3>4 DEF Stores
  <2>4. CASE Drops(a)
    <3>1. disk' = [disk EXCEPT !["new"] = NoFile] /\ dropped' = dropped \union {run[a].bearer}
      BY <2>1, <2>4 DEF Drops, UsesPath
    <3>2. Old' = Old /\ New' = {}
      BY <2>1, <3>1 DEF DiskType, Places, NoFile
    <3> QED BY <2>0, <2>2, <3>1, <3>2
  <2>5. CASE ~Stores(a) /\ ~Drops(a)
    <3>1. dropped' = dropped
      BY <1>2, <2>5, Zenon DEF Does, MovesFile, HasSession, UpdatesFile, Clearing, Resolves, Stats, Renames, Copies, Unlinks,
               Expects, Skips, Reads, Mints, Rejects, Challenges, Finishes, Updates, Opens, Takes, Loads,
               Saves, Kills, Begins, Sweeps, Lists, Finds, Removes, Unlocks, Inside
    <3>2. CASE Renames(a) /\ disk' # disk
      <4>1. disk' = [old |-> NoFile, new |-> disk["old"]]
        BY <2>0, <3>2 DEF Renames
      <4>2. Old' = {} /\ New' = Old
        BY <4>1 DEF NoFile
      <4> QED BY <2>0, <3>1, <4>2
    <3>3. CASE disk' = disk
      BY <2>0, <2>2, <3>1, <3>3
    <3>4. CASE \E pl \in Places : disk' = [disk EXCEPT ![pl] = NoFile]
      <4>1. Old' \subseteq Old /\ New' \subseteq New
        BY <2>1, <3>4 DEF DiskType, Places, NoFile
      <4> QED BY <2>0, <2>2, <3>1, <4>1
    <3>5. ~Copies(a) /\ ~Unlinks(a) /\ ~Saves(a) /\ run[a].path \in Places
      BY <2>0, <2>1, ProcType DEF Copies, Unlinks, Saves, AtStep, Doing, Moving, InUpdate, HasLockFile, RunType
    <3>6. (Renames(a) /\ disk' # disk) \/ disk' = disk \/ \E pl \in Places : disk' = [disk EXCEPT ![pl] = NoFile]
      BY <1>2, <2>5, <3>5, Zenon DEF Does, MovesFile, HasSession, UpdatesFile, Clearing, Resolves, Stats,
               Expects, Skips, Reads, Mints, Rejects, Challenges, Finishes, Updates, Opens, Takes, Loads,
               Kills, Begins, Sweeps, Lists, Finds, Removes, Unlocks, Inside
    <3> QED BY <3>2, <3>3, <3>4, <3>6
  <2> QED BY <2>3, <2>4, <2>5
<1> QED BY <1>1, <1>2, EveryStep

\* A clear is ahead of the migration: what it has swept is not filled again from behind.
LEMMA ClearStep == TypeInv /\ MintInv /\ ClearInv /\ [Next]_vars => ClearInv'
<1> SUFFICES ASSUME TypeInv, MintInv, ClearInv, [Next]_vars PROVE ClearInv'
  OBVIOUS
<1>1. CASE UNCHANGED vars \/ Switches
  BY <1>1 DEF vars, Switches, ClearInv, OnDisk
<1>2. ASSUME NEW a \in Procs, Does(a) PROVE ClearInv'
  <2> SUFFICES ASSUME ~crossFs', file' = "token", NEW c \in Clears
               PROVE  /\ run'[c].at = "list" \/ (run'[c].at = "sweep" /\ run'[c].path = "new") =>
                           before'[c] \cap disk'["old"].holds = {}
                      /\ run'[c].swept => before'[c] \cap OnDisk' = {}
    BY DEF ClearInv
  <2>0. /\ ~crossFs /\ file = "token"
        /\ run[c].at = "list" \/ (run[c].at = "sweep" /\ run[c].path = "new") => before[c] \cap disk["old"].holds = {}
        /\ run[c].swept => before[c] \cap OnDisk = {}
    BY <1>2, DoesKeeps DEF ClearInv
  <2>1. /\ DiskType /\ AtStep(a) /\ c \in Procs /\ run[a].path \in {"old", "new"} /\ before \in [Clears -> SUBSET Tokens]
    BY TypeParts, ProcType DEF StepInv, RunType, Places, HistoryType, Procs
  <2>2. /\ before[c] \cap disk["old"].holds = {} => before[c] \cap disk'["old"].holds = {}
        /\ before[c] \cap OnDisk = {} => before[c] \cap OnDisk' = {}
    <3>1. Stores(a) => run[a].bearer \notin before[c]
      <4>1. Stores(a) => run[a].at = "write"
        BY DEF Stores
      <4> QED BY <2>0, <4>1, StoredIsNew DEF Known
    <3> QED BY <1>2, <2>0, <3>1, DiskGrows
  <2>3. CASE c # a
    <3>1. run'[c] = run[c]
      BY <1>2, <2>1, <2>3, DoesTurns DEF Turns
    <3>2. before'[c] = before[c]
      <4>1. before' = before \/ Begins(a)
        BY <1>2, Zenon DEF Does, MovesFile, HasSession, UpdatesFile, Clearing, Resolves, Stats, Renames, Copies, Unlinks,
               Expects, Skips, Reads, Mints, Stores, Rejects, Challenges, Drops, Finishes, Updates, Opens, Takes, Loads,
               Saves, Kills, Sweeps, Lists, Finds, Removes, Unlocks, Inside
      <4>2. Begins(a) => before'[c] = before[c]
        BY <2>1, <2>3 DEF Begins
      <4> QED BY <4>1, <4>2
    <3> QED BY <2>0, <2>2, <3>1, <3>2
  <2>4. CASE c = a
    <3>0. a \notin Runs
      BY <2>4, ContextFilesAssumption
    <3>1. Begins(a) \/ Sweeps(a) \/ Lists(a)
      <4>1. Doing(a) \notin InSession \union InUpdate /\ run[a].lock = 0
        BY <2>1, <3>0 DEF AtStep, InUpdate, HasLockFile, Doing, Moving
      <4>2. ~MovesFile(a)
        BY <2>1, <4>1 DEF MovesFile, Resolves, Stats, Renames, Copies, Unlinks, AtStep, Doing, Moving, UsesPath,
                          InSession, InUpdate
      <4>3. ~HasSession(a)
        BY <3>0, <4>1 DEF HasSession, Expects, Skips, Reads, Mints, Stores, Rejects, Challenges, Drops, Finishes, Doing,
                          Moving, InSession
      <4>4. ~UpdatesFile(a)
        BY <2>0, <4>1 DEF UpdatesFile, Updates, Opens, Takes, Loads, Saves, Kills, Doing, Moving, InUpdate, HasLockFile
      <4>5. ~Finds(a) /\ ~Removes(a) /\ ~Unlocks(a)
        BY <2>0, <2>1 DEF Finds, Removes, Unlocks, AtStep
      <4> QED BY <1>2, <4>2, <4>3, <4>4, <4>5, Zenon DEF Does, Clearing
    <3>2. ASSUME Begins(a) PROVE ~run'[c].swept /\ ~(run'[c].at = "list" \/ (run'[c].at = "sweep" /\ run'[c].path = "new"))
      BY <2>1, <2>4, <3>2 DEF Begins, RestSame, AtStep
    <3>3. ASSUME Sweeps(a), run[a].path = "old"
          PROVE  before'[c] \cap disk'["old"].holds = {} /\ ~run'[c].swept
      <4>1. disk'["old"].holds = {}
        BY <2>1, <3>3 DEF Sweeps, DiskType, Places, NoFile
      <4> QED BY <2>1, <2>4, <3>3, <4>1 DEF Sweeps, Passed, AtStep
    <3>4. ASSUME Sweeps(a), run[a].path = "new"
          PROVE  before'[c] \cap OnDisk' = {} /\ run'[c].at = "done"
      <4>1. disk'["old"] = disk["old"] /\ disk'["new"].holds = {} /\ before' = before
        BY <2>1, <3>4 DEF Sweeps, DiskType, Places, NoFile
      <4>2. before[c] \cap disk["old"].holds = {}
        BY <2>0, <2>4, <3>4 DEF Sweeps
      <4> QED BY <2>4, <3>4, <4>1, <4>2 DEF Sweeps, Passed, OnDisk
    <3>5. ASSUME Lists(a)
          PROVE  ~run'[c].swept /\ before'[c] \cap disk'["old"].holds = {}
      BY <2>0, <2>1, <2>4, <3>5 DEF Lists, RestSame, Ended, AtStep
    <3> QED BY <2>1, <3>1, <3>2, <3>3, <3>4, <3>5
  <2> QED BY <2>3, <2>4
<1> QED BY <1>1, <1>2, EveryStep

-----------------------------------------------------------------------------
(* What the record keeps.                                                  *)

\* The steps of a process whose file is the record, its moves renames.
RecordDoes(a) ==
  \/ Resolves(a) \/ Stats(a) \/ Renames(a) \/ UpdatesFile(a)
  \/ Begins(a) \/ Lists(a) \/ Finds(a) \/ Removes(a)

\* A clear that has removed a lock file stays one that has.
LEMMA UnlockedStays ==
  ASSUME TypeInv, NEW a \in Procs, Does(a), NEW p \in Procs, run[p].unlocked
  PROVE  run'[p].unlocked
<1>1. CASE p # a
  BY <1>1, DoesTurns DEF Turns
<1>2. CASE p = a
  <2>1. ASSUME MovesFile(a) PROVE run'[a].unlocked = run[a].unlocked
    BY <2>1, Zenon DEF MovesFile, Resolves, Stats, Renames, Copies, Unlinks, Placed, Steps1, RestSame
  <2>2. ASSUME HasSession(a) PROVE run'[a].unlocked = run[a].unlocked
    BY <2>2, Zenon DEF HasSession, Expects, Skips, Reads, Mints, Stores, Rejects, Challenges, Drops, Finishes,
                       Asked, Used, Ended, Steps1, RestSame
  <2>3. ASSUME UpdatesFile(a) PROVE run'[a].unlocked = run[a].unlocked
    BY <2>3, Zenon DEF UpdatesFile, Updates, Opens, Takes, Loads, Saves, Kills, Asked, Ended, Steps1, RestSame
  <2>4. ASSUME Clearing(a) PROVE run'[a].unlocked = run[a].unlocked \/ run'[a].unlocked
    BY <2>4, Zenon DEF Clearing, Begins, Sweeps, Lists, Finds, Removes, Unlocks, Passed, Ended, Steps1, RestSame
  <2> QED BY <1>2, <2>1, <2>2, <2>3, <2>4, Zenon DEF Does
<1> QED BY <1>1, <1>2

\* While no lock file was removed, none was before, and nothing but the steps above happens.
LEMMA RecordBefore ==
  ASSUME TypeInv, NEW a \in Procs, Does(a), Locked'
  PROVE  Locked /\ failures' = failures /\ RecordDoes(a)
<1>0. AtStep(a) /\ file' = file /\ Plain /\ failures' = failures
  BY PlainBefore, DoesKeeps DEF Locked, TypeInv, StepInv
<1>1. Locked
  <2>1. file = "record"
    BY <1>0 DEF Locked
  <2>2. ASSUME NEW p \in Clears PROVE ~run[p].unlocked
    <3>1. p \in Procs /\ ~run'[p].unlocked
      BY DEF Procs, Locked
    <3> QED BY <3>1, UnlockedStays
  <2> QED BY <1>0, <2>1, <2>2 DEF Locked
<1>2. ~Copies(a) /\ ~Unlinks(a) /\ ~HasSession(a) /\ ~Sweeps(a)
  <2>1. file = "record" /\ ~crossFs
    BY <1>0, <1>1 DEF Locked, Plain
  <2>2. ~Copies(a) /\ ~Unlinks(a) /\ ~Sweeps(a)
    BY <1>0, <2>1 DEF Copies, Unlinks, Sweeps, AtStep
  <2>3. Doing(a) \notin InSession
    BY <1>0, <2>1 DEF AtStep
  <2>4. ~HasSession(a)
    BY <2>1, <2>3 DEF HasSession, Expects, Skips, Reads, Mints, Stores, Rejects, Challenges, Drops, Finishes,
                      Doing, Moving, InSession
  <2> QED BY <2>2, <2>4
<1>3. ~Unlocks(a)
  <2>1. Unlocks(a) => a \in Clears /\ run'[a].unlocked
    BY <1>0 DEF AtStep, Unlocks, InClear
  <2> QED BY <2>1 DEF Locked
<1> QED BY <1>0, <1>1, <1>2, <1>3, Zenon DEF Does, MovesFile, Clearing, RecordDoes

\* What happens to the files, and what the record must then have.
LEMMA RecordDisk ==
  ASSUME TypeInv, PathInv, Locked, NEW a \in Procs, RecordDoes(a)
  PROVE  \/ disk' = disk /\ recorded' = recorded
         \/ /\ Renames(a) /\ disk["old"].there /\ disk'["new"] = disk["old"] /\ disk'["old"] = NoFile
            /\ recorded' = recorded
         \/ /\ Saves(a) /\ disk'["old"] = disk["old"]
            /\ disk'["new"] = File(run[a].blob \union {a}, FALSE) /\ recorded' = recorded \union {a}
         \/ /\ Removes(a) /\ run[a].path \in Places /\ disk'[run[a].path] = NoFile
            /\ \A pl \in Places : pl # run[a].path => disk'[pl] = disk[pl]
            /\ (disk[run[a].path].there /\ recorded' = {}) \/ (~disk[run[a].path].there /\ recorded' = recorded)
<1>0. DiskType /\ ~crossFs /\ run[a].path \in Places /\ "old" \in Places /\ "new" \in Places
  BY TypeParts, ProcType, PlaceNames DEF Locked, Plain, RunType
<1>1. CASE Renames(a)
  <2>1. CASE disk["old"].there
    <3>1. disk' = [old |-> NoFile, new |-> disk["old"]] /\ recorded' = recorded
      BY <1>0, <1>1, <2>1 DEF Renames
    <3> QED BY <1>1, <2>1, <3>1
  <2>2. CASE ~disk["old"].there
    BY <1>1, <2>2 DEF Renames
  <2> QED BY <2>1, <2>2
<1>2. CASE Saves(a)
  <2>1. run[a].path = "new"
    BY <1>2 DEF Saves, PathInv, Locked, HasLockFile
  <2>2. disk' = [disk EXCEPT !["new"] = File(run[a].blob \union {a}, FALSE)] /\ recorded' = recorded \union {a}
    BY <1>2, <2>1 DEF Saves
  <2> DEFINE f == File(run[a].blob \union {a}, FALSE)
  <2> HIDE DEF f
  <2>3. disk' = [disk EXCEPT !["new"] = f]
    BY <2>2 DEF f
  <2>4. disk'["new"] = f /\ disk'["old"] = disk["old"]
    BY <1>0, <2>3 DEF DiskType
  <2> QED BY <1>2, <2>2, <2>4 DEF f
<1>3. CASE Removes(a)
  <2>1. disk' = [disk EXCEPT ![run[a].path] = NoFile]
    BY <1>3 DEF Removes
  <2>2. disk'[run[a].path] = NoFile /\ \A pl \in Places : pl # run[a].path => disk'[pl] = disk[pl]
    BY <1>0, <2>1 DEF DiskType
  <2>3. (disk[run[a].path].there /\ recorded' = {}) \/ (~disk[run[a].path].there /\ recorded' = recorded)
    BY <1>3 DEF Removes
  <2> QED BY <1>0, <1>3, <2>2, <2>3
<1>4. CASE ~Renames(a) /\ ~Saves(a) /\ ~Removes(a)
  BY <1>4, Zenon DEF RecordDoes, UpdatesFile, Resolves, Stats, Updates, Opens, Takes, Loads, Kills,
                     Begins, Lists, Finds, Inside
<1> QED BY <1>1, <1>2, <1>3, <1>4

\* A file that is in the store stays there, and none appears beside it.
LEMMA PlaceStep ==
  ASSUME TypeInv, PathInv, RecordInv, Locked, NEW a \in Procs, Does(a), RecordDoes(a), failures' = failures
  PROVE  PlaceInv'
<1> USE DEF Moving
<1>0. /\ PlaceInv /\ DiskType /\ AtStep(a) /\ failures \in Nat /\ run[a].path \in {"old", "new"} /\ ~crossFs
      /\ ~NoFile.there /\ Places = {"old", "new"} /\ (a \in Clears => a \notin Runs)
  BY TypeParts, ProcType, ContextFilesAssumption
     DEF RecordInv, StepInv, NoFile, Places, Locked, Plain, RunType
<1>D. \/ disk' = disk
      \/ Renames(a) /\ disk["old"].there /\ disk'["new"].there /\ ~disk'["old"].there
      \/ Saves(a) /\ disk'["old"] = disk["old"] /\ disk'["new"].there
      \/ Removes(a) /\ run[a].path = "new" /\ disk'["old"] = disk["old"] /\ ~disk'["new"].there
      \/ Removes(a) /\ run[a].path = "old" /\ disk'["new"] = disk["new"] /\ ~disk'["old"].there
  <2> DEFINE f == File(run[a].blob \union {a}, FALSE)
  <2>1. f.there
    BY DEF File
  <2>2. \/ disk' = disk
        \/ Renames(a) /\ disk["old"].there /\ disk'["new"] = disk["old"] /\ disk'["old"] = NoFile
        \/ Saves(a) /\ disk'["old"] = disk["old"] /\ disk'["new"] = f
        \/ /\ Removes(a) /\ disk'[run[a].path] = NoFile
           /\ \A pl \in Places : pl # run[a].path => disk'[pl] = disk[pl]
    BY RecordDisk
  <2> HIDE DEF f
  <2>3. ASSUME Removes(a), disk'[run[a].path] = NoFile, \A pl \in Places : pl # run[a].path => disk'[pl] = disk[pl]
        PROVE  \/ run[a].path = "new" /\ disk'["old"] = disk["old"] /\ ~disk'["new"].there
               \/ run[a].path = "old" /\ disk'["new"] = disk["new"] /\ ~disk'["old"].there
    <3>1. CASE run[a].path = "new"
      <4>1. "old" \in Places /\ "old" # run[a].path
        BY <1>0, <3>1
      <4> QED BY <1>0, <2>3, <3>1, <4>1
    <3>2. CASE run[a].path = "old"
      <4>1. "new" \in Places /\ "new" # run[a].path
        BY <1>0, <3>2
      <4> QED BY <1>0, <2>3, <3>2, <4>1
    <3> QED BY <1>0, <3>1, <3>2
  <2>4. CASE Renames(a) /\ disk["old"].there /\ disk'["new"] = disk["old"] /\ disk'["old"] = NoFile
    BY <1>0, <2>4
  <2>5. CASE Saves(a) /\ disk'["old"] = disk["old"] /\ disk'["new"] = f
    BY <2>1, <2>5
  <2> QED BY <2>2, <2>3, <2>4, <2>5
<1>1. disk'["old"].there => disk["old"].there
  BY <1>D
<1>2. Moved => Moved'
  <2>2. Removes(a) /\ run[a].path = "new" => ~disk["old"].there
    BY <1>0 DEF PlaceInv, Removes, InClear, AtStep
  <2> QED BY <1>D, <1>1, <2>2 DEF Moved
<1>3. ASSUME run'[a].at \in InUpdate PROVE Moved'
  <2>1. CASE run[a].at \in InUpdate
    BY <1>0, <1>2, <2>1 DEF PlaceInv
  <2>2. CASE run[a].at \notin InUpdate
    <3>1. ~UpdatesFile(a) \/ Updates(a)
      BY <1>0, <2>2 DEF UpdatesFile, Opens, Takes, Loads, Saves, Kills, AtStep, InUpdate, HasLockFile
    <3>2. ~Updates(a)
      BY <1>3 DEF Updates, Asked, InUpdate, HasLockFile
    <3>3. ~Begins(a) /\ ~Lists(a) /\ ~Finds(a) /\ ~Removes(a)
      BY <1>3 DEF Begins, Lists, Finds, Removes, Passed, Ended, Steps1, InUpdate, HasLockFile
    <3>4. ASSUME Resolves(a) PROVE Moved'
      <4>1. failures' # failures + 1 /\ disk' = disk
        BY <1>0, <3>4 DEF Resolves
      <4>2. ~Steps1(a, "statOld")
        BY <1>3 DEF Steps1, InUpdate, HasLockFile
      <4> QED BY <3>4, <4>1, <4>2 DEF Resolves, Moved
    <3>5. ASSUME Stats(a) PROVE Moved'
      <4>1. ~Steps1(a, "rename")
        BY <1>3 DEF Steps1, InUpdate, HasLockFile
      <4> QED BY <3>5, <4>1 DEF Stats, Inside, Moved
    <3>6. ASSUME Renames(a) PROVE Moved'
      <4>1. CASE disk["old"].there
        <5>1. disk' = [old |-> NoFile, new |-> disk["old"]]
          BY <1>0, <3>6, <4>1 DEF Renames
        <5> QED BY <4>1, <5>1 DEF Moved
      <4>2. CASE ~disk["old"].there
        BY <1>1, <4>2 DEF Moved
      <4> QED BY <4>1, <4>2
    <3> QED BY <3>1, <3>2, <3>3, <3>4, <3>5, <3>6 DEF RecordDoes
  <2> QED BY <2>1, <2>2
<1>4. ASSUME NEW p \in Procs, run'[p].at \in {"statOld", "rename"}, disk'["old"].there PROVE ~disk'["new"].there
  <2>1. disk["old"].there
    BY <1>1, <1>4
  <2>2. CASE p # a
    <3>1. run'[p] = run[p]
      BY <2>2, DoesTurns DEF Turns
    <3>2. ~disk["new"].there
      BY <1>0, <1>4, <2>1, <3>1 DEF PlaceInv
    <3>3. ~Saves(a)
      <4>1. Saves(a) => run[a].at \in InUpdate
        BY DEF Saves, InUpdate, HasLockFile
      <4>2. ~Moved
        BY <2>1, <3>2 DEF Moved
      <4> QED BY <1>0, <4>1, <4>2 DEF PlaceInv
    <3> QED BY <1>D, <1>4, <2>1, <3>2, <3>3
  <2>3. CASE p = a
    <3>1. Resolves(a) \/ Stats(a) \/ Renames(a)
      <4>1. ~UpdatesFile(a)
        BY <1>4, <2>3 DEF UpdatesFile, Updates, Opens, Takes, Loads, Saves, Kills, Asked, Ended, Steps1
      <4>2. ~Begins(a) /\ ~Lists(a) /\ ~Finds(a) /\ ~Removes(a)
        BY <1>4, <2>3 DEF Begins, Lists, Finds, Removes, Passed, Ended, Steps1
      <4> QED BY <4>1, <4>2 DEF RecordDoes
    <3>2. run[a].op \notin {"statOld", "rename"} \/ run[a].at \notin Moving
      BY <1>0 DEF AtStep, UsesPath
    <3>3. ~Renames(a)
      BY <1>0, <1>4, <2>3, <3>2 DEF Renames, Placed
    <3>4. ~disk["new"].there /\ disk' = disk
      <4>1. CASE Resolves(a)
        BY <1>4, <2>3, <3>2, <4>1 DEF Resolves, Placed
      <4>2. CASE Stats(a)
        BY <1>0, <2>1, <4>2 DEF Stats, Inside, PlaceInv
      <4> QED BY <3>1, <3>3, <4>1, <4>2
    <3> QED BY <3>4
  <2> QED BY <2>2, <2>3
<1>5. ASSUME NEW p \in Clears, run'[p].at = "list" \/ (run'[p].at \in InClear /\ run'[p].path = "new")
      PROVE  ~disk'["old"].there
  <2>0. p \in Procs
    BY DEF Procs
  <2>1. CASE p # a
    <3>1. run'[p] = run[p]
      BY <2>0, <2>1, DoesTurns DEF Turns
    <3> QED BY <1>0, <1>1, <1>5, <3>1 DEF PlaceInv
  <2>2. CASE p = a
    <3>0. a \in Clears /\ a \notin Runs
      BY <1>0, <1>5, <2>2
    <3>1. run[a].lock = 0 /\ Doing(a) \notin InUpdate /\ run[a].at \notin Moving
      <4>1. Doing(a) \notin InUpdate \union InSession
        BY <1>0, <3>0 DEF AtStep
      <4> QED BY <1>0, <4>1 DEF AtStep, InUpdate, HasLockFile, InSession, UsesPath, Doing
    <3>2. Lists(a) \/ Finds(a) \/ Removes(a)
      <4>1. ~UpdatesFile(a)
        BY <3>0, <3>1 DEF UpdatesFile, Updates, Opens, Takes, Loads, Saves, Kills, Doing, InUpdate, HasLockFile
      <4>2. ~Resolves(a) /\ ~Stats(a) /\ ~Renames(a)
        BY <3>1 DEF Resolves, Stats, Renames
      <4>3. ~Begins(a)
        BY <1>5, <2>2 DEF Begins
      <4> QED BY <4>1, <4>2, <4>3 DEF RecordDoes
    <3>3. CASE Lists(a)
      BY <1>0, <1>1, <2>2, <3>3 DEF Lists, PlaceInv
    <3>4. CASE Finds(a)
      <4>1. disk' = disk
        BY <3>4 DEF Finds, Inside
      <4>2. CASE disk[run[a].path].there
        BY <1>0, <1>5, <2>2, <3>4, <4>1, <4>2 DEF Finds, Steps1, FileSame, PlaceInv, InClear
      <4>3. CASE ~disk[run[a].path].there
        BY <1>0, <1>5, <2>2, <3>4, <4>1, <4>3 DEF Finds, Passed, FileSame, PlaceInv, InClear
      <4> QED BY <4>2, <4>3
    <3>5. CASE Removes(a)
      BY <1>0, <1>1, <1>5, <2>2, <3>5 DEF Removes, Steps1, Ended, FileSame, PlaceInv, InClear
    <3> QED BY <3>2, <3>3, <3>4, <3>5
  <2> QED BY <2>1, <2>2
<1>6. ASSUME NEW p \in Procs, run'[p].at \in InUpdate PROVE Moved'
  <2>1. CASE p # a
    <3>1. run'[p] = run[p]
      BY <2>1, DoesTurns DEF Turns
    <3> QED BY <1>0, <1>2, <1>6, <3>1 DEF PlaceInv
  <2> QED BY <1>3, <1>6, <2>1
<1> QED BY <1>4, <1>5, <1>6 DEF PlaceInv

\* A process that waits for the lock waits for the file of that name, and none
\* goes on while another has it.
LEMMA LockStep ==
  ASSUME TypeInv, PathInv, RecordInv, Locked, NEW a \in Procs, Does(a), RecordDoes(a)
  PROVE  LockInv'
<1> USE DEF Moving, HasLockFile
<1>0. /\ LockInv /\ StepInv /\ AtStep(a) /\ LockType /\ run[a].path \in Places
      /\ run[a].at \in UsesPath \union HasLockFile => run[a].path = "new"
  BY TypeParts, ProcType DEF RecordInv, StepInv, PathInv, Locked, RunType
<1>1. Opens(a) \/ sidecar' = sidecar
  BY Zenon DEF RecordDoes, UpdatesFile, Resolves, Stats, Renames, Updates, Takes, Loads, Saves, Kills,
               Begins, Lists, Finds, Removes, Inside, Outside
<1>2. sidecar["new"] # 0 => sidecar'["new"] = sidecar["new"]
  <2>1. ASSUME Opens(a), sidecar["new"] # 0 PROVE sidecar'["new"] = sidecar["new"]
    BY <1>0, <2>1 DEF Opens, LockType, UsesPath
  <2> QED BY <1>1, <2>1
<1>3. run'[a].at \in HasLockFile => run[a].at \in {"lock"} \union HasLockFile
  <2>1. ~(Resolves(a) \/ Stats(a) \/ Renames(a)) \/ run'[a].at \notin HasLockFile
    BY <1>0 DEF Resolves, Stats, Renames, Placed, Steps1, AtStep, UsesPath
  <2>2. ~(Updates(a) \/ Begins(a) \/ Lists(a) \/ Finds(a) \/ Removes(a)) \/ run'[a].at \notin HasLockFile
    BY DEF Updates, Begins, Lists, Finds, Removes, Asked, Passed, Ended, Steps1
  <2>3. Kills(a) => run'[a].at \notin HasLockFile
    BY DEF Kills, Ended
  <2> QED BY <2>1, <2>2, <2>3 DEF RecordDoes, UpdatesFile, Opens, Takes, Loads, Saves
<1>4. ASSUME run'[a].at \in HasLockFile PROVE run'[a].lock = sidecar'["new"]
  <2>1. Opens(a) \/ Takes(a) \/ Loads(a)
    <3>1. ~Resolves(a) /\ ~Stats(a) /\ ~Renames(a) /\ ~Updates(a) /\ ~Begins(a) /\ ~Lists(a) /\ ~Finds(a) /\ ~Removes(a)
      BY <1>3, <1>4 DEF Resolves, Stats, Renames, Updates, Begins, Lists, Finds, Removes
    <3>2. ~Kills(a) /\ ~Saves(a)
      BY <1>4 DEF Kills, Saves, Ended
    <3> QED BY <3>1, <3>2 DEF RecordDoes, UpdatesFile
  <2>2. CASE Opens(a)
    BY <1>0, <2>2 DEF Opens, LockType, UsesPath
  <2>3. CASE Takes(a) \/ Loads(a)
    <3>1. run[a].at \in HasLockFile /\ run'[a].lock = run[a].lock /\ sidecar' = sidecar
      BY <2>3 DEF Takes, Loads, Steps1, RestSame, Inside, Outside
    <3> QED BY <1>0, <3>1 DEF LockInv
  <2> QED BY <2>1, <2>2, <2>3
<1>5. ASSUME NEW p \in Procs, run'[p].at \in HasLockFile PROVE run'[p].lock = sidecar'["new"]
  <2>1. CASE p # a
    <3>1. run'[p] = run[p]
      BY <2>1, DoesTurns DEF Turns
    <3>2. run[p].lock = sidecar["new"] /\ run[p].lock # 0
      BY <1>0, <1>5, <3>1 DEF LockInv, StepInv, AtStep
    <3> QED BY <1>2, <3>1, <3>2
  <2> QED BY <1>4, <1>5, <2>1
<1>6. ASSUME NEW q \in Procs, q # a, run'[a].at \in {"load", "save"}, run'[q].at \in {"load", "save"} PROVE FALSE
  <2>1. run'[q] = run[q]
    BY <1>6, DoesTurns DEF Turns
  <2>2. run[a].at \notin {"load", "save"}
    BY <1>0, <1>6, <2>1 DEF LockInv
  <2>3. Takes(a)
    <3>1. ~Resolves(a) /\ ~Stats(a) /\ ~Renames(a) /\ ~Updates(a) /\ ~Begins(a) /\ ~Lists(a) /\ ~Finds(a) /\ ~Removes(a)
      BY <1>3, <1>6 DEF Resolves, Stats, Renames, Updates, Begins, Lists, Finds, Removes
    <3> QED BY <1>6, <2>2, <3>1 DEF RecordDoes, UpdatesFile, Opens, Loads, Saves, Kills, Ended
  <2>4. run[a].lock = sidecar["new"] /\ run[q].lock = sidecar["new"] /\ ~Holds(q, run[a].lock)
    BY <1>0, <1>6, <2>1, <2>3 DEF LockInv, Takes
  <2> QED BY <1>6, <2>1, <2>4 DEF Holds
<1>7. ASSUME NEW p \in Procs, NEW q \in Procs, run'[p].at \in {"load", "save"}, run'[q].at \in {"load", "save"} PROVE p = q
  <2>1. CASE p # a /\ q # a
    <3>1. run'[p] = run[p] /\ run'[q] = run[q]
      BY <2>1, DoesTurns DEF Turns
    <3> QED BY <1>0, <1>7, <3>1 DEF LockInv
  <2> QED BY <1>6, <1>7, <2>1
<1> QED BY <1>5, <1>7 DEF LockInv

\* What is about to be saved has all that must still be there, and so has the file.
LEMMA SaveStep ==
  ASSUME TypeInv, PathInv, RecordInv, Locked, NEW a \in Procs, Does(a), RecordDoes(a)
  PROVE  SaveInv' /\ recorded' \subseteq Current'
<1> USE DEF HasLockFile
<1>0. /\ SaveInv /\ LockInv /\ PlaceInv /\ recorded \subseteq Current /\ DiskInv /\ Places = {"old", "new"}
      /\ run[a].path \in Places /\ ~NoFile.there /\ NoFile.holds = {}
      /\ run[a].at \in HasLockFile => run[a].path = "new" /\ Moved
  BY TypeParts, ProcType DEF RecordInv, DiskType, PathInv, PlaceInv, Locked, InUpdate, RunType, Places, NoFile
<1>1. Saves(a) \/ recorded' \subseteq recorded
  BY RecordDisk
<1>2. ASSUME NEW p \in Procs, run'[p].at = "save" PROVE recorded' \subseteq run'[p].blob
  <2>1. CASE p # a
    <3>1. run'[p] = run[p]
      BY <2>1, DoesTurns DEF Turns
    <3>2. Saves(a) => run[a].at = "save"
      BY DEF Saves
    <3>3. recorded \subseteq run[p].blob /\ ~Saves(a)
      BY <1>0, <1>2, <2>1, <3>1, <3>2 DEF SaveInv, LockInv
    <3> QED BY <1>1, <3>1, <3>3
  <2>2. CASE p = a
    <3>1. Loads(a)
      <4>1. ~Resolves(a) /\ ~Stats(a) /\ ~Renames(a)
        BY <1>2, <2>2 DEF TypeInv, StepInv, AtStep, UsesPath, Moving, Resolves, Stats, Renames, Placed, Steps1
      <4>2. ~Begins(a) /\ ~Lists(a) /\ ~Finds(a) /\ ~Removes(a)
        BY <1>2, <2>2 DEF Begins, Lists, Finds, Removes, Passed, Ended, Steps1
      <4>3. ~Updates(a) /\ ~Opens(a) /\ ~Takes(a) /\ ~Saves(a) /\ ~Kills(a)
        BY <1>2, <2>2 DEF Updates, Opens, Takes, Saves, Kills, Asked, Ended, Steps1
      <4> QED BY <4>1, <4>2, <4>3 DEF RecordDoes, UpdatesFile
    <3>2. run'[a].blob = disk["new"].holds /\ recorded' = recorded /\ Moved
      BY <1>0, <3>1 DEF Loads, Inside
    <3>3. Current = disk["new"].holds
      BY <1>0, <3>2 DEF Current, Moved, DiskInv
    <3> QED BY <1>0, <2>2, <3>2, <3>3
  <2> QED BY <2>1, <2>2
<1>3. recorded' \subseteq Current'
  <2> DEFINE f == File(run[a].blob \union {a}, FALSE)
  <2>1. f.there /\ f.holds = run[a].blob \union {a}
    BY DEF File
  <2>2. \/ disk' = disk /\ recorded' = recorded
        \/ /\ Renames(a) /\ disk["old"].there /\ disk'["new"] = disk["old"] /\ disk'["old"] = NoFile
           /\ recorded' = recorded
        \/ Saves(a) /\ disk'["old"] = disk["old"] /\ disk'["new"] = f /\ recorded' = recorded \union {a}
        \/ /\ Removes(a) /\ run[a].path \in Places /\ disk'[run[a].path] = NoFile
           /\ \A pl \in Places : pl # run[a].path => disk'[pl] = disk[pl]
           /\ (disk[run[a].path].there /\ recorded' = {}) \/ (~disk[run[a].path].there /\ recorded' = recorded)
    BY RecordDisk
  <2> HIDE DEF f
  <2>3. CASE disk' = disk /\ recorded' = recorded
    BY <1>0, <2>3 DEF Current
  <2>4. ASSUME Renames(a), disk["old"].there, disk'["new"] = disk["old"], recorded' = recorded
        PROVE  recorded' \subseteq Current'
    <3>1. ~disk["new"].there
      BY <1>0, <2>4 DEF PlaceInv, Renames
    <3> QED BY <1>0, <2>4, <3>1 DEF Current
  <2>5. ASSUME Saves(a), disk'["new"] = f, recorded' = recorded \union {a} PROVE recorded' \subseteq Current'
    <3>1. recorded \subseteq run[a].blob
      BY <1>0, <2>5 DEF SaveInv, Saves
    <3> QED BY <2>1, <2>5, <3>1 DEF Current
  <2>6. ASSUME disk'[run[a].path] = NoFile, ~disk[run[a].path].there, recorded' = recorded,
               \A pl \in Places : pl # run[a].path => disk'[pl] = disk[pl]
        PROVE  recorded' \subseteq Current'
    <3>1. \A pl \in Places : (disk'[pl].there <=> disk[pl].there) /\ disk'[pl].holds = disk[pl].holds
      <4>1. ASSUME NEW pl \in Places PROVE (disk'[pl].there <=> disk[pl].there) /\ disk'[pl].holds = disk[pl].holds
        <5>1. CASE pl = run[a].path
          <6>1. disk[pl].holds = {} /\ disk'[pl] = NoFile /\ ~disk[pl].there
            BY <1>0, <2>6, <5>1 DEF DiskInv
          <6> QED BY <1>0, <6>1
        <5>2. CASE pl # run[a].path
          BY <2>6, <5>2
        <5> QED BY <5>1, <5>2
      <4> QED BY <4>1
    <3>2. Current' = Current
      BY <1>0, <3>1 DEF Current
    <3> QED BY <1>0, <2>6, <3>2
  <2> QED BY <2>2, <2>3, <2>4, <2>5, <2>6
<1> QED BY <1>2, <1>3 DEF SaveInv

\* The record's invariant after every step.
LEMMA RecordStep == TypeInv /\ PathInv /\ RecordInv /\ [Next]_vars => RecordInv'
<1> SUFFICES ASSUME TypeInv, PathInv, RecordInv, [Next]_vars PROVE RecordInv'
  OBVIOUS
<1>1. CASE UNCHANGED vars \/ Switches
  BY <1>1 DEF vars, Switches, RecordInv, Locked, Plain, PlaceInv, LockInv, SaveInv, Moved, Current
<1>2. ASSUME NEW a \in Procs, Does(a) PROVE RecordInv'
  <2> SUFFICES ASSUME Locked' PROVE (PlaceInv /\ LockInv /\ SaveInv /\ recorded \subseteq Current)'
    BY DEF RecordInv
  <2>1. Locked /\ failures' = failures /\ RecordDoes(a)
    BY <1>2, RecordBefore
  <2> QED BY <1>2, <2>1, PlaceStep, LockStep, SaveStep
<1> QED BY <1>1, <1>2, EveryStep

\* ... and one about the token cache records nothing.
LEMMA NoRecordStep == TypeInv /\ NoRecord /\ [Next]_vars => NoRecord'
<1> SUFFICES ASSUME TypeInv, NoRecord, [Next]_vars PROVE NoRecord'
  OBVIOUS
<1>1. CASE UNCHANGED vars \/ Switches
  BY <1>1 DEF vars, Switches, NoRecord
<1>2. ASSUME NEW a \in Procs, Does(a) PROVE NoRecord'
  <2>1. file' = file /\ AtStep(a)
    BY <1>2, DoesKeeps DEF TypeInv, StepInv
  <2>2. file = "token" => ~Saves(a) /\ ~Removes(a)
    BY <2>1 DEF Saves, Removes, AtStep, Doing, Moving, InUpdate, HasLockFile
  <2>3. Saves(a) \/ Removes(a) \/ recorded' = recorded
    BY <1>2, Zenon DEF Does, MovesFile, HasSession, UpdatesFile, Clearing, Resolves, Stats, Renames, Copies, Unlinks,
               Expects, Skips, Reads, Mints, Stores, Rejects, Challenges, Drops, Finishes, Updates, Opens, Takes, Loads,
               Kills, Begins, Sweeps, Lists, Finds, Unlocks, Inside
  <2> QED BY <2>1, <2>2, <2>3 DEF NoRecord
<1> QED BY <1>1, <1>2, EveryStep

-----------------------------------------------------------------------------
(* The invariant, and what follows.                                        *)

\* The invariant at first, ...
LEMMA FilesInit == Init => FilesInv
<1> SUFFICES ASSUME Init PROVE FilesInv
  OBVIOUS
<1>0. /\ TypeInv /\ DiskType
      /\ dropped = {} /\ before = [c \in Clears |-> {}] /\ recorded = IF file = "record" THEN Current ELSE {}
      /\ \A p \in Procs : /\ run[p].at = "start" /\ run[p].bearer = NoToken /\ run[p].lock = 0
                          /\ ~run[p].cached /\ ~run[p].swept /\ ~run[p].unlocked
      /\ file = "token" => \A pl \in Places : \A t \in disk[pl].holds : t[2] = pl /\ t[3] = 0
  BY TypeInit, AtFirst, DiskAtFirst DEF Init
<1>1. \A p \in Procs : Doing(p) = "start"
  BY <1>0 DEF Doing, Moving
<1>2. ServedInv
  BY <1>0, <1>1 DEF ServedInv
<1>3. MintInv
  <2> SUFFICES ASSUME file = "token", NEW p \in Runs PROVE MintAt(p)
    BY DEF MintInv
  <2>0. p \in Procs
    BY DEF Procs
  <2>1. ASSUME NEW t \in Tokens, Mine(p, t) PROVE ~Known(t) /\ \A q \in Procs : run[q].bearer # t
    <3>1. t \notin OnDisk
      BY <1>0, <2>1 DEF OnDisk, Mine, Places
    <3> QED BY <1>0, <2>1, <3>1, NotMine DEF Known
  <2> QED BY <1>0, <1>1, <2>0, <2>1, NotMine DEF MintAt
<1>4. PathInv /\ NoRecord /\ HistoryInv
  BY <1>0 DEF PathInv, NoRecord, HistoryInv, UsesPath, HasLockFile
<1>5. DropInv
  <2> SUFFICES ASSUME file = "token", NEW t \in disk["old"].holds
               PROVE  t \notin disk["new"].holds \union dropped /\ \A p \in Procs : run[p].bearer # t
    BY <1>0 DEF DropInv
  <2>1. t \in Tokens
    BY <1>0, TokensOnDisk, PlaceNames
  <2>2. t[2] = "old" /\ t \notin disk["new"].holds
    BY <1>0, PlaceNames
  <2> QED BY <1>0, <2>1, <2>2, NoTokenIsNone
<1>6. ClearInv
  BY <1>0 DEF ClearInv, Procs
<1>7. RecordInv
  BY <1>0 DEF RecordInv, Locked, PlaceInv, LockInv, SaveInv, InUpdate, HasLockFile, InClear, Procs
<1> QED BY <1>0, <1>2, <1>3, <1>4, <1>5, <1>6, <1>7 DEF FilesInv

\* ... and always.
LEMMA FilesInvariant == Spec => []FilesInv
<1>1. FilesInv /\ [Next]_vars => FilesInv'
  BY TypeStep, ServedStep, MintStep, PathStep, DropStep, ClearStep, HistoryStep, NoRecordStep, RecordStep
     DEF FilesInv
<1> QED BY <1>1, FilesInit, PTL DEF Spec

\* A token that a run dropped because ARM would not take it (retryOn401, applyRequestError,
\* DropTokenCache) is not served to the next run: no file has it, also when another run
\* moved the file into the store meanwhile, where moves are renames and cloudctx answers.
THEOREM DroppedGone == Spec => []DroppedIsGone
<1>1. FilesInv => DroppedIsGone
  <2> SUFFICES ASSUME FilesInv, Plain PROVE dropped \cap OnDisk = {}
    BY DEF DroppedIsGone
  <2>1. file \in {"token", "record"}
    BY DEF FilesInv, TypeInv, TypeOK
  <2>2. CASE file = "token"
    BY <2>2 DEF FilesInv, DropInv, OnDisk
  <2>3. CASE file = "record"
    BY <2>3 DEF FilesInv, HistoryInv
  <2> QED BY <2>1, <2>2, <2>3
<1> QED BY <1>1, FilesInvariant, PTL

\* A `pimctl cache clear` that was told which contexts there are leaves none of the tokens
\* that were on disk when it began, in either place: it goes where the migration
\* comes from before it goes where the migration ends (ClearTokenCache, RemoveFilesIn).
THEOREM NothingLeft == Spec => []ClearLeavesNothing
<1>1. FilesInv => ClearLeavesNothing
  <2> SUFFICES ASSUME FilesInv, ~crossFs, NEW p \in Clears, run[p].swept PROVE before[p] \cap OnDisk = {}
    BY DEF ClearLeavesNothing
  <2>1. file \in {"token", "record"}
    BY DEF FilesInv, TypeInv, TypeOK
  <2>2. CASE file = "token"
    BY <2>2 DEF FilesInv, ClearInv
  <2>3. CASE file = "record"
    BY <2>3 DEF FilesInv, HistoryInv
  <2> QED BY <2>1, <2>2, <2>3
<1> QED BY <1>1, FilesInvariant, PTL

\* Until a clear removes the lock file, no entry of the record is lost to a concurrent
\* update or to the migration: an update holds the lock from its load to its save, of the
\* file that every other update locks (updateRecord, lockRecord, MoveIfAbsent).
THEOREM NothingLost == Spec => []NothingRecordedIsLost
<1>1. FilesInv => NothingRecordedIsLost
  <2> SUFFICES ASSUME FilesInv, Plain, \A p \in Clears : ~run[p].unlocked PROVE recorded \subseteq Current
    BY DEF NothingRecordedIsLost
  <2>1. file \in {"token", "record"}
    BY DEF FilesInv, TypeInv, TypeOK
  <2>2. CASE file = "token"
    BY <2>2 DEF FilesInv, NoRecord
  <2>3. CASE file = "record"
    BY <2>3 DEF FilesInv, RecordInv, Locked
  <2> QED BY <2>1, <2>2, <2>3
<1> QED BY <1>1, FilesInvariant, PTL
=============================================================================
