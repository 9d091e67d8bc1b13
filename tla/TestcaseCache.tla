---------------------------- MODULE TestcaseCache ---------------------------
(***************************************************************************)
(* The judge worker's sandboxTestcaseCache: testcase inputs kept as files  *)
(* of the go-judge sandbox, shared by all official jobs, pinned while a    *)
(* batch runs, evicted in the background, and found again by FileList when *)
(* a file is missing or the worker was restarted.                          *)
(*                                                                         *)
(* A key is the provenance of an input (problem, version, checksum,        *)
(* testcase).  A batch has one testcase.  Sandbox files are numbered in    *)
(* the order they are added; 0 is no file.                                 *)
(***************************************************************************)
EXTENDS Integers, Sequences, FiniteSets, FiniteSetsExt, SequencesExt

CONSTANTS
    Jobs,                     \* batches that run at the same time
    Keys, Size,               \* inputs and their sizes
    MaxBytes, MaxEntries,     \* configured limits
    Legacy,                   \* keys with a file of an older worker, without a size
    MaxFiles,                 \* files ever added
    MaxSandboxRestarts, MaxWorkerRestarts,
    MaxFaults, FaultyCalls    \* failed sandbox calls, and which may fail

ASSUME CacheAssumption ==
    /\ Size \in [Keys -> Nat]
    /\ {MaxBytes, MaxEntries, MaxFiles, MaxSandboxRestarts, MaxWorkerRestarts,
        MaxFaults} \subseteq Nat
    /\ FaultyCalls \subseteq {"list", "add", "delete", "exec", "cancel"}
    /\ Legacy \subseteq Keys /\ Cardinality(Legacy) <= MaxFiles

VARIABLES
    entry,            \* the entries map: key to entry
    totalBytes, unknownEntries, reservedBytes, reservedEntries,
    attempted,        \* reconcileAttempted
    listing,          \* FileList of reconcile: its state and the files to store
    flight, flying,   \* single flight per key: its state and the file it added
    cleaner, victims, \* clean-up goroutine: its state and its candidates
    pc, key, bind,    \* per job: next step, its input, the file it pinned
    retried,          \* jobs that have rebuilt their batch
    sandbox,          \* files in the sandbox
    nameOf,           \* name of each file ever added: a key, and whether sized
    lost,             \* files lost when the sandbox was restarted
    restarts, workerRestarts, faults

accounting == <<totalBytes, unknownEntries, reservedBytes, reservedEntries>>
cacheVars == <<entry, accounting>>
reconcile == <<attempted, listing>>
flights == <<flight, flying>>
cleanup == <<cleaner, victims>>
jobVars == <<pc, key, bind, retried>>
sandboxVars == <<sandbox, nameOf, lost, restarts>>
bounds == <<workerRestarts, faults>>
vars == <<cacheVars, reconcile, flights, cleanup, jobVars, sandboxVars, bounds>>

NoEntry == [file |-> 0, sized |-> FALSE, inUse |-> 0, idle |-> FALSE, deleting |-> FALSE]

Entries == {k \in Keys : entry[k].file # 0}

Files == 1..Len(nameOf)

Present(k) == entry[k].file # 0 /\ ~entry[k].deleting

Init ==
    /\ entry = [k \in Keys |-> NoEntry]
    /\ totalBytes = 0 /\ unknownEntries = 0 /\ reservedBytes = 0 /\ reservedEntries = 0
    /\ attempted = FALSE /\ listing = [state |-> "none", files |-> {}, imported |-> {}]
    /\ flight = [k \in Keys |-> "none"] /\ flying = [k \in Keys |-> 0]
    /\ cleaner = "idle" /\ victims = {}
    /\ pc = [j \in Jobs |-> "idle"]
    /\ key = [j \in Jobs |-> CHOOSE k \in Keys : TRUE]
    /\ bind = [j \in Jobs |-> 0]
    /\ retried = {}
    /\ \E names \in SetToSeqs(Legacy) :
          nameOf = [i \in 1..Cardinality(Legacy) |-> [key |-> names[i], sized |-> FALSE]]
    /\ sandbox = Files
    /\ lost = {}
    /\ restarts = 0 /\ workerRestarts = 0 /\ faults = 0

Fault(call) ==
    /\ call \in FaultyCalls /\ faults < MaxFaults
    /\ faults' = faults + 1
    /\ UNCHANGED workerRestarts

Goto(j, p) == pc' = [pc EXCEPT ![j] = p]

-----------------------------------------------------------------------------
\* Operations on the entries, each under the cache's lock

\* An entry in use gets the size of the input at hand, if it was unknown.
Use(k, pins) ==
    LET e == entry[k]
    IN  /\ entry' = [entry EXCEPT ![k] = [e EXCEPT !.sized = TRUE, !.inUse = e.inUse + pins,
                                                      !.idle = FALSE]]
        /\ totalBytes' = IF e.sized THEN totalBytes ELSE totalBytes + Size[k]
        /\ unknownEntries' = IF e.sized THEN unknownEntries ELSE unknownEntries - 1
        /\ UNCHANGED <<reservedBytes, reservedEntries>>

\* pin.
Pin(j) ==
    /\ Use(key[j], 1)
    /\ bind' = [bind EXCEPT ![j] = entry[key[j]].file]
    /\ Goto(j, "exec")

\* maybeScheduleCleanup: at most one clean-up runs, and not too often.
MaybeScheduleCleanup ==
    /\ cleaner' \in (IF cleaner = "idle" THEN {"idle", "select"} ELSE {cleaner})
    /\ UNCHANGED victims

\* release: the entry may have been replaced by another file since.
Release(j) ==
    LET e == entry[key[j]]
    IN  /\ entry' = IF e.file = bind[j] /\ e.inUse > 0
                      THEN [entry EXCEPT ![key[j]] = [e EXCEPT !.inUse = e.inUse - 1]]
                      ELSE entry
        /\ IF bind[j] = 0 THEN UNCHANGED cleanup ELSE MaybeScheduleCleanup

\* Mutant of Store: the replaced entry stays accounted for.
StoreTwice(k, f, sized) ==
    /\ entry' = [entry EXCEPT ![k] = [NoEntry EXCEPT !.file = f, !.sized = sized]]
    /\ totalBytes' = totalBytes + (IF sized THEN Size[k] ELSE 0)
    /\ unknownEntries' = unknownEntries + (IF sized THEN 0 ELSE 1)

\* store: a known file only gets its size; another one replaces the entry.
Store(k, f, sized) ==
    LET e == entry[k]
    IN  IF e.file = f
          THEN IF ~e.sized /\ sized
                 THEN /\ entry' = [entry EXCEPT ![k] = [e EXCEPT !.sized = TRUE]]
                      /\ totalBytes' = totalBytes + Size[k]
                      /\ unknownEntries' = unknownEntries - 1
                 ELSE UNCHANGED <<entry, totalBytes, unknownEntries>>
          ELSE /\ entry' = [entry EXCEPT ![k] = [NoEntry EXCEPT !.file = f, !.sized = sized]]
               /\ totalBytes' = totalBytes - (IF e.sized THEN Size[k] ELSE 0)
                                           + (IF sized THEN Size[k] ELSE 0)
               /\ unknownEntries' = unknownEntries
                                     - (IF e.file # 0 /\ ~e.sized THEN 1 ELSE 0)
                                     + (IF sized THEN 0 ELSE 1)

\* removeIfMatch.
RemoveIfMatch(k, f) ==
    IF entry[k].file = f
      THEN /\ entry' = [entry EXCEPT ![k] = NoEntry]
           /\ totalBytes' = IF entry[k].sized THEN totalBytes - Size[k] ELSE totalBytes
           /\ unknownEntries' = IF entry[k].sized THEN unknownEntries ELSE unknownEntries - 1
      ELSE UNCHANGED <<entry, totalBytes, unknownEntries>>

-----------------------------------------------------------------------------
\* getOrAdd: reconciliation

Begin(j, k) ==
    /\ pc[j] = "idle"
    /\ Goto(j, "start")
    /\ key' = [key EXCEPT ![j] = k]
    /\ bind' = [bind EXCEPT ![j] = 0]
    /\ retried' = retried \ {j}
    /\ UNCHANGED <<cacheVars, reconcile, flights, cleanup, sandboxVars, bounds>>

Listed(s, F, imported) == listing' = [state |-> s, files |-> F, imported |-> imported]

\* The first job asks for the list and waits for it; the others do not wait.
Reconcile(j) ==
    /\ pc[j] = "start" /\ ~attempted
    /\ attempted' = TRUE
    /\ Listed("asked", {}, {})
    /\ Goto(j, "waitList")
    /\ UNCHANGED <<cacheVars, flights, cleanup, key, bind, retried, sandboxVars, bounds>>

EndWait == pc' = [j \in Jobs |-> IF pc[j] = "waitList" THEN "lookup" ELSE pc[j]]

FileList ==
    /\ listing.state = "asked"
    /\ Listed("storing", sandbox, {})
    /\ UNCHANGED <<cacheVars, attempted, flights, cleanup, jobVars, sandboxVars, bounds>>

\* A failed list is not asked for again.
FileListFails ==
    /\ listing.state = "asked"
    /\ Fault("list")
    /\ Listed("none", {}, listing.imported)
    /\ EndWait
    /\ UNCHANGED <<cacheVars, attempted, flights, cleanup, key, bind, retried, sandboxVars>>

\* The files are stored one by one, in the order of a Go map.
StoreListed(f) ==
    /\ listing.state = "storing" /\ f \in listing.files
    /\ Listed("storing", listing.files \ {f},
              listing.imported \cup ({f} \ {entry[nameOf[f].key].file}))
    /\ Store(nameOf[f].key, f, nameOf[f].sized)
    /\ UNCHANGED <<reservedBytes, reservedEntries, attempted, flights, cleanup, jobVars,
                   sandboxVars, bounds>>

Reconciled ==
    /\ listing.state = "storing" /\ listing.files = {}
    /\ Listed("none", {}, listing.imported)
    /\ EndWait
    /\ UNCHANGED <<cacheVars, attempted, flights, cleanup, key, bind, retried, sandboxVars,
                   bounds>>

-----------------------------------------------------------------------------
\* getOrAdd: hit, or a load that all jobs of the key share

Ready(j) == pc[j] = "lookup" \/ (pc[j] = "start" /\ attempted)

Hit(j) ==
    /\ Ready(j) /\ Present(key[j])
    /\ Pin(j)
    /\ UNCHANGED <<reconcile, flights, cleanup, key, retried, sandboxVars, bounds>>

Miss(j) ==
    /\ Ready(j) /\ ~Present(key[j])
    /\ Goto(j, "join")
    /\ UNCHANGED <<cacheVars, reconcile, flights, cleanup, key, bind, retried, sandboxVars,
                   bounds>>

\* The entry may have been stored since the lookup.
Join(j) ==
    /\ pc[j] = "join"
    /\ Goto(j, "waitLoad")
    /\ flight' = [flight EXCEPT ![key[j]] = IF flight[key[j]] = "none" THEN "check"
                                                                       ELSE flight[key[j]]]
    /\ UNCHANGED <<cacheVars, reconcile, flying, cleanup, key, bind, retried, sandboxVars,
                   bounds>>

\* Mutant of Land: the result reaches one of the jobs that wait.
LandOnce(k, p) ==
    /\ flight' = [flight EXCEPT ![k] = "none"]
    /\ LET waiting == {j \in Jobs : pc[j] = "waitLoad" /\ key[j] = k}
       IN  IF waiting = {} THEN UNCHANGED pc ELSE Goto(CHOOSE j \in waiting : TRUE, p)

\* The result of a flight reaches every job that waits for it.
Land(k, p) ==
    /\ flight' = [flight EXCEPT ![k] = "none"]
    /\ pc' = [j \in Jobs |-> IF pc[j] = "waitLoad" /\ key[j] = k THEN p ELSE pc[j]]

\* Mutant of Admitted: the uploads in flight are not counted.
AdmittedAlone(k) ==
    /\ unknownEntries = 0
    /\ Cardinality(Entries) < MaxEntries
    /\ totalBytes + Size[k] <= MaxBytes

\* reserve.
Admitted(k) ==
    /\ unknownEntries = 0
    /\ Cardinality(Entries) + reservedEntries < MaxEntries
    /\ totalBytes + reservedBytes + Size[k] <= MaxBytes

\* The entry is there after all; it is pinned and released.
LoadFound(k) ==
    /\ flight[k] = "check" /\ Present(k)
    /\ Use(k, 0)
    /\ Land(k, "repin")
    /\ MaybeScheduleCleanup
    /\ UNCHANGED <<reconcile, flying, key, bind, retried, sandboxVars, bounds>>

\* No room: the jobs send their input along.
LoadDenied(k) ==
    /\ flight[k] = "check" /\ ~Present(k) /\ ~Admitted(k)
    /\ Land(k, "exec")
    /\ UNCHANGED <<cacheVars, reconcile, flying, cleanup, key, bind, retried, sandboxVars,
                   bounds>>

Reserve(k) ==
    /\ flight[k] = "check" /\ ~Present(k) /\ Admitted(k)
    /\ flight' = [flight EXCEPT ![k] = "add"]
    /\ reservedBytes' = reservedBytes + Size[k]
    /\ reservedEntries' = reservedEntries + 1
    /\ UNCHANGED <<entry, totalBytes, unknownEntries, reconcile, flying, cleanup, jobVars,
                   sandboxVars, bounds>>

AddFile(k) ==
    /\ Len(nameOf) < MaxFiles
    /\ nameOf' = Append(nameOf, [key |-> k, sized |-> TRUE])
    /\ sandbox' = sandbox \cup {Len(nameOf) + 1}

FileAdd(k) ==
    /\ flight[k] = "add"
    /\ AddFile(k)
    /\ flight' = [flight EXCEPT ![k] = "store"]
    /\ flying' = [flying EXCEPT ![k] = Len(nameOf) + 1]
    /\ UNCHANGED <<cacheVars, reconcile, cleanup, jobVars, lost, restarts, bounds>>

ReleaseReservation(k) ==
    /\ reservedBytes' = reservedBytes - Size[k]
    /\ reservedEntries' = reservedEntries - 1

\* The call fails, or times out although the file was added.
FileAddFails(k) ==
    /\ flight[k] = "add"
    /\ \/ Fault("add") /\ (AddFile(k) \/ UNCHANGED <<sandbox, nameOf>>)
       \/ Len(nameOf) = MaxFiles /\ UNCHANGED <<sandbox, nameOf, bounds>>
    /\ ReleaseReservation(k)
    /\ Land(k, "exec")
    /\ UNCHANGED <<entry, totalBytes, unknownEntries, reconcile, flying, cleanup, key, bind,
                   retried, lost, restarts>>

StoreAdded(k) ==
    /\ flight[k] = "store"
    /\ Store(k, flying[k], TRUE)
    /\ flight' = [flight EXCEPT ![k] = "return"]
    /\ UNCHANGED <<reservedBytes, reservedEntries, reconcile, flying, cleanup, jobVars,
                   sandboxVars, bounds>>

Loaded(k) ==
    /\ flight[k] = "return"
    /\ ReleaseReservation(k)
    /\ Land(k, "repin")
    /\ flying' = [flying EXCEPT ![k] = 0]
    /\ UNCHANGED <<entry, totalBytes, unknownEntries, reconcile, cleanup, key, bind, retried,
                   sandboxVars, bounds>>

\* The loaded entry is pinned, unless it is gone again.
Repin(j) ==
    /\ pc[j] = "repin"
    /\ IF Present(key[j]) THEN Pin(j) ELSE Goto(j, "exec") /\ UNCHANGED <<cacheVars, bind>>
    /\ UNCHANGED <<reconcile, flights, cleanup, key, retried, sandboxVars, bounds>>

\* A cancelled job goes on without the list, but does not wait for a load.
Cancel(j) ==
    /\ Fault("cancel")
    /\ \/ pc[j] = "waitList" /\ Goto(j, "lookup")
       \/ pc[j] = "waitLoad" /\ Goto(j, "idle")
    /\ UNCHANGED <<cacheVars, reconcile, flights, cleanup, key, bind, retried, sandboxVars>>

-----------------------------------------------------------------------------
\* runBatch

Execute(j) ==
    /\ pc[j] = "exec" /\ bind[j] \in sandbox \cup {0}
    /\ Release(j)
    /\ Goto(j, "idle")
    /\ UNCHANGED <<accounting, reconcile, flights, key, bind, retried, sandboxVars, bounds>>

\* Mutant of ExecuteFails: the error is returned before the pins are released.
ExecuteFailsPinned(j) ==
    /\ pc[j] = "exec"
    /\ Fault("exec")
    /\ Goto(j, "idle")
    /\ UNCHANGED <<entry, accounting, reconcile, flights, cleanup, key, bind, retried,
                   sandboxVars>>

ExecuteFails(j) ==
    /\ pc[j] = "exec"
    /\ Fault("exec")
    /\ Release(j)
    /\ Goto(j, "idle")
    /\ UNCHANGED <<accounting, reconcile, flights, key, bind, retried, sandboxVars>>

\* The pinned file is gone: a file error, which the second time is the verdict.
ExecuteFileError(j) ==
    /\ pc[j] = "exec" /\ bind[j] \notin sandbox \cup {0}
    /\ Release(j)
    /\ Goto(j, IF j \in retried THEN "failed" ELSE "invalidate")
    /\ UNCHANGED <<accounting, reconcile, flights, key, bind, retried, sandboxVars, bounds>>

\* Mutant of InvalidateMissing: the missing file is removed, the batch is not
\* rebuilt.
InvalidateOnly(j) ==
    /\ pc[j] = "invalidate"
    /\ RemoveIfMatch(key[j], bind[j])
    /\ Goto(j, "failed")
    /\ UNCHANGED <<reservedBytes, reservedEntries, reconcile, flights, cleanup, key, bind,
                   retried, sandboxVars, bounds>>

\* invalidateMissing: FileList does not show the file.  The batch is rebuilt
\* if the entry was still that of the file.
InvalidateMissing(j) ==
    /\ pc[j] = "invalidate"
    /\ RemoveIfMatch(key[j], bind[j])
    /\ IF entry[key[j]].file = bind[j]
         THEN /\ Goto(j, "start")
              /\ retried' = retried \cup {j}
              /\ bind' = [bind EXCEPT ![j] = 0]
         ELSE Goto(j, "failed") /\ UNCHANGED <<retried, bind>>
    /\ UNCHANGED <<reservedBytes, reservedEntries, reconcile, flights, cleanup, key,
                   sandboxVars, bounds>>

\* The check for the file fails: no retry.
InvalidateFails(j) ==
    /\ pc[j] = "invalidate"
    /\ Fault("list")
    /\ Goto(j, "failed")
    /\ UNCHANGED <<cacheVars, reconcile, flights, cleanup, key, bind, retried, sandboxVars>>

\* The file error is reported as a runtime error of the submission.
Failed(j) ==
    /\ pc[j] = "failed"
    /\ Goto(j, "idle")
    /\ UNCHANGED <<cacheVars, reconcile, flights, cleanup, key, bind, retried, sandboxVars,
                   bounds>>

-----------------------------------------------------------------------------
\* Clean-up goroutine

OverLimits(K) ==
    \/ Cardinality(Entries \ K) > MaxEntries
    \/ totalBytes - MapThenSumSet(LAMBDA k : IF entry[k].sized THEN Size[k] ELSE 0, K)
         > MaxBytes

Evictable == {k \in Entries : ~entry[k].deleting /\ entry[k].inUse = 0}

\* selectEvictionCandidates: the idle entries and, as long as a limit is
\* exceeded, others in the order of their last use, which may be any.
SelectEvictionCandidates ==
    /\ cleaner = "select"
    /\ \E K \in SUBSET Evictable :
          LET idle == {k \in Evictable : entry[k].idle}
          IN  /\ idle \subseteq K
              /\ OverLimits(K) => K = Evictable
              /\ K # idle => \E k \in K \ idle : OverLimits(K \ {k})
              /\ entry' = [k \in Keys |-> [entry[k] EXCEPT !.deleting = @ \/ k \in K]]
              /\ victims' = {<<k, entry[k].file>> : k \in K}
    /\ cleaner' = "delete"
    /\ UNCHANGED <<accounting, reconcile, flights, jobVars, sandboxVars, bounds>>

\* FileDelete of a candidate, a missing file being no error, and removeIfMatch.
FileDelete(k, f) ==
    /\ cleaner = "delete" /\ <<k, f>> \in victims
    /\ victims' = victims \ {<<k, f>>}
    /\ sandbox' = sandbox \ {f}
    /\ RemoveIfMatch(k, f)
    /\ UNCHANGED <<reservedBytes, reservedEntries, reconcile, flights, cleaner, jobVars,
                   nameOf, lost, restarts, bounds>>

\* markDeleteFailed.
FileDeleteFails(k, f) ==
    /\ cleaner = "delete" /\ <<k, f>> \in victims
    /\ Fault("delete")
    /\ victims' = victims \ {<<k, f>>}
    /\ entry' = IF entry[k].file = f THEN [entry EXCEPT ![k].deleting = FALSE] ELSE entry
    /\ UNCHANGED <<accounting, reconcile, flights, cleaner, jobVars, sandboxVars>>

CleanupDone ==
    /\ cleaner = "delete" /\ victims = {}
    /\ cleaner' = "idle"
    /\ UNCHANGED <<cacheVars, reconcile, flights, victims, jobVars, sandboxVars, bounds>>

-----------------------------------------------------------------------------
\* Environment

\* Some entries are not used for IdleTTL (ten minutes as deployed), far longer
\* than any call takes.
BecomeIdle ==
    /\ pc = [j \in Jobs |-> "idle"] /\ flight = [k \in Keys |-> "none"]
    /\ listing.state = "none" /\ cleaner = "idle"
    /\ \E K \in SUBSET Entries \ {{}} :
          /\ \A k \in K : ~entry[k].idle
          /\ entry' = [k \in Keys |-> [entry[k] EXCEPT !.idle = @ \/ k \in K]]
    /\ UNCHANGED <<accounting, reconcile, flights, cleanup, jobVars, sandboxVars, bounds>>

\* The sandbox forgets its files.  It takes longer to come back than the worker
\* takes to store a list it has received.
SandboxRestart ==
    /\ restarts < MaxSandboxRestarts
    /\ listing.state # "storing"
    /\ restarts' = restarts + 1
    /\ lost' = lost \cup sandbox
    /\ sandbox' = {}
    /\ UNCHANGED <<cacheVars, reconcile, flights, cleanup, jobVars, nameOf, bounds>>

\* The worker forgets its cache.
WorkerRestart ==
    /\ workerRestarts < MaxWorkerRestarts
    /\ workerRestarts' = workerRestarts + 1
    /\ entry' = [k \in Keys |-> NoEntry]
    /\ totalBytes' = 0 /\ unknownEntries' = 0 /\ reservedBytes' = 0 /\ reservedEntries' = 0
    /\ attempted' = FALSE /\ Listed("none", {}, {})
    /\ flight' = [k \in Keys |-> "none"] /\ flying' = [k \in Keys |-> 0]
    /\ cleaner' = "idle" /\ victims' = {}
    /\ pc' = [j \in Jobs |-> "idle"]
    /\ bind' = [j \in Jobs |-> 0]
    /\ retried' = {}
    /\ UNCHANGED <<key, sandboxVars, faults>>

Batch(j) ==
    \/ Reconcile(j) \/ Hit(j) \/ Miss(j) \/ Join(j) \/ Repin(j)
    \/ Execute(j) \/ ExecuteFileError(j) \/ InvalidateMissing(j) \/ Failed(j)

Load(k) ==
    \/ LoadFound(k) \/ LoadDenied(k) \/ Reserve(k) \/ FileAdd(k) \/ FileAddFails(k)
    \/ StoreAdded(k) \/ Loaded(k)

Reconciliation == FileList \/ Reconciled \/ \E f \in Files : StoreListed(f)

Next ==
    \/ \E j \in Jobs :
          \/ Batch(j) \/ ExecuteFails(j) \/ InvalidateFails(j) \/ Cancel(j)
          \/ \E k \in Keys : Begin(j, k)
    \/ \E k \in Keys : Load(k)
    \/ Reconciliation \/ FileListFails
    \/ SelectEvictionCandidates \/ CleanupDone
    \/ \E v \in victims : FileDelete(v[1], v[2]) \/ FileDeleteFails(v[1], v[2])
    \/ BecomeIdle
    \/ SandboxRestart
    \/ WorkerRestart

Spec == Init /\ [][Next]_vars

\* Goroutines are scheduled and every sandbox call ends, if only by its timeout.
FairSpec ==
    /\ Spec
    /\ \A j \in Jobs : WF_vars(Batch(j))
    /\ \A k \in Keys : WF_vars(Load(k))
    /\ WF_vars(Reconciliation)

-----------------------------------------------------------------------------
\* Properties

\* The counters that admit uploads are exact whatever happens meanwhile: an
\* entry is counted once, by its size or as unknown, and a reservation lives
\* exactly as long as its upload.
AccountingExact ==
    /\ totalBytes = MapThenSumSet(LAMBDA k : Size[k], {k \in Entries : entry[k].sized})
    /\ unknownEntries = Cardinality({k \in Entries : ~entry[k].sized})
    /\ LET adding == {k \in Keys : flight[k] \in {"add", "store", "return"}}
       IN  /\ reservedEntries = Cardinality(adding)
           /\ reservedBytes = MapThenSumSet(LAMBDA k : Size[k], adding)

\* An entry whose file the sandbox has carries as many pins as batches use it:
\* none leaks, which would keep it for ever, and none is lost, which would let
\* it be evicted; and no file a batch has pinned is deleted by the clean-up.
PinsExact ==
    /\ \A k \in Entries : entry[k].file \in sandbox => entry[k].inUse =
          Cardinality({j \in Jobs : pc[j] = "exec" /\ key[j] = k /\ bind[j] = entry[k].file})
    /\ \A j \in Jobs : pc[j] = "exec" => bind[j] \in sandbox \cup lost \cup {0}

\* The configured limits are hard for the inputs this worker has uploaded,
\* though uploads of different keys run in parallel.  Entries it learned from
\* the list of files come on top.
HardLimits ==
    LET own == {k \in Entries : entry[k].file \notin listing.imported}
    IN  /\ Cardinality(own) <= MaxEntries
        /\ MapThenSumSet(LAMBDA k : Size[k], own) <= MaxBytes

\* A batch that finds its file gone is rebuilt once before the file error
\* becomes the verdict of a submission.  (The list that shows it gone may
\* fail; then there is no retry.)
StaleRetried == faults = 0 => \A j \in Jobs : pc[j] = "failed" => j \in retried

\* Every batch ends: no job waits for ever for a list or a load, also if the
\* one that started it was cancelled.
BatchesEnd == \A j \in Jobs : pc[j] # "idle" ~> pc[j] = "idle"

=============================================================================
