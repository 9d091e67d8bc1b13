---------------------------- MODULE TestcaseStore ---------------------------
(***************************************************************************)
(* Upload and deletion of a problem's testcase archive in the problem      *)
(* service: the test_cases row and the archives in object storage are      *)
(* changed one after the other, with no transaction around them.           *)
(*                                                                         *)
(* An archive is stored under a key made from its version.  A dataset is   *)
(* the number of the upload that brought it; the row's dataset stands for  *)
(* the test count it records.  TestcaseBundle composes this module with    *)
(* the judge worker that downloads the archives.                           *)
(***************************************************************************)
EXTENDS Integers

CONSTANTS
    Requests,     \* upload and delete requests handled at the same time
    MaxUploads, MaxDeletes,
    MaxFaults,    \* other storage or database errors and crashes
    MaxReadBacks  \* times Upsert fails after its write was committed

ASSUME StoreAssumption ==
    /\ MaxUploads \in Nat
    /\ MaxDeletes \in Nat
    /\ MaxFaults \in Nat
    /\ MaxReadBacks \in Nat

VARIABLES
    rowVersion,   \* test_cases.version, 0: no row
    rowDataset,   \* the dataset test_cases.test_count was taken from
    archive,      \* object storage: dataset under each version's key, or 0
    step,         \* per request: next step
    dataset,      \* per request: what it uploads
    new,          \* per request: version it computed
    old,          \* per request: version it found, 0: none
    uploads, deletes, faults, readBacks

row == <<rowVersion, rowDataset>>
request == <<step, dataset, new, old>>
bounds == <<uploads, deletes, faults, readBacks>>
storeVars == <<row, archive, request, bounds>>

Versions == 1..MaxUploads

StoreInit ==
    /\ rowVersion = 0 /\ rowDataset = 0
    /\ archive = [v \in Versions |-> 0]
    /\ step = [x \in Requests |-> "idle"]
    /\ dataset = [x \in Requests |-> 0]
    /\ new = [x \in Requests |-> 0]
    /\ old = [x \in Requests |-> 0]
    /\ uploads = 0 /\ deletes = 0 /\ faults = 0 /\ readBacks = 0

InjectFault ==
    /\ faults < MaxFaults
    /\ faults' = faults + 1
    /\ UNCHANGED <<uploads, deletes, readBacks>>

Proceed(x, p) == step' = [step EXCEPT ![x] = p]

Store(v, d) == archive' = [archive EXCEPT ![v] = d]

-----------------------------------------------------------------------------
\* UploadTestCase

\* The row is read without a lock; its version decides on the new one.
ReadVersion(x) ==
    /\ step[x] = "idle" /\ uploads < MaxUploads
    /\ uploads' = uploads + 1
    /\ dataset' = [dataset EXCEPT ![x] = uploads + 1]
    /\ new' = [new EXCEPT ![x] = rowVersion + 1]
    /\ old' = [old EXCEPT ![x] = rowVersion]
    /\ Proceed(x, "put")
    /\ UNCHANGED <<row, archive, deletes, faults, readBacks>>

PutArchive(x) ==
    /\ step[x] = "put"
    /\ Store(new[x], dataset[x])
    /\ Proceed(x, "upsert")
    /\ UNCHANGED <<row, dataset, new, old, bounds>>

PutFails(x) ==
    /\ step[x] = "put"
    /\ InjectFault
    /\ Proceed(x, "idle")
    /\ UNCHANGED <<row, archive, dataset, new, old>>

WriteRow(x) == rowVersion' = new[x] /\ rowDataset' = dataset[x]

Upsert(x) ==
    /\ step[x] = "upsert"
    /\ WriteRow(x)
    /\ Proceed(x, IF old[x] # 0 THEN "cleanup" ELSE "idle")
    /\ UNCHANGED <<archive, dataset, new, old, bounds>>

\* Mutant of UpsertFails: the archive it was to replace is deleted.
UpsertFailsDroppingOld(x) ==
    /\ step[x] = "upsert"
    /\ InjectFault
    /\ old[x] # 0 /\ Store(old[x], 0)
    /\ Proceed(x, "idle")
    /\ UNCHANGED <<row, dataset, new, old>>

\* After an error of Upsert the new archive is deleted again, if that works.
UpsertFails(x) ==
    /\ step[x] = "upsert"
    /\ InjectFault
    /\ UNCHANGED archive \/ Store(new[x], 0)
    /\ Proceed(x, "idle")
    /\ UNCHANGED <<row, dataset, new, old>>

\* The error is that of the read that follows the committed write.
ReadBackFails(x) ==
    /\ step[x] = "upsert"
    /\ readBacks < MaxReadBacks
    /\ readBacks' = readBacks + 1
    /\ WriteRow(x)
    /\ UNCHANGED archive \/ Store(new[x], 0)
    /\ Proceed(x, "idle")
    /\ UNCHANGED <<dataset, new, old, uploads, deletes, faults>>

\* The replaced archive is deleted; an error is ignored.
DeleteReplaced(x) ==
    /\ step[x] = "cleanup"
    /\ \/ Store(old[x], 0) /\ UNCHANGED bounds
       \/ UNCHANGED archive /\ InjectFault
    /\ Proceed(x, "idle")
    /\ UNCHANGED <<row, dataset, new, old>>

-----------------------------------------------------------------------------
\* DeleteTestCase

ReadForDelete(x) ==
    /\ step[x] = "idle" /\ deletes < MaxDeletes
    /\ rowVersion # 0
    /\ deletes' = deletes + 1
    /\ old' = [old EXCEPT ![x] = rowVersion]
    /\ Proceed(x, "delArchive")
    /\ UNCHANGED <<row, archive, dataset, new, uploads, faults, readBacks>>

DeleteArchive(x) ==
    /\ step[x] = "delArchive"
    /\ \/ Store(old[x], 0) /\ Proceed(x, "delRow") /\ UNCHANGED bounds
       \/ UNCHANGED archive /\ Proceed(x, "idle") /\ InjectFault
    /\ UNCHANGED <<row, dataset, new, old>>

DeleteRow(x) ==
    /\ step[x] = "delRow"
    /\ \/ rowVersion' = 0 /\ rowDataset' = 0 /\ UNCHANGED bounds
       \/ UNCHANGED row /\ InjectFault
    /\ Proceed(x, "idle")
    /\ UNCHANGED <<archive, dataset, new, old>>

StoreCrash ==
    /\ InjectFault
    /\ step' = [x \in Requests |-> "idle"]
    /\ UNCHANGED <<row, archive, dataset, new, old>>

StoreNext ==
    \/ \E x \in Requests :
          \/ ReadVersion(x) \/ PutArchive(x) \/ PutFails(x)
          \/ Upsert(x) \/ UpsertFails(x) \/ ReadBackFails(x) \/ DeleteReplaced(x)
          \/ ReadForDelete(x) \/ DeleteArchive(x) \/ DeleteRow(x)
    \/ StoreCrash

-----------------------------------------------------------------------------
\* Properties

\* The row never describes another archive than the one under its key: the
\* worker would fail every submission with a count mismatch or judge it with
\* the wrong testcases.  And an upload replaces the testcases without a gap: at
\* every moment, and after every failure or crash, the archive the row names is
\* in storage.  (A deletion removes the archive first, and so does the clean-up
\* after a failed read; the worker then retries.)
ArchiveOfRow ==
    rowVersion # 0 =>
        /\ archive[rowVersion] \in {0, rowDataset}
        /\ deletes = 0 /\ readBacks = 0 => archive[rowVersion] = rowDataset
=============================================================================
