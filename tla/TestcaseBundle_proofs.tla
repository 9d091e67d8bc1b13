----------------------- MODULE TestcaseBundle_proofs ------------------------
(***************************************************************************)
(* Proofs about TestcaseBundle: which archive the row describes, which     *)
(* dataset an execution uses, and that no load finds a part of a bundle.   *)
(***************************************************************************)
EXTENDS TestcaseBundle, FiniteSetTheorems, TLAPS

\* Uploads and deletions of a problem come one after the other.
OneRequest == \A x, y \in Requests : x = y

\* One job slot, as the compose files set it.
OneLoader == \A l, m \in Loaders : l = m

-----------------------------------------------------------------------------
\* Types, for any number of requests and loaders

Steps == {"idle", "put", "upsert", "cleanup", "delArchive", "delRow"}

Pcs == {"idle", "version", "checksum", "download", "remove", "rename", "list", "read", "run",
        "done", "retry", "error"}

Datasets == 0..MaxUploads

StoreTypes ==
    /\ uploads \in Datasets /\ deletes \in Nat /\ readBacks \in Nat
    /\ rowVersion \in Datasets /\ rowVersion <= uploads /\ rowDataset \in Datasets
    /\ rowVersion # 0 => rowDataset # 0
    /\ archive \in [Versions -> Datasets]
    /\ step \in [Requests -> Steps] /\ dataset \in [Requests -> Datasets]
    /\ new \in [Requests -> Datasets] /\ old \in [Requests -> Datasets]
    /\ \A x \in Requests : /\ new[x] <= uploads
                           /\ step[x] \in {"put", "upsert"} => new[x] # 0 /\ dataset[x] # 0

Ended == {"idle", "done", "retry", "error"}

LoadTypes ==
    /\ dirOf \in Datasets /\ dirVersion \in Datasets
    /\ dirOf = 0 => files = {}
    /\ pc \in [Loaders -> Pcs]
    /\ meta \in [Loaders -> Datasets] /\ metaVersion \in [Loaders -> Datasets]
    /\ sum \in [Loaders -> Datasets]
    /\ DOMAIN todo = Loaders /\ DOMAIN used = Loaders
    /\ \A l \in Loaders : /\ pc[l] \notin Ended => meta[l] # 0 /\ metaVersion[l] # 0
                          /\ pc[l] \in {"remove", "rename"} => sum[l] # 0

TypeInv == StoreTypes /\ LoadTypes

-----------------------------------------------------------------------------
\* The archives, with one request

\* What the request x has read still holds.
RequestInv(x) ==
    /\ step[x] \in {"put", "upsert"} => new[x] = rowVersion + 1 /\ old[x] = rowVersion
    /\ step[x] = "upsert" => archive[new[x]] = dataset[x]
    /\ step[x] = "cleanup" => old[x] # rowVersion
    /\ step[x] \in {"delArchive", "delRow"} => deletes > 0

StoreInv == ArchiveOfRow /\ \A x \in Requests : RequestInv(x)

-----------------------------------------------------------------------------
\* The cache directory, with one loader

\* What the load l records is what the directory was made from.
LoadInv(l) ==
    /\ pc[l] = "rename" => dirOf = 0
    /\ pc[l] \in {"list", "read", "run", "done"} => sum[l] # 0 /\ dirOf = sum[l]
    /\ pc[l] \notin {"read", "run", "done", "retry", "error"} => used[l] = {}
    /\ pc[l] = "read" => used[l] \subseteq {sum[l]} /\ (todo[l] # {} \/ used[l] = {sum[l]})
    /\ pc[l] \in {"run", "done"} => used[l] = {sum[l]}

\* Every execution uses the dataset whose checksum is recorded.
DirInv == \A l \in Loaders : LoadInv(l)

-----------------------------------------------------------------------------
\* Versions and datasets, with one of each and as long as nothing was deleted

\* Version v was in the row with dataset d; its key has never had another one since.
Known(v, d) ==
    /\ v # 0 /\ v <= rowVersion
    /\ v = rowVersion => d = rowDataset
    /\ archive[v] \in {0, d}

\* The directory is of no use for the metadata of l: its version is older, or it
\* lacks a file that is looked at before the testcases.
Stale(l) == VersionFile \notin files \/ Archive \notin files \/ dirVersion < metaVersion[l]

Whole == files = FilesOf(dirOf)

\* The metadata of l and the directory are of versions the row had, and a directory
\* of the same version has the same dataset.
Current(l) ==
    /\ metaVersion[l] <= rowVersion
    /\ meta[l] # 0 => Known(metaVersion[l], meta[l])
    /\ dirOf # 0 => /\ dirVersion <= metaVersion[l]
                    /\ dirVersion = metaVersion[l] => dirOf = meta[l]
                    /\ Whole \/ Stale(l)

\* How far l has come: only a stale directory is removed, and only a whole one read.
Progress(l) ==
    /\ pc[l] = "checksum" => VersionFile \in files /\ dirVersion = metaVersion[l]
    /\ pc[l] \in {"download", "remove"} => Stale(l)
    /\ pc[l] \in {"remove", "rename", "list", "read", "run", "done"} => sum[l] = meta[l]
    /\ pc[l] \in {"list", "read", "run"} => Whole
    /\ pc[l] # "error"

FreshLoad(l) == Current(l) /\ Progress(l)

FreshInv ==
    deletes = 0 => /\ dirOf # 0 => Known(dirVersion, dirOf)
                   /\ \A l \in Loaders : FreshLoad(l)

-----------------------------------------------------------------------------
\* Types

\* The constants.
LEMMA Constants == MaxUploads \in Nat /\ \A d \in Datasets : d # 0 => Count[d] \in Nat \ {0}
  BY StoreAssumption, BundleAssumption DEF Datasets

\* The types hold when nothing was uploaded yet.
LEMMA TypeInit ==
    ASSUME Init
    PROVE  TypeInv
  BY Constants DEF Init, StoreInit, TypeInv, StoreTypes, LoadTypes, Steps, Pcs, Datasets,
     Ended

\* An archive is written, or none.
LEMMA ArchiveTypes ==
    ASSUME NEW A \in [Versions -> Datasets], NEW v, NEW d \in Datasets, NEW B,
           B = A \/ B = [A EXCEPT ![v] = d]
    PROVE  /\ B \in [Versions -> Datasets]
           /\ \A u \in Versions : u # v => B[u] = A[u]
           /\ \A u \in Versions : B[u] = A[u] \/ B[u] = d
  BY Zenon

\* A request goes on with what it has read.
LEMMA RequestMoves ==
    ASSUME StoreTypes, NEW x \in Requests, NEW s \in Steps, step' = [step EXCEPT ![x] = s],
           dataset' = dataset, new' = new, old' = old, uploads' = uploads,
           deletes' = deletes, readBacks' \in Nat,
           s \in {"put", "upsert"} => step[x] \in {"put", "upsert"},
           rowVersion' \in Datasets, rowVersion' <= uploads, rowDataset' \in Datasets,
           rowVersion' # 0 => rowDataset' # 0,
           archive' \in [Versions -> Datasets]
    PROVE  StoreTypes'
  <1>1. \A y \in Requests : step'[y] = step[y] \/ (y = x /\ step'[y] = s)
    BY Zenon DEF StoreTypes
  <1>2. step' \in [Requests -> Steps]
    BY Zenon DEF StoreTypes
  <1> QED
    BY Zenon, <1>1, <1>2 DEF StoreTypes

-----------------------------------------------------------------------------
\* Uploads and deletions

\* Versions only grow, and an archive that is or was the row's is not replaced.
Forward ==
    /\ rowVersion <= rowVersion'
    /\ rowVersion' = rowVersion => rowDataset' = rowDataset
    /\ \A v \in Versions : v <= rowVersion => archive'[v] \in {0, archive[v]}

\* What every step of the problem service keeps.
StoreKept ==
    /\ StoreTypes'
    /\ OneRequest /\ StoreInv => StoreInv'
    /\ OneRequest /\ StoreInv /\ deletes' = 0 => deletes = 0 /\ Forward

\* The only request decides.
LEMMA TheRequest ==
    ASSUME NEW x \in Requests, StoreTypes', OneRequest /\ StoreInv => ArchiveOfRow',
           OneRequest /\ StoreInv => RequestInv(x)',
           OneRequest /\ StoreInv /\ deletes' = 0 => deletes = 0 /\ Forward
    PROVE  StoreKept
  BY Zenon DEF StoreKept, StoreInv, OneRequest

\* UploadTestCase reads the version.
LEMMA ReadVersionStep ==
    ASSUME StoreTypes, NEW x \in Requests, ReadVersion(x)
    PROVE  StoreKept
  <1>1. /\ uploads < MaxUploads /\ uploads' = uploads + 1
        /\ dataset' = [dataset EXCEPT ![x] = uploads + 1]
        /\ new' = [new EXCEPT ![x] = rowVersion + 1]
        /\ old' = [old EXCEPT ![x] = rowVersion]
        /\ step' = [step EXCEPT ![x] = "put"]
        /\ rowVersion' = rowVersion /\ rowDataset' = rowDataset /\ archive' = archive
        /\ deletes' = deletes /\ readBacks' = readBacks
    BY Zenon DEF ReadVersion, Proceed, row
  <1>2. /\ uploads \in Nat /\ rowVersion \in Nat /\ rowVersion <= uploads
    BY Constants DEF StoreTypes, Datasets
  <1>3. /\ uploads + 1 \in Datasets /\ rowVersion + 1 \in Datasets
        /\ rowVersion + 1 <= uploads + 1 /\ uploads <= uploads + 1
        /\ uploads + 1 # 0 /\ rowVersion + 1 # 0 /\ rowVersion <= uploads + 1
        /\ rowVersion <= rowVersion
        /\ \A n \in Datasets : n <= uploads => n <= uploads + 1
    BY <1>1, <1>2, Constants DEF Datasets
  <1>4. /\ step'[x] = "put" /\ new'[x] = rowVersion + 1 /\ dataset'[x] = uploads + 1
        /\ old'[x] = rowVersion
        /\ \A y \in Requests : y = x \/ (step'[y] = step[y] /\ new'[y] = new[y]
                                                            /\ dataset'[y] = dataset[y])
    BY Zenon, <1>1 DEF StoreTypes
  <1>5. /\ step' \in [Requests -> Steps] /\ dataset' \in [Requests -> Datasets]
        /\ new' \in [Requests -> Datasets] /\ old' \in [Requests -> Datasets]
    BY Zenon, <1>1, <1>3 DEF StoreTypes, Steps
  <1>6. \A y \in Requests : new'[y] <= uploads'
    BY Zenon, <1>1, <1>3, <1>4 DEF StoreTypes
  <1>7. \A y \in Requests :
            step'[y] \in {"put", "upsert"} => new'[y] # 0 /\ dataset'[y] # 0
    BY Zenon, <1>3, <1>4 DEF StoreTypes
  <1>8. StoreTypes'
    BY Zenon, <1>1, <1>3, <1>5, <1>6, <1>7 DEF StoreTypes
  <1>9. RequestInv(x)'
    BY Zenon, <1>1, <1>4 DEF RequestInv
  <1>10. StoreInv => ArchiveOfRow'
    BY Zenon, <1>1 DEF StoreInv, ArchiveOfRow
  <1>11. Forward
    BY Zenon, <1>1, <1>3 DEF Forward
  <1> QED
    BY Zenon, <1>1, <1>8, <1>9, <1>10, <1>11, TheRequest

\* The archive is put under the key of the new version.
LEMMA PutArchiveStep ==
    ASSUME StoreTypes, NEW x \in Requests, PutArchive(x)
    PROVE  StoreKept
  <1>1. /\ step[x] = "put" /\ archive' = [archive EXCEPT ![new[x]] = dataset[x]]
        /\ step' = [step EXCEPT ![x] = "upsert"]
        /\ rowVersion' = rowVersion /\ rowDataset' = rowDataset
        /\ dataset' = dataset /\ new' = new /\ old' = old
        /\ uploads' = uploads /\ deletes' = deletes /\ readBacks' = readBacks
    BY Zenon DEF PutArchive, Proceed, Store, row, bounds
  <1>2. /\ dataset[x] \in Datasets /\ new[x] \in Datasets /\ new[x] # 0 /\ rowVersion \in Datasets
    BY Zenon, <1>1 DEF StoreTypes
  <1>3. /\ new[x] \in Versions /\ rowVersion <= rowVersion
        /\ \A v \in Datasets : v # 0 => v \in Versions
        /\ \A v \in Versions : v <= rowVersion => v # rowVersion + 1
        /\ rowVersion # rowVersion + 1
    BY <1>2, Constants DEF Datasets, Versions
  <1>4. /\ archive' \in [Versions -> Datasets]
        /\ \A u \in Versions : u # new[x] => archive'[u] = archive[u]
    BY Zenon, <1>1, <1>2, ArchiveTypes DEF StoreTypes
  <1>5. archive'[new[x]] = dataset[x]
    BY Zenon, <1>1, <1>3 DEF StoreTypes
  <1>6. step'[x] = "upsert"
    BY Zenon, <1>1 DEF StoreTypes
  <1>7. StoreTypes'
    BY Zenon, <1>1, <1>4, RequestMoves DEF StoreTypes, Steps
  <1>8. ASSUME OneRequest, StoreInv
        PROVE  ArchiveOfRow' /\ RequestInv(x)' /\ Forward
    <2>1. new[x] = rowVersion + 1 /\ old[x] = rowVersion /\ ArchiveOfRow
      BY Zenon, <1>1, <1>8 DEF StoreInv, RequestInv
    <2>2. rowVersion # 0 => archive'[rowVersion] = archive[rowVersion]
      BY Zenon, <1>2, <1>3, <1>4, <2>1
    <2>3. ArchiveOfRow'
      BY Zenon, <1>1, <2>1, <2>2 DEF ArchiveOfRow
    <2>4. RequestInv(x)'
      BY Zenon, <1>1, <1>5, <1>6, <2>1 DEF RequestInv
    <2>5. \A v \in Versions : v <= rowVersion => archive'[v] = archive[v]
      BY Zenon, <1>3, <1>4, <2>1
    <2>6. Forward
      BY Zenon, <1>1, <1>3, <2>5 DEF Forward
    <2> QED
      BY Zenon, <2>3, <2>4, <2>6
  <1> QED
    BY Zenon, <1>1, <1>7, <1>8, TheRequest

\* A request ends, or goes on to delete the row, and deletes one archive at most:
\* not the row's, unless it is a deletion.
LEMMA QuietStep ==
    ASSUME StoreTypes, NEW x \in Requests, NEW s \in {"idle", "delRow"}, NEW v,
           step' = [step EXCEPT ![x] = s],
           rowVersion' = rowVersion, rowDataset' = rowDataset,
           dataset' = dataset, new' = new, old' = old,
           uploads' = uploads, deletes' = deletes, readBacks' = readBacks,
           archive' = archive \/ archive' = [archive EXCEPT ![v] = 0],
           OneRequest /\ StoreInv /\ archive' # archive => v # rowVersion \/ deletes > 0,
           OneRequest /\ StoreInv /\ s = "delRow" => deletes > 0
    PROVE  StoreKept
  <1>1. /\ 0 \in Datasets /\ rowVersion <= rowVersion /\ (deletes > 0 => deletes # 0)
        /\ \A u \in Datasets : u # 0 => u \in Versions
    BY Constants DEF StoreTypes, Datasets, Versions
  <1>2. /\ archive' \in [Versions -> Datasets]
        /\ \A u \in Versions : u # v => archive'[u] = archive[u]
        /\ \A u \in Versions : archive'[u] \in {0, archive[u]}
    BY Zenon, <1>1, ArchiveTypes DEF StoreTypes
  <1>3. s \in Steps /\ s \notin {"put", "upsert", "cleanup", "delArchive"}
    BY Zenon DEF Steps
  <1>4. StoreTypes'
    BY Zenon, <1>2, <1>3, RequestMoves DEF StoreTypes
  <1>5. step'[x] = s
    BY Zenon DEF StoreTypes
  <1>6. OneRequest /\ StoreInv => RequestInv(x)'
    BY Zenon, <1>3, <1>5 DEF RequestInv
  <1>7. ASSUME OneRequest, StoreInv
        PROVE  ArchiveOfRow'
    <2>1. CASE rowVersion = 0
      BY Zenon, <2>1 DEF ArchiveOfRow
    <2>2. CASE rowVersion # 0
      <3>1. /\ rowVersion \in Versions /\ archive[rowVersion] \in {0, rowDataset}
            /\ deletes = 0 /\ readBacks = 0 => archive[rowVersion] = rowDataset
        BY Zenon, <1>1, <1>7, <2>2 DEF StoreInv, ArchiveOfRow, StoreTypes
      <3>2. archive'[rowVersion] \in {0, archive[rowVersion]}
        BY Zenon, <1>2, <3>1
      <3>3. deletes = 0 => archive'[rowVersion] = archive[rowVersion]
        BY Zenon, <1>1, <1>2, <1>7, <3>1
      <3>4. archive'[rowVersion'] \in {0, rowDataset'}
        BY Zenon, <3>1, <3>2
      <3> QED
        BY Zenon, <3>1, <3>3, <3>4 DEF ArchiveOfRow
    <2> QED
      BY Zenon, <2>1, <2>2
  <1>8. Forward
    BY Zenon, <1>1, <1>2 DEF Forward
  <1> QED
    BY Zenon, <1>4, <1>6, <1>7, <1>8, TheRequest

\* The archive cannot be stored.
LEMMA PutFailsStep ==
    ASSUME StoreTypes, NEW x \in Requests, PutFails(x)
    PROVE  StoreKept
  <1>1. /\ step' = [step EXCEPT ![x] = "idle"] /\ archive' = archive
        /\ rowVersion' = rowVersion /\ rowDataset' = rowDataset
        /\ dataset' = dataset /\ new' = new /\ old' = old
        /\ uploads' = uploads /\ deletes' = deletes /\ readBacks' = readBacks
    BY Zenon DEF PutFails, Proceed, InjectFault, row
  <1> QED
    BY Zenon, <1>1, QuietStep

\* The row cannot be written: the archive of the version it would have had goes.
LEMMA UpsertFailsStep ==
    ASSUME StoreTypes, NEW x \in Requests, UpsertFails(x)
    PROVE  StoreKept
  <1>1. /\ step' = [step EXCEPT ![x] = "idle"] /\ step[x] = "upsert"
        /\ archive' = archive \/ archive' = [archive EXCEPT ![new[x]] = 0]
        /\ rowVersion' = rowVersion /\ rowDataset' = rowDataset
        /\ dataset' = dataset /\ new' = new /\ old' = old
        /\ uploads' = uploads /\ deletes' = deletes /\ readBacks' = readBacks
    BY Zenon DEF UpsertFails, Proceed, InjectFault, Store, row
  <1>2. rowVersion # rowVersion + 1
    BY Constants DEF StoreTypes, Datasets
  <1>3. StoreInv => new[x] # rowVersion
    BY Zenon, <1>1, <1>2 DEF StoreInv, RequestInv
  <1> QED
    BY Zenon, <1>1, <1>3, QuietStep

\* The replaced archive is not the row's any more.
LEMMA DeleteReplacedStep ==
    ASSUME StoreTypes, NEW x \in Requests, DeleteReplaced(x)
    PROVE  StoreKept
  <1>1. /\ step' = [step EXCEPT ![x] = "idle"] /\ step[x] = "cleanup"
        /\ archive' = archive \/ archive' = [archive EXCEPT ![old[x]] = 0]
        /\ rowVersion' = rowVersion /\ rowDataset' = rowDataset
        /\ dataset' = dataset /\ new' = new /\ old' = old
        /\ uploads' = uploads /\ deletes' = deletes /\ readBacks' = readBacks
    BY Zenon DEF DeleteReplaced, Proceed, InjectFault, Store, row, bounds
  <1>2. StoreInv => old[x] # rowVersion
    BY Zenon, <1>1 DEF StoreInv, RequestInv
  <1> QED
    BY Zenon, <1>1, <1>2, QuietStep

\* DeleteTestCase deletes the archive first.
LEMMA DeleteArchiveStep ==
    ASSUME StoreTypes, NEW x \in Requests, DeleteArchive(x)
    PROVE  StoreKept
  <1>1. /\ step[x] = "delArchive"
        /\ \/ step' = [step EXCEPT ![x] = "idle"] /\ archive' = archive
           \/ step' = [step EXCEPT ![x] = "delRow"] /\ archive' = [archive EXCEPT ![old[x]] = 0]
        /\ rowVersion' = rowVersion /\ rowDataset' = rowDataset
        /\ dataset' = dataset /\ new' = new /\ old' = old
        /\ uploads' = uploads /\ deletes' = deletes /\ readBacks' = readBacks
    BY Zenon DEF DeleteArchive, Proceed, InjectFault, Store, row, bounds
  <1>2. StoreInv => deletes > 0
    BY Zenon, <1>1 DEF StoreInv, RequestInv
  <1> QED
    BY Zenon, <1>1, <1>2, QuietStep

\* The row takes the new version, whose archive is in storage; unless the answer is
\* lost, which lets the archive go.
LEMMA RowWritten ==
    ASSUME StoreTypes, NEW x \in Requests, NEW s \in {"idle", "cleanup"}, step[x] = "upsert",
           step' = [step EXCEPT ![x] = s],
           rowVersion' = new[x], rowDataset' = dataset[x],
           dataset' = dataset, new' = new, old' = old, uploads' = uploads, deletes' = deletes,
           \/ archive' = archive /\ readBacks' = readBacks
           \/ /\ archive' = archive \/ archive' = [archive EXCEPT ![new[x]] = 0]
              /\ readBacks' = readBacks + 1
    PROVE  StoreKept
  <1>1. /\ dataset[x] \in Datasets /\ dataset[x] # 0 /\ new[x] \in Datasets /\ new[x] # 0
        /\ new[x] <= uploads /\ rowVersion \in Datasets
    BY Zenon DEF StoreTypes
  <1>2. /\ 0 \in Datasets /\ new[x] \in Versions /\ readBacks + 1 # 0
        /\ readBacks' \in Nat
        /\ rowVersion <= rowVersion + 1 /\ rowVersion + 1 # rowVersion
        /\ \A v \in Versions : v <= rowVersion => v # rowVersion + 1
    BY <1>1, Constants DEF StoreTypes, Datasets, Versions
  <1>3. /\ archive' \in [Versions -> Datasets]
        /\ \A u \in Versions : u # new[x] => archive'[u] = archive[u]
        /\ \A u \in Versions : archive'[u] \in {0, archive[u]}
    BY Zenon, <1>1, <1>2, ArchiveTypes DEF StoreTypes
  <1>4. s \in Steps /\ s \notin {"put", "upsert", "delArchive", "delRow"}
    BY Zenon DEF Steps
  <1>5. StoreTypes'
    BY Zenon, <1>1, <1>2, <1>3, <1>4, RequestMoves
  <1>6. step'[x] = s
    BY Zenon DEF StoreTypes
  <1>7. ASSUME OneRequest, StoreInv
        PROVE  ArchiveOfRow' /\ RequestInv(x)' /\ Forward
    <2>1. /\ new[x] = rowVersion + 1 /\ old[x] = rowVersion
          /\ archive[new[x]] = dataset[x]
      BY Zenon, <1>7 DEF StoreInv, RequestInv
    <2>2. archive'[new[x]] \in {0, dataset[x]}
      BY Zenon, <1>2, <1>3, <2>1
    <2>3. readBacks' = 0 => archive'[new[x]] = dataset[x]
      BY Zenon, <1>2, <2>1
    <2>4. ArchiveOfRow'
      BY Zenon, <2>2, <2>3 DEF ArchiveOfRow
    <2>5. RequestInv(x)'
      BY Zenon, <1>2, <1>4, <1>6, <2>1 DEF RequestInv
    <2>6. rowVersion <= rowVersion' /\ rowVersion' # rowVersion
      BY Zenon, <1>2, <2>1
    <2>7. Forward
      BY Zenon, <1>3, <2>6 DEF Forward
    <2> QED
      BY Zenon, <2>4, <2>5, <2>7
  <1> QED
    BY Zenon, <1>5, <1>7, TheRequest

\* Upsert.
LEMMA UpsertStep ==
    ASSUME StoreTypes, NEW x \in Requests, Upsert(x)
    PROVE  StoreKept
  <1>1. /\ \E s \in {"idle", "cleanup"} : step' = [step EXCEPT ![x] = s]
        /\ step[x] = "upsert" /\ archive' = archive
        /\ rowVersion' = new[x] /\ rowDataset' = dataset[x]
        /\ dataset' = dataset /\ new' = new /\ old' = old
        /\ uploads' = uploads /\ deletes' = deletes /\ readBacks' = readBacks
    BY Zenon DEF Upsert, Proceed, WriteRow, bounds
  <1> QED
    BY Zenon, <1>1, RowWritten

\* Upsert, with an error although the row was written.
LEMMA ReadBackFailsStep ==
    ASSUME StoreTypes, NEW x \in Requests, ReadBackFails(x)
    PROVE  StoreKept
  <1>1. /\ step' = [step EXCEPT ![x] = "idle"] /\ step[x] = "upsert"
        /\ archive' = archive \/ archive' = [archive EXCEPT ![new[x]] = 0]
        /\ rowVersion' = new[x] /\ rowDataset' = dataset[x]
        /\ dataset' = dataset /\ new' = new /\ old' = old
        /\ uploads' = uploads /\ deletes' = deletes /\ readBacks' = readBacks + 1
    BY Zenon DEF ReadBackFails, Proceed, WriteRow, Store
  <1> QED
    BY Zenon, <1>1, RowWritten

\* DeleteTestCase reads the row.
LEMMA ReadForDeleteStep ==
    ASSUME StoreTypes, NEW x \in Requests, ReadForDelete(x)
    PROVE  StoreKept
  <1>1. /\ deletes' = deletes + 1 /\ uploads' = uploads /\ readBacks' = readBacks
        /\ old' = [old EXCEPT ![x] = rowVersion]
        /\ step' = [step EXCEPT ![x] = "delArchive"]
        /\ rowVersion' = rowVersion /\ rowDataset' = rowDataset /\ archive' = archive
        /\ dataset' = dataset /\ new' = new
    BY Zenon DEF ReadForDelete, Proceed, row
  <1>2. deletes + 1 \in Nat /\ deletes + 1 > 0 /\ deletes + 1 # 0
    BY DEF StoreTypes
  <1>3. /\ step'[x] = "delArchive" /\ "delArchive" \notin {"put", "upsert"}
        /\ \A y \in Requests : y = x \/ step'[y] = step[y]
    BY Zenon, <1>1 DEF StoreTypes
  <1>4. old' \in [Requests -> Datasets] /\ step' \in [Requests -> Steps]
    BY Zenon, <1>1 DEF StoreTypes, Steps
  <1>5. StoreTypes'
    BY Zenon, <1>1, <1>2, <1>3, <1>4 DEF StoreTypes
  <1>6. RequestInv(x)'
    BY Zenon, <1>1, <1>2, <1>3 DEF RequestInv
  <1>7. StoreInv => ArchiveOfRow'
    BY Zenon, <1>1, <1>2 DEF StoreInv, ArchiveOfRow
  <1> QED
    BY Zenon, <1>1, <1>2, <1>5, <1>6, <1>7, TheRequest

\* DeleteTestCase deletes the row.
LEMMA DeleteRowStep ==
    ASSUME StoreTypes, NEW x \in Requests, DeleteRow(x)
    PROVE  StoreKept
  <1>1. /\ step' = [step EXCEPT ![x] = "idle"] /\ step[x] = "delRow"
        /\ \/ rowVersion' = 0 /\ rowDataset' = 0
           \/ rowVersion' = rowVersion /\ rowDataset' = rowDataset
        /\ archive' = archive /\ dataset' = dataset /\ new' = new /\ old' = old
        /\ uploads' = uploads /\ deletes' = deletes /\ readBacks' = readBacks
    BY Zenon DEF DeleteRow, Proceed, InjectFault, row, bounds
  <1>2. CASE rowVersion' = rowVersion /\ rowDataset' = rowDataset
    BY Zenon, <1>1, <1>2, QuietStep
  <1>3. CASE rowVersion' = 0 /\ rowDataset' = 0
    <2>1. 0 \in Datasets /\ 0 <= uploads /\ (deletes > 0 => deletes # 0)
      BY Constants DEF StoreTypes, Datasets
    <2>2. "idle" \in Steps /\ "idle" \notin {"put", "upsert", "cleanup", "delArchive", "delRow"}
      BY Zenon DEF Steps
    <2>3. StoreTypes'
      BY Zenon, <1>1, <1>3, <2>1, <2>2, RequestMoves DEF StoreTypes
    <2>4. step'[x] = "idle"
      BY Zenon, <1>1 DEF StoreTypes
    <2>5. RequestInv(x)'
      BY Zenon, <2>2, <2>4 DEF RequestInv
    <2>6. ArchiveOfRow'
      BY Zenon, <1>3 DEF ArchiveOfRow
    <2>7. StoreInv => deletes # 0
      BY Zenon, <1>1, <2>1 DEF StoreInv, RequestInv
    <2> QED
      BY Zenon, <1>1, <2>3, <2>5, <2>6, <2>7, TheRequest
  <1> QED
    BY Zenon, <1>1, <1>2, <1>3

\* The problem service crashes: row and archives stay as they are.
LEMMA StoreCrashStep ==
    ASSUME StoreTypes, StoreCrash
    PROVE  StoreKept
  <1>1. /\ step' = [x \in Requests |-> "idle"] /\ archive' = archive
        /\ rowVersion' = rowVersion /\ rowDataset' = rowDataset
        /\ dataset' = dataset /\ new' = new /\ old' = old
        /\ uploads' = uploads /\ deletes' = deletes /\ readBacks' = readBacks
    BY Zenon DEF StoreCrash, InjectFault, row
  <1>2. /\ \A x \in Requests : step'[x] = "idle"
        /\ "idle" \in Steps /\ "idle" \notin {"put", "upsert", "cleanup", "delArchive", "delRow"}
    BY Zenon, <1>1 DEF Steps
  <1>3. StoreTypes'
    BY Zenon, <1>1, <1>2 DEF StoreTypes
  <1>4. StoreInv => StoreInv'
    BY Zenon, <1>1, <1>2 DEF StoreInv, RequestInv, ArchiveOfRow
  <1>5. rowVersion <= rowVersion
    BY Constants DEF StoreTypes, Datasets
  <1>6. Forward
    BY Zenon, <1>1, <1>5 DEF Forward
  <1> QED
    BY Zenon, <1>1, <1>3, <1>4, <1>6 DEF StoreKept

\* Every step of the problem service.
LEMMA StoreStep ==
    ASSUME StoreTypes, StoreNext
    PROVE  StoreKept
  <1>1. ASSUME NEW x \in Requests
        PROVE  ReadVersion(x) \/ PutArchive(x) \/ PutFails(x) \/ Upsert(x) \/ UpsertFails(x)
                  \/ ReadBackFails(x) \/ DeleteReplaced(x) \/ ReadForDelete(x)
                  \/ DeleteArchive(x) \/ DeleteRow(x) => StoreKept
    BY Zenon, ReadVersionStep, PutArchiveStep, PutFailsStep, UpsertStep, UpsertFailsStep,
       ReadBackFailsStep, DeleteReplacedStep, ReadForDeleteStep, DeleteArchiveStep, DeleteRowStep
  <1> QED
    BY Zenon, <1>1, StoreCrashStep DEF StoreNext

-----------------------------------------------------------------------------
\* Loads, while the problem service goes on

\* What was known of a version stays so.
LEMMA KnownKept ==
    ASSUME StoreTypes, StoreTypes', Forward, NEW v \in Datasets, NEW d, Known(v, d)
    PROVE  Known(v, d)'
  <1>1. /\ v # 0 /\ v <= rowVersion /\ (v = rowVersion => d = rowDataset) /\ archive[v] \in {0, d}
        /\ rowVersion <= rowVersion' /\ rowVersion \in Datasets /\ rowVersion' \in Datasets
        /\ rowVersion' = rowVersion => rowDataset' = rowDataset
    BY Zenon DEF StoreTypes, Forward, Known
  <1>2. v \in Versions /\ v <= rowVersion' /\ (v = rowVersion' => v = rowVersion)
    BY <1>1, Constants DEF Datasets, Versions
  <1>3. archive'[v] \in {0, archive[v]}
    BY Zenon, <1>1, <1>2 DEF Forward
  <1> QED
    BY Zenon, <1>1, <1>2, <1>3 DEF Known

\* The loads and the directory are as they were, and what they know is still true.
LEMMA StoreKeepsLoads ==
    ASSUME TypeInv, StoreNext, UNCHANGED <<crashes, cache, load>>
    PROVE  /\ TypeInv'
           /\ OneRequest /\ StoreInv => StoreInv'
           /\ DirInv => DirInv'
           /\ OneRequest /\ StoreInv /\ FreshInv => FreshInv'
  <1>1. /\ dirOf' = dirOf /\ dirVersion' = dirVersion /\ files' = files /\ pc' = pc
        /\ meta' = meta /\ metaVersion' = metaVersion /\ sum' = sum /\ todo' = todo
        /\ used' = used
    BY Zenon DEF cache, load
  <1>2. StoreKept
    BY Zenon, StoreStep DEF TypeInv
  <1>3. LoadTypes'
    BY Zenon, <1>1 DEF TypeInv, LoadTypes
  <1>4. DirInv => DirInv'
    BY Zenon, <1>1 DEF DirInv, LoadInv
  <1>5. ASSUME OneRequest, StoreInv, FreshInv, deletes' = 0
        PROVE  (dirOf # 0 => Known(dirVersion, dirOf)') /\ \A l \in Loaders : FreshLoad(l)'
    <2>1. deletes = 0 /\ Forward /\ StoreTypes /\ StoreTypes'
      BY Zenon, <1>2, <1>5 DEF StoreKept, TypeInv
    <2>2. \A v \in Datasets : \A d : Known(v, d) => Known(v, d)'
      BY Zenon, <2>1, KnownKept
    <2>3. dirOf # 0 => Known(dirVersion, dirOf)'
      BY Zenon, <1>1, <1>5, <2>1, <2>2 DEF FreshInv, TypeInv, LoadTypes
    <2>4. ASSUME NEW l \in Loaders
          PROVE  FreshLoad(l)'
      <3>1. FreshLoad(l) /\ metaVersion[l] \in Datasets
        BY Zenon, <1>5, <2>1 DEF FreshInv, TypeInv, LoadTypes
      <3>2. meta[l] # 0 => Known(metaVersion[l], meta[l])'
        BY Zenon, <1>1, <2>2, <3>1 DEF FreshLoad, Current
      <3>3. /\ rowVersion <= rowVersion' /\ rowVersion \in Datasets /\ rowVersion' \in Datasets
            /\ metaVersion[l] <= rowVersion
        BY Zenon, <2>1, <3>1 DEF Forward, StoreTypes, FreshLoad, Current
      <3>4. metaVersion[l] <= rowVersion'
        BY <3>1, <3>3, Constants DEF Datasets
      <3> QED
        BY Zenon, <1>1, <3>1, <3>2, <3>4 DEF FreshLoad, Current, Progress, Stale, Whole
    <2> QED
      BY Zenon, <2>3, <2>4
  <1>6. OneRequest /\ StoreInv /\ FreshInv => FreshInv'
    BY Zenon, <1>1, <1>5 DEF FreshInv
  <1> QED
    BY Zenon, <1>2, <1>3, <1>4, <1>6 DEF TypeInv, StoreKept

-----------------------------------------------------------------------------
\* Steps of a load

\* The row and the archives are not touched.
StoreSame == rowVersion' = rowVersion /\ rowDataset' = rowDataset /\ archive' = archive
             /\ deletes' = deletes

CacheSame == dirOf' = dirOf /\ dirVersion' = dirVersion /\ files' = files

\* What every step of a load keeps.
LoadKept ==
    /\ LoadTypes'
    /\ OneLoader /\ DirInv => DirInv'
    /\ OneLoader /\ StoreInv /\ DirInv /\ FreshInv => FreshInv'

\* What is known before a step of the load l, if nothing was deleted.
Before(l) == OneLoader /\ ArchiveOfRow /\ LoadInv(l) /\ FreshLoad(l)
             /\ (dirOf # 0 => Known(dirVersion, dirOf))

\* What is to be shown of it.
After(l) == FreshLoad(l)' /\ (dirOf' # 0 => Known(dirVersion, dirOf)')

\* The only load decides.
LEMMA TheLoad ==
    ASSUME NEW l \in Loaders, LoadTypes', deletes' = deletes,
           OneLoader /\ LoadInv(l) => LoadInv(l)',
           Before(l) => After(l)
    PROVE  LoadKept
  <1>1. OneLoader /\ DirInv => DirInv'
    BY Zenon DEF DirInv, OneLoader
  <1>2. OneLoader /\ StoreInv /\ DirInv /\ FreshInv => FreshInv'
    BY Zenon DEF DirInv, OneLoader, StoreInv, FreshInv, Before, After
  <1> QED
    BY Zenon, <1>1, <1>2 DEF LoadKept

\* A version is known as long as the row and the archives stay.
LEMMA SameKnown ==
    ASSUME StoreSame
    PROVE  \A v, d : Known(v, d) => Known(v, d)'
  BY Zenon DEF StoreSame, Known

\* A load goes on with the metadata it has read.
LEMMA LoadMoves ==
    ASSUME LoadTypes, NEW l \in Loaders, NEW p \in Pcs, pc' = [pc EXCEPT ![l] = p],
           meta' = meta, metaVersion' = metaVersion,
           p \notin Ended => pc[l] \notin Ended,
           NEW d \in Datasets, sum' = sum \/ sum' = [sum EXCEPT ![l] = d],
           p \in {"remove", "rename"} => sum'[l] # 0,
           DOMAIN todo' = Loaders, DOMAIN used' = Loaders,
           dirOf' \in Datasets, dirVersion' \in Datasets, dirOf' = 0 => files' = {}
    PROVE  /\ LoadTypes'
           /\ pc'[l] = p
  <1>1. pc'[l] = p /\ \A m \in Loaders : m # l => pc'[m] = pc[m] /\ sum'[m] = sum[m]
    BY Zenon DEF LoadTypes
  <1>2. pc' \in [Loaders -> Pcs] /\ sum' \in [Loaders -> Datasets]
    BY Zenon DEF LoadTypes
  <1>3. \A m \in Loaders : /\ pc'[m] \notin Ended => meta[m] # 0 /\ metaVersion[m] # 0
                           /\ pc'[m] \in {"remove", "rename"} => sum'[m] # 0
    BY Zenon, <1>1 DEF LoadTypes
  <1> QED
    BY Zenon, <1>1, <1>2, <1>3 DEF LoadTypes

\* ... and leaves the directory alone.
LEMMA LoadGoesOn ==
    ASSUME TypeInv, CacheSame, NEW l \in Loaders, NEW p \in Pcs, pc' = [pc EXCEPT ![l] = p],
           meta' = meta, metaVersion' = metaVersion,
           p \notin Ended => pc[l] \notin Ended,
           sum' = sum \/ \E d \in Datasets : sum' = [sum EXCEPT ![l] = d],
           p \in {"remove", "rename"} => sum'[l] # 0,
           DOMAIN todo' = DOMAIN todo, DOMAIN used' = DOMAIN used
    PROVE  LoadTypes' /\ pc'[l] = p
  <1>1. LoadTypes /\ 0 \in Datasets
    BY Constants DEF TypeInv, Datasets
  <1>2. PICK d \in Datasets : sum' = sum \/ sum' = [sum EXCEPT ![l] = d]
    BY Zenon, <1>1
  <1>3. /\ DOMAIN todo' = Loaders /\ DOMAIN used' = Loaders
        /\ dirOf' \in Datasets /\ dirVersion' \in Datasets /\ (dirOf' = 0 => files' = {})
    BY Zenon, <1>1 DEF LoadTypes, CacheSame
  <1> QED
    BY Zenon, <1>1, <1>2, <1>3, LoadMoves

\* GetTestCaseMetadata.
LEMMA ReadMetadataStep ==
    ASSUME TypeInv, NEW l \in Loaders, ReadMetadata(l)
    PROVE  LoadKept
  <1>1. /\ pc[l] = "idle" /\ rowVersion # 0 /\ pc' = [pc EXCEPT ![l] = "version"]
        /\ meta' = [meta EXCEPT ![l] = rowDataset]
        /\ metaVersion' = [metaVersion EXCEPT ![l] = rowVersion]
        /\ sum' = sum /\ todo' = todo /\ used' = used /\ StoreSame /\ CacheSame
    BY Zenon DEF ReadMetadata, Goto, StoreSame, CacheSame, storeVars, row, bounds, cache
  <1>2. /\ pc'[l] = "version" /\ meta'[l] = rowDataset /\ metaVersion'[l] = rowVersion
        /\ \A m \in Loaders : m = l \/ (pc'[m] = pc[m] /\ meta'[m] = meta[m]
                                        /\ metaVersion'[m] = metaVersion[m])
    BY Zenon, <1>1 DEF TypeInv, LoadTypes
  <1>3. /\ pc' \in [Loaders -> Pcs] /\ meta' \in [Loaders -> Datasets]
        /\ metaVersion' \in [Loaders -> Datasets]
        /\ rowDataset # 0
    BY Zenon, <1>1 DEF TypeInv, StoreTypes, LoadTypes, Pcs
  <1>4. LoadTypes'
    BY Zenon, <1>1, <1>2, <1>3 DEF TypeInv, LoadTypes, CacheSame
  <1>5. LoadInv(l) => LoadInv(l)'
    BY Zenon, <1>1, <1>2 DEF LoadInv
  <1>6. ASSUME Before(l)
        PROVE  After(l)
    <2>1. /\ dirOf # 0 => Known(dirVersion, dirOf) /\ (Whole \/ Stale(l))
          /\ metaVersion[l] <= rowVersion
          /\ ArchiveOfRow
      BY Zenon, <1>6 DEF Before, FreshLoad, Current
    <2>2. /\ rowVersion <= rowVersion
          /\ dirVersion < metaVersion[l] => dirVersion < rowVersion
      <3>1. dirVersion \in Datasets /\ metaVersion[l] \in Datasets /\ rowVersion \in Datasets
        BY Zenon DEF TypeInv, LoadTypes, StoreTypes
      <3> QED
        BY <2>1, <3>1, Constants DEF Datasets
    <2>3. Known(rowVersion, rowDataset)
      BY Zenon, <1>1, <2>1, <2>2 DEF Known, ArchiveOfRow
    <2>4. dirOf' # 0 => Known(dirVersion, dirOf)'
      BY Zenon, <1>1, <2>1, SameKnown DEF CacheSame
    <2>5. dirOf # 0 => dirVersion <= rowVersion /\ (dirVersion = rowVersion => dirOf = rowDataset)
      BY Zenon, <2>1 DEF Known
    <2>6. dirOf # 0 => Whole' \/ Stale(l)'
      BY Zenon, <1>1, <1>2, <2>1, <2>2 DEF Whole, Stale, CacheSame
    <2>7. (Known(metaVersion[l], meta[l]))'
      BY Zenon, <1>1, <1>2, <2>3 DEF Known, StoreSame
    <2>8. FreshLoad(l)'
      BY Zenon, <1>1, <1>2, <2>2, <2>5, <2>6, <2>7
         DEF FreshLoad, Current, Progress, CacheSame, StoreSame
    <2> QED
      BY Zenon, <2>4, <2>8 DEF After
  <1> QED
    BY Zenon, <1>1, <1>4, <1>5, <1>6, TheLoad DEF StoreSame

\* A step that leaves the metadata and the directory alone.
LEMMA SameDir ==
    ASSUME NEW l, StoreSame, CacheSame, meta' = meta, metaVersion' = metaVersion,
           Before(l) => Progress(l)'
    PROVE  Before(l) => After(l)
  <1>1. Before(l) => Current(l)'
    BY Zenon, SameKnown
       DEF Before, FreshLoad, Current, Stale, Whole, CacheSame, StoreSame
  <1>2. Before(l) => (dirOf' # 0 => Known(dirVersion, dirOf)')
    BY Zenon, SameKnown DEF Before, CacheSame
  <1> QED
    BY Zenon, <1>1, <1>2 DEF After, FreshLoad

\* The version file of the cache directory is compared with the metadata.
LEMMA ReadVersionFileStep ==
    ASSUME TypeInv, NEW l \in Loaders, ReadVersionFile(l)
    PROVE  LoadKept
  <1>1. PICK p \in {"checksum", "download"} :
            /\ pc' = [pc EXCEPT ![l] = p]
            /\ p = "checksum" <=> VersionFile \in files /\ dirVersion = metaVersion[l]
    BY Zenon DEF ReadVersionFile, Goto
  <1>2. /\ pc[l] = "version" /\ meta' = meta /\ metaVersion' = metaVersion
        /\ sum' = sum /\ todo' = todo /\ used' = used /\ StoreSame /\ CacheSame
    BY Zenon DEF ReadVersionFile, StoreSame, CacheSame, storeVars, row, bounds, cache
  <1>3. p \in Pcs /\ "version" \notin Ended /\ p \notin {"remove", "rename"} /\ 0 \in Datasets
    BY Constants DEF Pcs, Ended, Datasets
  <1>4. LoadTypes' /\ pc'[l] = p
    BY Zenon, <1>1, <1>2, <1>3, LoadGoesOn
  <1>5. LoadInv(l) => LoadInv(l)'
    BY Zenon, <1>2, <1>4 DEF LoadInv
  <1>6. ASSUME Before(l)
        PROVE  Progress(l)'
    <2>1. /\ dirVersion \in Datasets /\ metaVersion[l] \in Datasets
          /\ dirOf = 0 => VersionFile \notin files
          /\ dirOf # 0 => dirVersion <= metaVersion[l]
      BY Zenon, <1>6 DEF TypeInv, LoadTypes, Before, FreshLoad, Current
    <2>2. dirOf # 0 => dirVersion = metaVersion[l] \/ dirVersion < metaVersion[l]
      BY <2>1, Constants DEF Datasets
    <2>3. p = "download" => Stale(l)
      BY Zenon, <1>1, <2>1, <2>2 DEF Stale
    <2> QED
      BY Zenon, <1>1, <1>2, <1>4, <2>3 DEF Progress, Stale, CacheSame
  <1> QED
    BY Zenon, <1>2, <1>4, <1>5, <1>6, SameDir, TheLoad DEF StoreSame

\* verifiedCachedChecksum: whatever has all that is looked at is whole.
LEMMA VerifyChecksumStep ==
    ASSUME TypeInv, NEW l \in Loaders, VerifyChecksum(l)
    PROVE  LoadKept
  <1>1. PICK p \in {"list", "download"} :
            /\ pc' = [pc EXCEPT ![l] = p]
            /\ p = "list" => Archive \in files /\ sum' = [sum EXCEPT ![l] = dirOf]
            /\ p = "download" => Archive \notin files /\ sum' = sum
    BY Zenon DEF VerifyChecksum, Goto
  <1>2. /\ pc[l] = "checksum" /\ meta' = meta /\ metaVersion' = metaVersion
        /\ todo' = todo /\ used' = used /\ StoreSame /\ CacheSame
    BY Zenon DEF VerifyChecksum, StoreSame, CacheSame, storeVars, row, bounds, cache
  <1>3. p \in Pcs /\ "checksum" \notin Ended /\ p \notin {"remove", "rename"}
    BY Zenon DEF Pcs, Ended
  <1>4. LoadTypes' /\ pc'[l] = p
    <2>1. sum' = sum \/ \E e \in Datasets : sum' = [sum EXCEPT ![l] = e]
      BY Zenon, <1>1 DEF TypeInv, LoadTypes
    <2>2. pc' = [pc EXCEPT ![l] = p] /\ DOMAIN todo' = DOMAIN todo /\ DOMAIN used' = DOMAIN used
      BY Zenon, <1>1, <1>2
    <2> QED
      BY Zenon, <1>2, <1>3, <2>1, <2>2, LoadGoesOn
  <1>5. p = "list" => sum'[l] = dirOf /\ dirOf # 0
    BY Zenon, <1>1 DEF TypeInv, LoadTypes
  <1>6. LoadInv(l) => LoadInv(l)'
    BY Zenon, <1>1, <1>2, <1>4, <1>5 DEF LoadInv, CacheSame
  <1>7. ASSUME Before(l)
        PROVE  Progress(l)'
    <2>1. /\ VersionFile \in files /\ dirVersion = metaVersion[l]
          /\ dirOf # 0 => dirOf = meta[l] /\ (Whole \/ Stale(l))
      BY Zenon, <1>2, <1>7 DEF Before, FreshLoad, Current, Progress
    <2>2. ~(dirVersion < metaVersion[l])
      <3>1. metaVersion[l] \in Datasets
        BY Zenon DEF TypeInv, LoadTypes
      <3> QED
        BY <2>1, <3>1, Constants DEF Datasets
    <2>3. p = "list" => Whole /\ dirOf = meta[l]
      BY Zenon, <1>1, <1>5, <2>1, <2>2 DEF Stale
    <2>4. p = "download" => Stale(l)
      BY Zenon, <1>1 DEF Stale
    <2> QED
      BY Zenon, <1>1, <1>2, <1>4, <1>5, <2>3, <2>4 DEF Progress, Stale, Whole, CacheSame
  <1> QED
    BY Zenon, <1>2, <1>4, <1>6, <1>7, SameDir, TheLoad DEF StoreSame

\* The archive under the key of the version is that of the metadata, or gone.
LEMMA DownloadStep ==
    ASSUME TypeInv, NEW l \in Loaders, Download(l)
    PROVE  LoadKept
  <1> DEFINE d == archive[metaVersion[l]]
  <1>1. PICK p \in {"remove", "error", "retry"} :
            /\ pc' = [pc EXCEPT ![l] = p]
            /\ p = "retry" => sum' = sum
            /\ p # "retry" => d # 0 /\ sum' = [sum EXCEPT ![l] = d]
            /\ p = "error" => Count[d] # Count[meta[l]]
    BY Zenon DEF Download, Goto
  <1>2. /\ pc[l] = "download" /\ meta' = meta /\ metaVersion' = metaVersion
        /\ todo' = todo /\ used' = used /\ StoreSame /\ CacheSame
    BY Zenon DEF Download, StoreSame, CacheSame, storeVars, row, bounds, cache
  <1>3. p \in Pcs /\ "download" \notin Ended /\ p # "rename"
    BY Zenon DEF Pcs, Ended
  <1>4. metaVersion[l] \in Datasets /\ metaVersion[l] # 0 /\ meta[l] # 0
    BY Zenon, <1>2, <1>3 DEF TypeInv, LoadTypes
  <1>5. metaVersion[l] \in Versions
    BY <1>4, Constants DEF Datasets, Versions
  <1>6. d \in Datasets
    BY Zenon, <1>5 DEF TypeInv, StoreTypes
  <1>7. p # "retry" => sum'[l] = d /\ d # 0
    BY Zenon, <1>1 DEF TypeInv, LoadTypes
  <1>8. LoadTypes' /\ pc'[l] = p
    <2> HIDE DEF d
    <2>1. sum' = sum \/ \E e \in Datasets : sum' = [sum EXCEPT ![l] = e]
      BY Zenon, <1>1, <1>6
    <2>2. p \in {"remove", "rename"} => sum'[l] # 0
      BY Zenon, <1>7
    <2>3. pc' = [pc EXCEPT ![l] = p] /\ DOMAIN todo' = DOMAIN todo /\ DOMAIN used' = DOMAIN used
      BY Zenon, <1>1, <1>2
    <2> QED
      BY Zenon, <1>2, <1>3, <2>1, <2>2, <2>3, LoadGoesOn
  <1>9. LoadInv(l) => LoadInv(l)'
    BY Zenon, <1>1, <1>2, <1>8 DEF LoadInv
  <1>10. ASSUME Before(l)
         PROVE  Progress(l)'
    <2>1. d \in {0, meta[l]} /\ Stale(l)
      BY Zenon, <1>2, <1>4, <1>10 DEF Before, FreshLoad, Current, Progress, Known
    <2>2. p # "retry" => d = meta[l]
      BY Zenon, <1>1, <2>1
    <2>3. p # "error"
      BY Zenon, <1>1, <2>2
    <2> QED
      BY Zenon, <1>1, <1>2, <1>7, <1>8, <2>1, <2>2, <2>3 DEF Progress, Stale, CacheSame
  <1> QED
    BY Zenon, <1>2, <1>8, <1>9, <1>10, SameDir, TheLoad DEF StoreSame

\* RemoveAll, one file at a time: a stale directory stays stale.
LEMMA RemoveFileStep ==
    ASSUME TypeInv, NEW l \in Loaders, RemoveFile(l)
    PROVE  LoadKept
  <1>1. /\ pc[l] = "remove" /\ pc' = pc /\ meta' = meta /\ metaVersion' = metaVersion
        /\ sum' = sum /\ todo' = todo /\ used' = used /\ StoreSame /\ dirOf # 0
        /\ \/ files' \subseteq files /\ dirOf' = dirOf /\ dirVersion' = dirVersion
           \/ files' = {} /\ dirOf' = 0 /\ dirVersion' = 0
    BY Zenon DEF RemoveFile, StoreSame, storeVars, row, bounds, load
  <1>2. 0 \in Datasets
    BY Constants DEF Datasets
  <1>3. LoadTypes'
    BY Zenon, <1>1, <1>2 DEF TypeInv, LoadTypes
  <1>4. LoadInv(l) => LoadInv(l)'
    BY Zenon, <1>1 DEF LoadInv
  <1>5. ASSUME Before(l)
        PROVE  After(l)
    <2>1. Stale(l) /\ Current(l) /\ sum[l] = meta[l] /\ Known(dirVersion, dirOf)
      BY Zenon, <1>1, <1>5 DEF Before, FreshLoad, Progress
    <2>2. Stale(l)'
      BY Zenon, <1>1, <2>1 DEF Stale
    <2>3. Current(l)'
      BY Zenon, <1>1, <2>1, <2>2, SameKnown DEF Current, StoreSame
    <2>4. Progress(l)'
      BY Zenon, <1>1, <2>1, <2>2 DEF Progress
    <2>5. dirOf' # 0 => Known(dirVersion, dirOf)'
      BY Zenon, <1>1, <2>1, SameKnown
    <2> QED
      BY Zenon, <2>3, <2>4, <2>5 DEF After, FreshLoad
  <1> QED
    BY Zenon, <1>1, <1>3, <1>4, <1>5, TheLoad DEF StoreSame

\* The directory is gone.
LEMMA RemovedAllStep ==
    ASSUME TypeInv, NEW l \in Loaders, RemovedAll(l)
    PROVE  LoadKept
  <1>1. /\ pc[l] = "remove" /\ dirOf = 0 /\ pc' = [pc EXCEPT ![l] = "rename"]
        /\ meta' = meta /\ metaVersion' = metaVersion
        /\ sum' = sum /\ todo' = todo /\ used' = used /\ StoreSame /\ CacheSame
    BY Zenon DEF RemovedAll, Goto, StoreSame, CacheSame, storeVars, row, bounds, cache
  <1>2. "rename" \in Pcs /\ "remove" \notin Ended /\ 0 \in Datasets
    BY Constants DEF Pcs, Ended, Datasets
  <1>3. sum'[l] # 0
    BY Zenon, <1>1 DEF TypeInv, LoadTypes
  <1>4. LoadTypes' /\ pc'[l] = "rename"
    BY Zenon, <1>1, <1>2, <1>3, LoadGoesOn
  <1>5. LoadInv(l) => LoadInv(l)'
    BY Zenon, <1>1, <1>4 DEF LoadInv, CacheSame
  <1>6. Before(l) => Progress(l)'
    BY Zenon, <1>1, <1>4 DEF Before, FreshLoad, Progress
  <1> QED
    BY Zenon, <1>1, <1>4, <1>5, <1>6, SameDir, TheLoad DEF StoreSame

\* Rename: the directory appears with all its files.
LEMMA PromoteStep ==
    ASSUME TypeInv, NEW l \in Loaders, Promote(l)
    PROVE  LoadKept
  <1>1. /\ pc[l] = "rename" /\ meta' = meta /\ metaVersion' = metaVersion
        /\ sum' = sum /\ todo' = todo /\ used' = used /\ StoreSame
        /\ \/ /\ dirOf' = sum[l] /\ dirVersion' = metaVersion[l] /\ files' = FilesOf(sum[l])
              /\ pc' = [pc EXCEPT ![l] = "list"]
           \/ files # {} /\ pc' = [pc EXCEPT ![l] = "retry"] /\ CacheSame
    BY Zenon DEF Promote, Goto, StoreSame, CacheSame, storeVars, row, bounds, cache
  <1>2. /\ "rename" \notin Ended /\ 0 \in Datasets /\ "list" \in Pcs /\ "retry" \in Pcs
        /\ "list" \notin {"remove", "rename"} /\ "retry" \notin {"remove", "rename"}
    BY Constants DEF Pcs, Ended, Datasets
  <1>3. /\ sum[l] # 0 /\ sum[l] \in Datasets /\ metaVersion[l] \in Datasets
        /\ meta[l] # 0 /\ metaVersion[l] # 0
    BY Zenon, <1>1, <1>2 DEF TypeInv, LoadTypes
  <1>4. CASE files # {} /\ pc' = [pc EXCEPT ![l] = "retry"] /\ CacheSame
    <2>1. LoadTypes' /\ pc'[l] = "retry"
      BY Zenon, <1>1, <1>2, <1>4, LoadGoesOn
    <2>2. LoadInv(l)' /\ Progress(l)'
      BY Zenon, <2>1 DEF LoadInv, Progress
    <2> QED
      BY Zenon, <1>1, <1>4, <2>1, <2>2, SameDir, TheLoad DEF StoreSame
  <1>5. CASE /\ dirOf' = sum[l] /\ dirVersion' = metaVersion[l] /\ files' = FilesOf(sum[l])
             /\ pc' = [pc EXCEPT ![l] = "list"]
    <2>1. LoadTypes' /\ pc'[l] = "list"
      BY Zenon, <1>1, <1>2, <1>3, <1>5, LoadMoves DEF TypeInv, LoadTypes
    <2>2. LoadInv(l) => LoadInv(l)'
      BY Zenon, <1>1, <1>3, <1>5, <2>1 DEF LoadInv
    <2>3. ASSUME Before(l)
          PROVE  After(l)
      <3>1. sum[l] = meta[l] /\ Known(metaVersion[l], meta[l]) /\ metaVersion[l] <= rowVersion
        BY Zenon, <1>1, <1>3, <2>3 DEF Before, FreshLoad, Current, Progress
      <3>2. metaVersion[l] <= metaVersion[l]
        BY <1>3, Constants DEF Datasets
      <3>3. Known(metaVersion[l], meta[l])'
        BY Zenon, <1>1, <3>1 DEF Known, StoreSame
      <3>4. Known(dirVersion, dirOf)'
        BY Zenon, <1>1, <1>5, <3>1 DEF Known, StoreSame
      <3>5. Whole'
        BY Zenon, <1>5 DEF Whole, FilesOf
      <3>6. Current(l)'
        BY Zenon, <1>1, <1>5, <3>1, <3>2, <3>3, <3>5 DEF Current, StoreSame
      <3>7. Progress(l)'
        BY Zenon, <1>1, <2>1, <3>1, <3>5 DEF Progress
      <3> QED
        BY Zenon, <3>4, <3>6, <3>7 DEF After, FreshLoad
    <2> QED
      BY Zenon, <1>1, <2>1, <2>2, <2>3, TheLoad DEF StoreSame
  <1> QED
    BY Zenon, <1>1, <1>4, <1>5

\* A whole directory of the dataset d has the pairs 1 to Count[d].
LEMMA WholeFiles ==
    ASSUME NEW d \in Datasets, d # 0
    PROVE  /\ 1 \in FilesOf(d)
           /\ Cardinality(FilesOf(d) \ {VersionFile, Archive}) = Count[d]
  <1>1. PICK n \in Nat \ {0} : n = Count[d]
    BY Zenon, Constants
  <1>2. FilesOf(d) = {0, -1} \cup (1..n)
    BY Zenon, <1>1 DEF FilesOf, VersionFile, Archive
  <1>3. 1 \in FilesOf(d) /\ FilesOf(d) \ {VersionFile, Archive} = 1..n
    BY <1>2 DEF VersionFile, Archive
  <1>4. Cardinality(1..n) = n
    BY FS_Interval
  <1> QED
    BY Zenon, <1>1, <1>3, <1>4

\* loadFromDir lists the pairs.
LEMMA ListDirStep ==
    ASSUME TypeInv, NEW l \in Loaders, ListDir(l)
    PROVE  LoadKept
  <1>1. PICK p \in {"retry", "read", "error"} :
            /\ pc' = [pc EXCEPT ![l] = p]
            /\ p = "retry" => dirOf = 0 /\ todo' = todo
            /\ p = "read" => /\ Cardinality(TestFiles) = Count[meta[l]]
                             /\ todo' = [todo EXCEPT ![l] = TestFiles]
            /\ p = "error" => Cardinality(TestFiles) # Count[meta[l]] /\ todo' = todo
    BY Zenon DEF ListDir, Goto
  <1>2. /\ pc[l] = "list" /\ meta' = meta /\ metaVersion' = metaVersion
        /\ sum' = sum /\ used' = used /\ StoreSame /\ CacheSame
    BY Zenon DEF ListDir, StoreSame, CacheSame, storeVars, row, bounds, cache
  <1>3. /\ p \in Pcs /\ "list" \notin Ended /\ p \notin {"remove", "rename"} /\ 0 \in Datasets
    BY Constants DEF Pcs, Ended, Datasets
  <1>4. /\ DOMAIN todo' = DOMAIN todo /\ (p = "read" => todo'[l] = TestFiles)
        /\ meta[l] \in Datasets /\ meta[l] # 0 /\ sum[l] \in Datasets
    BY Zenon, <1>1, <1>2, <1>3 DEF TypeInv, LoadTypes
  <1>5. LoadTypes' /\ pc'[l] = p
    <2>1. pc' = [pc EXCEPT ![l] = p] /\ DOMAIN todo' = DOMAIN todo /\ DOMAIN used' = DOMAIN used
      BY Zenon, <1>1, <1>2, <1>4
    <2> QED
      BY Zenon, <1>2, <1>3, <2>1, LoadGoesOn
  <1>6. p = "read" => todo'[l] # {}
    <2>1. Count[meta[l]] \in Nat \ {0}
      BY Zenon, <1>4, Constants
    <2>2. Count[meta[l]] # 0
      BY Zenon, <2>1
    <2> QED
      BY Zenon, <1>1, <1>4, <2>2, FS_EmptySet
  <1>7. LoadInv(l) => LoadInv(l)'
    BY Zenon, <1>1, <1>2, <1>5, <1>6 DEF LoadInv, CacheSame
  <1>8. ASSUME Before(l)
        PROVE  Progress(l)'
    <2>1. /\ sum[l] = meta[l] /\ files = FilesOf(dirOf) /\ dirOf = sum[l] /\ sum[l] # 0
      BY Zenon, <1>2, <1>8 DEF Before, FreshLoad, Progress, LoadInv, Whole
    <2>2. Cardinality(TestFiles) = Count[meta[l]]
      BY Zenon, <1>4, <2>1, WholeFiles DEF TestFiles
    <2>3. p = "read"
      BY Zenon, <1>1, <2>1, <2>2
    <2> QED
      BY Zenon, <1>2, <1>5, <2>1, <2>3 DEF Progress, Whole, CacheSame
  <1> QED
    BY Zenon, <1>2, <1>5, <1>7, <1>8, SameDir, TheLoad DEF StoreSame

\* A file is read.
LEMMA ReadFileStep ==
    ASSUME TypeInv, NEW l \in Loaders, ReadFile(l)
    PROVE  LoadKept
  <1>1. /\ pc[l] = "read" /\ meta' = meta /\ metaVersion' = metaVersion
        /\ sum' = sum /\ StoreSame /\ CacheSame
    BY Zenon DEF ReadFile, StoreSame, CacheSame, storeVars, row, bounds, cache
  <1>2. \/ /\ \E T : todo' = [todo EXCEPT ![l] = T]
           /\ used' = [used EXCEPT ![l] = used[l] \cup {dirOf}] /\ pc' = pc
        \/ pc' = [pc EXCEPT ![l] = "retry"] /\ todo' = todo /\ used' = used
    BY Zenon DEF ReadFile, Goto
  <1>3. /\ "retry" \in Pcs /\ "read" \notin Ended /\ 0 \in Datasets /\ "retry" \in Ended
        /\ "retry" \notin {"remove", "rename"}
    BY Constants DEF Pcs, Ended, Datasets
  <1>4. CASE pc' = [pc EXCEPT ![l] = "retry"] /\ todo' = todo /\ used' = used
    <2>1. LoadTypes' /\ pc'[l] = "retry"
      BY Zenon, <1>1, <1>3, <1>4, LoadGoesOn
    <2>2. LoadInv(l)' /\ Progress(l)'
      BY Zenon, <2>1 DEF LoadInv, Progress
    <2> QED
      BY Zenon, <1>1, <2>1, <2>2, SameDir, TheLoad DEF StoreSame
  <1>5. CASE /\ \E T : todo' = [todo EXCEPT ![l] = T]
             /\ used' = [used EXCEPT ![l] = used[l] \cup {dirOf}] /\ pc' = pc
    <2>1. /\ DOMAIN todo' = Loaders /\ DOMAIN used' = Loaders
          /\ used'[l] = used[l] \cup {dirOf}
      BY Zenon, <1>5 DEF TypeInv, LoadTypes
    <2>2. LoadTypes'
      BY Zenon, <1>1, <1>5, <2>1 DEF TypeInv, LoadTypes, CacheSame
    <2>3. ASSUME LoadInv(l)
          PROVE  LoadInv(l)'
      <3>1. used[l] \subseteq {sum[l]} /\ dirOf = sum[l] /\ sum[l] # 0
        BY Zenon, <1>1, <2>3 DEF LoadInv
      <3>2. used'[l] = {sum[l]}
        BY Zenon, <2>1, <3>1
      <3> QED
        BY Zenon, <1>1, <1>5, <3>1, <3>2 DEF LoadInv, CacheSame
    <2>4. Before(l) => Progress(l)'
      BY Zenon, <1>1, <1>5 DEF Before, FreshLoad, Progress, Whole, CacheSame
    <2> QED
      BY Zenon, <1>1, <2>2, <2>3, <2>4, SameDir, TheLoad DEF StoreSame
  <1> QED
    BY Zenon, <1>2, <1>4, <1>5

\* The last file was read.
LEMMA LoadedStep ==
    ASSUME TypeInv, NEW l \in Loaders, Loaded(l)
    PROVE  LoadKept
  <1>1. /\ pc[l] = "read" /\ todo[l] = {} /\ pc' = [pc EXCEPT ![l] = "run"]
        /\ meta' = meta /\ metaVersion' = metaVersion
        /\ sum' = sum /\ todo' = todo /\ used' = used /\ StoreSame /\ CacheSame
    BY Zenon DEF Loaded, Goto, StoreSame, CacheSame, storeVars, row, bounds, cache
  <1>2. "run" \in Pcs /\ "read" \notin Ended /\ 0 \in Datasets /\ "run" \notin {"remove", "rename"}
    BY Constants DEF Pcs, Ended, Datasets
  <1>3. LoadTypes' /\ pc'[l] = "run"
    BY Zenon, <1>1, <1>2, LoadGoesOn
  <1>4. LoadInv(l) => LoadInv(l)'
    BY Zenon, <1>1, <1>3 DEF LoadInv, CacheSame
  <1>5. Before(l) => Progress(l)'
    BY Zenon, <1>1, <1>3 DEF Before, FreshLoad, Progress, Whole, CacheSame
  <1> QED
    BY Zenon, <1>1, <1>3, <1>4, <1>5, SameDir, TheLoad DEF StoreSame

\* The inputs are sent along.
LEMMA RunFromMemoryStep ==
    ASSUME TypeInv, NEW l \in Loaders, RunFromMemory(l)
    PROVE  LoadKept
  <1>1. /\ pc[l] = "run" /\ pc' = [pc EXCEPT ![l] = "done"]
        /\ meta' = meta /\ metaVersion' = metaVersion
        /\ sum' = sum /\ todo' = todo /\ used' = used /\ StoreSame /\ CacheSame
    BY Zenon DEF RunFromMemory, Goto, StoreSame, CacheSame, storeVars, row, bounds, cache
  <1>2. /\ "done" \in Pcs /\ "done" \in Ended /\ 0 \in Datasets
        /\ "done" \notin {"remove", "rename"}
    BY Constants DEF Pcs, Ended, Datasets
  <1>3. LoadTypes' /\ pc'[l] = "done"
    BY Zenon, <1>1, <1>2, LoadGoesOn
  <1>4. LoadInv(l) => LoadInv(l)'
    BY Zenon, <1>1, <1>3 DEF LoadInv, CacheSame
  <1>5. Before(l) => Progress(l)'
    BY Zenon, <1>1, <1>3 DEF Before, FreshLoad, Progress
  <1> QED
    BY Zenon, <1>1, <1>3, <1>4, <1>5, SameDir, TheLoad DEF StoreSame

\* The sandbox opens the path.
LEMMA RunFromPathStep ==
    ASSUME TypeInv, NEW l \in Loaders, RunFromPath(l)
    PROVE  LoadKept
  <1>1. /\ pc[l] = "run" /\ meta' = meta /\ metaVersion' = metaVersion
        /\ sum' = sum /\ todo' = todo /\ StoreSame /\ CacheSame
    BY Zenon DEF RunFromPath, StoreSame, CacheSame, storeVars, row, bounds, cache
  <1>2. PICK p \in {"done", "error"} :
            /\ pc' = [pc EXCEPT ![l] = p]
            /\ p = "done" => used' = [used EXCEPT ![l] = used[l] \cup {dirOf}]
            /\ p = "error" => 1 \notin files /\ used' = used
    BY Zenon DEF RunFromPath, Goto
  <1>3. p \in Pcs /\ p \in Ended /\ 0 \in Datasets /\ p \notin {"remove", "rename"}
    BY Constants DEF Pcs, Ended, Datasets
  <1>4. DOMAIN used' = DOMAIN used /\ (p = "done" => used'[l] = used[l] \cup {dirOf})
    BY Zenon, <1>2 DEF TypeInv, LoadTypes
  <1>5. LoadTypes' /\ pc'[l] = p
    BY Zenon, <1>1, <1>2, <1>3, <1>4, LoadGoesOn
  <1>6. ASSUME LoadInv(l)
        PROVE  LoadInv(l)'
    <2>1. used[l] = {sum[l]} /\ dirOf = sum[l] /\ sum[l] # 0
      BY Zenon, <1>1, <1>6 DEF LoadInv
    <2>2. p = "done" => used'[l] = {sum[l]}
      BY Zenon, <1>4, <2>1
    <2> QED
      BY Zenon, <1>1, <1>2, <1>5, <2>1, <2>2 DEF LoadInv, CacheSame
  <1>7. ASSUME Before(l)
        PROVE  Progress(l)'
    <2>1. /\ sum[l] = meta[l] /\ files = FilesOf(dirOf) /\ dirOf = sum[l] /\ sum[l] # 0
      BY Zenon, <1>1, <1>7 DEF Before, FreshLoad, Progress, LoadInv, Whole
    <2>2. sum[l] \in Datasets
      BY Zenon DEF TypeInv, LoadTypes
    <2>3. p = "done"
      BY Zenon, <1>2, <2>1, <2>2, WholeFiles
    <2> QED
      BY Zenon, <1>1, <1>5, <2>1, <2>3 DEF Progress
  <1> QED
    BY Zenon, <1>1, <1>5, <1>6, <1>7, SameDir, TheLoad DEF StoreSame

\* The next job starts.
LEMMA NextLoadStep ==
    ASSUME TypeInv, NEW l \in Loaders, NextLoad(l)
    PROVE  LoadKept
  <1>1. /\ pc' = [pc EXCEPT ![l] = "idle"] /\ used' = [used EXCEPT ![l] = {}]
        /\ todo' = [todo EXCEPT ![l] = {}] /\ meta' = meta /\ metaVersion' = metaVersion
        /\ sum' = sum /\ StoreSame /\ CacheSame
    BY Zenon DEF NextLoad, StoreSame, CacheSame, storeVars, row, bounds, cache
  <1>2. /\ "idle" \in Pcs /\ "idle" \in Ended /\ 0 \in Datasets
        /\ "idle" \notin {"remove", "rename"}
    BY Constants DEF Pcs, Ended, Datasets
  <1>3. DOMAIN used' = DOMAIN used /\ DOMAIN todo' = DOMAIN todo /\ used'[l] = {}
    BY Zenon, <1>1 DEF TypeInv, LoadTypes
  <1>4. LoadTypes' /\ pc'[l] = "idle"
    BY Zenon, <1>1, <1>2, <1>3, LoadGoesOn
  <1>5. LoadInv(l)' /\ Progress(l)'
    BY Zenon, <1>3, <1>4 DEF LoadInv, Progress
  <1> QED
    BY Zenon, <1>1, <1>4, <1>5, SameDir, TheLoad DEF StoreSame

-----------------------------------------------------------------------------
\* All steps

\* The service's side is as it was.
LEMMA SameStore ==
    ASSUME UNCHANGED storeVars
    PROVE  (StoreTypes => StoreTypes') /\ (StoreInv => StoreInv')
  BY Zenon DEF storeVars, row, request, bounds, StoreTypes, StoreInv, RequestInv, ArchiveOfRow

\* Every step of a load.
LEMMA LoadStep ==
    ASSUME TypeInv, NEW l \in Loaders, Load(l)
    PROVE  LoadKept /\ UNCHANGED storeVars
  <1>1. LoadKept
    BY Zenon, ReadMetadataStep, ReadVersionFileStep, VerifyChecksumStep, DownloadStep,
       RemoveFileStep, RemovedAllStep, PromoteStep, ListDirStep, ReadFileStep, LoadedStep,
       RunFromMemoryStep, RunFromPathStep, NextLoadStep DEF Load
  <1>2. UNCHANGED storeVars
    BY Zenon DEF Load, ReadMetadata, ReadVersionFile, VerifyChecksum, Download, RemoveFile,
       RemovedAll, Promote, ListDir, ReadFile, Loaded, RunFromMemory, RunFromPath, NextLoad
  <1> QED
    BY Zenon, <1>1, <1>2

\* A crash of the worker leaves the directory as it is.
LEMMA CrashStep ==
    ASSUME TypeInv, Crash
    PROVE  LoadKept /\ UNCHANGED storeVars
  <1>1. /\ pc' = [l \in Loaders |-> "idle"] /\ used' = [l \in Loaders |-> {}]
        /\ todo' = [l \in Loaders |-> {}] /\ meta' = meta /\ metaVersion' = metaVersion
        /\ sum' = sum /\ StoreSame /\ CacheSame /\ UNCHANGED storeVars
    BY Zenon DEF Crash, StoreSame, CacheSame, storeVars, row, bounds, cache
  <1>2. /\ \A l \in Loaders : pc'[l] = "idle" /\ used'[l] = {}
        /\ DOMAIN used' = Loaders /\ DOMAIN todo' = Loaders
        /\ "idle" \in Ended /\ "idle" \notin {"remove", "rename"}
    BY Zenon, <1>1 DEF Ended
  <1>3. pc' \in [Loaders -> Pcs]
    BY Zenon, <1>1 DEF Pcs
  <1>4. LoadTypes'
    BY Zenon, <1>1, <1>2, <1>3 DEF TypeInv, LoadTypes, CacheSame
  <1>5. \A l \in Loaders : LoadInv(l)' /\ Progress(l)'
    BY Zenon, <1>2 DEF LoadInv, Progress
  <1>6. \A l \in Loaders : Current(l) => Current(l)'
    BY Zenon, <1>1, SameKnown DEF Current, Stale, Whole, CacheSame, StoreSame
  <1>7. (dirOf # 0 => Known(dirVersion, dirOf)) => (dirOf' # 0 => Known(dirVersion, dirOf)')
    BY Zenon, <1>1, SameKnown DEF CacheSame
  <1>8. FreshInv => FreshInv'
    BY Zenon, <1>1, <1>5, <1>6, <1>7 DEF FreshInv, FreshLoad, StoreSame
  <1> QED
    BY Zenon, <1>1, <1>4, <1>5, <1>8 DEF LoadKept, DirInv

\* Every step keeps each part of the invariant, under the assumptions it needs.
LEMMA InvStep ==
    ASSUME TypeInv, [Next]_vars
    PROVE  /\ TypeInv'
           /\ OneRequest /\ StoreInv => StoreInv'
           /\ OneLoader /\ DirInv => DirInv'
           /\ OneRequest /\ OneLoader /\ StoreInv /\ DirInv /\ FreshInv => FreshInv'
  <1>1. CASE StoreNext /\ UNCHANGED <<crashes, cache, load>>
    BY Zenon, <1>1, StoreKeepsLoads
  <1>2. CASE (\E l \in Loaders : Load(l)) \/ Crash
    <2>1. LoadKept /\ UNCHANGED storeVars
      BY Zenon, <1>2, LoadStep, CrashStep
    <2> QED
      BY Zenon, <2>1, SameStore DEF LoadKept, TypeInv
  <1>3. CASE UNCHANGED vars
    <2>1. UNCHANGED storeVars
      BY Zenon, <1>3 DEF vars
    <2>2. /\ pc' = pc /\ meta' = meta /\ metaVersion' = metaVersion /\ sum' = sum
          /\ todo' = todo /\ used' = used /\ dirOf' = dirOf /\ dirVersion' = dirVersion
          /\ files' = files /\ rowVersion' = rowVersion /\ rowDataset' = rowDataset
          /\ archive' = archive /\ deletes' = deletes
      BY Zenon, <1>3 DEF vars, storeVars, row, bounds, cache, load
    <2>3. LoadTypes' /\ (DirInv => DirInv')
      BY Zenon, <2>2 DEF TypeInv, LoadTypes, DirInv, LoadInv
    <2>4. FreshInv => FreshInv'
      BY Zenon, <2>2 DEF FreshInv, FreshLoad, Current, Progress, Known, Stale, Whole
    <2> QED
      BY Zenon, <2>1, <2>3, <2>4, SameStore DEF TypeInv
  <1> QED
    BY Zenon, <1>1, <1>2, <1>3 DEF Next

\* The invariant holds before the first upload.
LEMMA InvInit ==
    ASSUME Init
    PROVE  TypeInv /\ StoreInv /\ DirInv /\ FreshInv
  <1>1. /\ rowVersion = 0 /\ dirOf = 0 /\ files = {}
        /\ \A x \in Requests : step[x] = "idle"
        /\ \A l \in Loaders : /\ pc[l] = "idle" /\ used[l] = {}
                              /\ meta[l] = 0 /\ metaVersion[l] = 0
    BY Zenon DEF Init, StoreInit
  <1>2. StoreInv
    BY Zenon, <1>1 DEF StoreInv, ArchiveOfRow, RequestInv
  <1>3. DirInv
    BY Zenon, <1>1 DEF DirInv, LoadInv
  <1>4. 0 <= 0
    OBVIOUS
  <1>5. FreshInv
    BY Zenon, <1>1, <1>4 DEF FreshInv, FreshLoad, Current, Progress
  <1> QED
    BY Zenon, <1>2, <1>3, <1>5, TypeInit

\* Uploads that come one after the other never leave the row with another archive
\* than its own under its key, and replace the testcases without a gap, whatever
\* fails and wherever the problem service crashes.
THEOREM ArchivesMatch == OneRequest /\ Spec => []ArchiveOfRow
  <1>1. Init => TypeInv /\ StoreInv
    BY Zenon, InvInit
  <1>2. StoreInv => ArchiveOfRow
    BY Zenon DEF StoreInv
  <1>3. CASE OneRequest
    <2>1. TypeInv /\ StoreInv /\ [Next]_vars => TypeInv' /\ StoreInv'
      BY Zenon, <1>3, InvStep
    <2> QED
      BY <1>1, <1>2, <2>1, PTL DEF Spec
  <1> QED
    BY <1>3

\* Whatever the number of uploads and deletions at the same time, an execution with
\* one job slot uses the testcases of one dataset, the one whose checksum is recorded.
OneDataset == \A l \in Loaders : pc[l] = "done" => used[l] = {sum[l]}

\* OfficialLoader.Load never mixes datasets, for any number of concurrent uploads,
\* deletions, failures and crashes.
THEOREM DatasetsNotMixed == OneLoader /\ Spec => []OneDataset
  <1>1. Init => TypeInv /\ DirInv
    BY Zenon, InvInit
  <1>2. DirInv => OneDataset
    BY Zenon DEF DirInv, LoadInv, OneDataset
  <1>3. CASE OneLoader
    <2>1. TypeInv /\ DirInv /\ [Next]_vars => TypeInv' /\ DirInv'
      BY Zenon, <1>3, InvStep
    <2> QED
      BY <1>1, <1>2, <2>1, PTL DEF Spec
  <1> QED
    BY <1>3

\* With one upload at a time the cache serves no dataset older than the row the job
\* saw, as long as nothing was deleted.
THEOREM DatasetsRight == OneRequest /\ OneLoader /\ Spec => []RightDataset
  <1>1. Init => TypeInv /\ StoreInv /\ DirInv /\ FreshInv
    BY Zenon, InvInit
  <1>2. ASSUME TypeInv, DirInv, FreshInv
        PROVE  RightDataset
    <2>1. ASSUME NEW l \in Loaders, deletes = 0, pc[l] \in {"list", "read", "run", "done"}
          PROVE  sum[l] >= meta[l]
      <3>1. sum[l] = meta[l] /\ meta[l] \in Datasets
        BY Zenon, <1>2, <2>1 DEF FreshInv, FreshLoad, Progress, TypeInv, LoadTypes
      <3> QED
        BY <3>1, Constants DEF Datasets
    <2>2. ASSUME NEW l \in Loaders, pc[l] = "done"
          PROVE  used[l] = {sum[l]}
      BY Zenon, <1>2, <2>2 DEF DirInv, LoadInv
    <2> QED
      BY Zenon, <2>1, <2>2 DEF RightDataset
  <1>3. CASE OneRequest /\ OneLoader
    <2>1. TypeInv /\ StoreInv /\ DirInv /\ FreshInv /\ [Next]_vars =>
            TypeInv' /\ StoreInv' /\ DirInv' /\ FreshInv'
      BY Zenon, <1>3, InvStep
    <2> QED
      BY <1>1, <1>2, <2>1, PTL DEF Spec
  <1> QED
    BY <1>3

\* With one upload at a time and one job slot no load ends with an error that is not
\* retried, wherever a crash has interrupted the removal of the directory.
THEOREM PromotionsAtomic == OneRequest /\ OneLoader /\ Spec => []PromotionAtomic
  <1>1. Init => TypeInv /\ StoreInv /\ DirInv /\ FreshInv
    BY Zenon, InvInit
  <1>2. FreshInv => PromotionAtomic
    BY Zenon DEF FreshInv, FreshLoad, Progress, PromotionAtomic
  <1>3. CASE OneRequest /\ OneLoader
    <2>1. TypeInv /\ StoreInv /\ DirInv /\ FreshInv /\ [Next]_vars =>
            TypeInv' /\ StoreInv' /\ DirInv' /\ FreshInv'
      BY Zenon, <1>3, InvStep
    <2> QED
      BY <1>1, <1>2, <2>1, PTL DEF Spec
  <1> QED
    BY <1>3

=============================================================================
