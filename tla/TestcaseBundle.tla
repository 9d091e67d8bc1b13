--------------------------- MODULE TestcaseBundle ---------------------------
(***************************************************************************)
(* The official testcases of one problem on their way to an execution: the *)
(* problem service's row and archives (TestcaseStore), and the judge       *)
(* worker's OfficialLoader with its cache directory, step by step as the   *)
(* file system sees it.                                                    *)
(*                                                                         *)
(* Count gives the number of testcases of a dataset.  The cache directory  *)
(* always stems from one rename, so it is a dataset and the files of it    *)
(* that are still there: the version file, the archive (the ZIP with its   *)
(* checksum file) and, for the pair of each testcase, its number.          *)
(* RemoveAll unlinks them one at a time in any order.                      *)
(***************************************************************************)
EXTENDS TestcaseStore, FiniteSets

CONSTANTS
    Loaders,      \* jobs in flight of this problem (bounded by the job slots)
    Count,        \* testcases of each dataset
    MaxCrashes    \* times the worker crashes

ASSUME BundleAssumption ==
    /\ Count \in [1..MaxUploads -> Nat \ {0}]
    /\ MaxCrashes \in Nat

VARIABLES
    crashes,
    dirOf,        \* dataset the cache directory was made from, or 0: no directory
    dirVersion,   \* what its version file says
    files,        \* files left in it
    pc,           \* per load: next step
    meta,         \* per load: dataset of the row when the metadata was read
    metaVersion,  \* per load: version of the row at that time
    sum,          \* per load: dataset whose checksum the bundle will carry
    todo,         \* per load: testcases still to be read
    used          \* per load: datasets its testcases came from

cache == <<dirOf, dirVersion, files>>
load == <<pc, meta, metaVersion, sum, todo, used>>
vars == <<storeVars, crashes, cache, load>>

VersionFile == 0

Archive == -1

FilesOf(d) == {VersionFile, Archive} \cup (1..Count[d])

TestFiles == files \ {VersionFile, Archive}

Init ==
    /\ StoreInit
    /\ crashes = 0
    /\ dirOf = 0 /\ dirVersion = 0 /\ files = {}
    /\ pc = [l \in Loaders |-> "idle"]
    /\ meta = [l \in Loaders |-> 0]
    /\ metaVersion = [l \in Loaders |-> 0]
    /\ sum = [l \in Loaders |-> 0]
    /\ todo = [l \in Loaders |-> {}]
    /\ used = [l \in Loaders |-> {}]

-----------------------------------------------------------------------------
\* Judge worker: OfficialLoader.Load

Goto(l, p) == pc' = [pc EXCEPT ![l] = p]

\* GetTestCaseMetadata reads the row and presigns the URL of its archive.
ReadMetadata(l) ==
    /\ pc[l] = "idle" /\ rowVersion # 0
    /\ meta' = [meta EXCEPT ![l] = rowDataset]
    /\ metaVersion' = [metaVersion EXCEPT ![l] = rowVersion]
    /\ Goto(l, "version")
    /\ UNCHANGED <<storeVars, crashes, cache, sum, todo, used>>

ReadVersionFile(l) ==
    /\ pc[l] = "version"
    /\ Goto(l, IF VersionFile \in files /\ dirVersion = metaVersion[l]
                 THEN "checksum" ELSE "download")
    /\ UNCHANGED <<storeVars, crashes, cache, meta, metaVersion, sum, todo, used>>

\* Mutant of VerifyChecksum: the checksum of the metadata's archive is recorded
\* without looking at the cached one.
VerifyNothing(l) ==
    /\ pc[l] = "checksum"
    /\ sum' = [sum EXCEPT ![l] = meta[l]]
    /\ Goto(l, "list")
    /\ UNCHANGED <<storeVars, crashes, cache, meta, metaVersion, todo, used>>

\* verifiedCachedChecksum: the archive is there and has its checksum.
VerifyChecksum(l) ==
    /\ pc[l] = "checksum"
    /\ \/ /\ Archive \in files
          /\ sum' = [sum EXCEPT ![l] = dirOf]
          /\ Goto(l, "list")
       \/ /\ Archive \notin files
          /\ Goto(l, "download")
          /\ UNCHANGED sum
    /\ UNCHANGED <<storeVars, crashes, cache, meta, metaVersion, todo, used>>

\* downloadToFile, extractZip and loadFromDir on a directory of its own.  The
\* archive is looked for under the version's key; it may be gone after another
\* upload or a delete.  An archive with another number of testcases than the
\* metadata says is an error that is not retried.
Download(l) ==
    /\ pc[l] = "download"
    /\ LET d == archive[metaVersion[l]]
       IN  \/ /\ d # 0
              /\ sum' = [sum EXCEPT ![l] = d]
              /\ Goto(l, IF Count[d] = Count[meta[l]] THEN "remove" ELSE "error")
           \/ /\ d = 0
              /\ Goto(l, "retry")
              /\ UNCHANGED sum
    /\ UNCHANGED <<storeVars, crashes, cache, meta, metaVersion, todo, used>>

\* RemoveAll of the cache directory.
RemoveFile(l) ==
    /\ pc[l] = "remove" /\ dirOf # 0
    /\ \/ \E f \in files : files' = files \ {f} /\ UNCHANGED <<dirOf, dirVersion>>
       \/ files = {} /\ dirOf' = 0 /\ dirVersion' = 0 /\ UNCHANGED files
    /\ UNCHANGED <<storeVars, crashes, load>>

\* Mutant of RemovedAll: the stale directory is left where it is.
RemovedNothing(l) ==
    /\ pc[l] = "remove"
    /\ Goto(l, "rename")
    /\ UNCHANGED <<storeVars, crashes, cache, meta, metaVersion, sum, todo, used>>

RemovedAll(l) ==
    /\ pc[l] = "remove" /\ dirOf = 0
    /\ Goto(l, "rename")
    /\ UNCHANGED <<storeVars, crashes, cache, meta, metaVersion, sum, todo, used>>

\* Mutant of Promote: the directory is in place before its last file.
PromotePartly(l) ==
    /\ pc[l] = "rename"
    /\ \/ /\ files = {}
          /\ dirOf' = sum[l] /\ dirVersion' = metaVersion[l]
          /\ files' = FilesOf(sum[l]) \ {Count[sum[l]]}
          /\ Goto(l, "list")
       \/ /\ files # {}
          /\ Goto(l, "retry")
          /\ UNCHANGED cache
    /\ UNCHANGED <<storeVars, crashes, meta, metaVersion, sum, todo, used>>

\* Rename of the complete temporary directory; it fails if another load has
\* promoted a directory meanwhile.
Promote(l) ==
    /\ pc[l] = "rename"
    /\ \/ /\ files = {}
          /\ dirOf' = sum[l] /\ dirVersion' = metaVersion[l] /\ files' = FilesOf(sum[l])
          /\ Goto(l, "list")
       \/ /\ files # {}
          /\ Goto(l, "retry")
          /\ UNCHANGED cache
    /\ UNCHANGED <<storeVars, crashes, meta, metaVersion, sum, todo, used>>

\* loadFromDir: the listing must have as many pairs as the metadata says.
ListDir(l) ==
    /\ pc[l] = "list"
    /\ \/ /\ dirOf = 0
          /\ Goto(l, "retry")
          /\ UNCHANGED todo
       \/ /\ dirOf # 0
          /\ IF Cardinality(TestFiles) = Count[meta[l]]
               THEN Goto(l, "read") /\ todo' = [todo EXCEPT ![l] = TestFiles]
               ELSE Goto(l, "error") /\ UNCHANGED todo
    /\ UNCHANGED <<storeVars, crashes, cache, meta, metaVersion, sum, used>>

\* The files are read by their paths, one after the other.
ReadFile(l) ==
    /\ pc[l] = "read" /\ todo[l] # {}
    /\ LET f == CHOOSE k \in todo[l] : \A m \in todo[l] : k <= m
       IN  \/ /\ f \in files
              /\ todo' = [todo EXCEPT ![l] = todo[l] \ {f}]
              /\ used' = [used EXCEPT ![l] = used[l] \cup {dirOf}]
              /\ UNCHANGED pc
           \/ /\ f \notin files
              /\ Goto(l, "retry")
              /\ UNCHANGED <<todo, used>>
    /\ UNCHANGED <<storeVars, crashes, cache, meta, metaVersion, sum>>

Loaded(l) ==
    /\ pc[l] = "read" /\ todo[l] = {}
    /\ Goto(l, "run")
    /\ UNCHANGED <<storeVars, crashes, cache, meta, metaVersion, sum, todo, used>>

\* newRunBatchRequest sends the input that was read along with the request ...
RunFromMemory(l) ==
    /\ pc[l] = "run"
    /\ Goto(l, "done")
    /\ UNCHANGED <<storeVars, crashes, cache, meta, metaVersion, sum, todo, used>>

\* ... unless it is too large: then the sandbox opens its path in the shared
\* cache volume.  If it is gone, that is an error that is not retried or, when
\* the sandbox finds out, the verdict.
RunFromPath(l) ==
    /\ pc[l] = "run"
    /\ \/ /\ 1 \in files
          /\ used' = [used EXCEPT ![l] = used[l] \cup {dirOf}]
          /\ Goto(l, "done")
       \/ /\ 1 \notin files
          /\ Goto(l, "error")
          /\ UNCHANGED used
    /\ UNCHANGED <<storeVars, crashes, cache, meta, metaVersion, sum, todo>>

\* The job has its verdict, or its handler retries it; the next one starts.
NextLoad(l) ==
    /\ pc[l] \in {"done", "retry", "error"}
    /\ pc' = [pc EXCEPT ![l] = "idle"]
    /\ used' = [used EXCEPT ![l] = {}]
    /\ todo' = [todo EXCEPT ![l] = {}]
    /\ UNCHANGED <<storeVars, crashes, cache, meta, metaVersion, sum>>

\* A crash leaves the cache directory as it is.  So does an error of the file
\* system that ends a load, with the retry for the restart.
Crash ==
    /\ crashes < MaxCrashes
    /\ crashes' = crashes + 1
    /\ pc' = [l \in Loaders |-> "idle"]
    /\ used' = [l \in Loaders |-> {}]
    /\ todo' = [l \in Loaders |-> {}]
    /\ UNCHANGED <<storeVars, cache, meta, metaVersion, sum>>

Load(l) ==
    \/ ReadMetadata(l) \/ ReadVersionFile(l) \/ VerifyChecksum(l) \/ Download(l)
    \/ RemoveFile(l) \/ RemovedAll(l) \/ Promote(l)
    \/ ListDir(l) \/ ReadFile(l) \/ Loaded(l)
    \/ RunFromMemory(l) \/ RunFromPath(l) \/ NextLoad(l)

Next ==
    \/ StoreNext /\ UNCHANGED <<crashes, cache, load>>
    \/ \E l \in Loaders : Load(l)
    \/ Crash

Spec == Init /\ [][Next]_vars

\* Jobs keep coming and their handlers keep running.
FairSpec == Spec /\ \A l \in Loaders : WF_vars(Load(l))

-----------------------------------------------------------------------------
\* Properties

\* Every execution uses the testcases of one dataset only, the one whose checksum
\* is recorded with the attempt; and as long as no deletion lets versions start
\* again at 1, the cache never serves one older than the row the job saw, so that
\* after an upload no later job is judged with the testcases it replaced.
RightDataset ==
    \A l \in Loaders :
        /\ pc[l] = "done" => used[l] = {sum[l]}
        /\ deletes = 0 /\ pc[l] \in {"list", "read", "run", "done"} => sum[l] >= meta[l]
\* The cache directory is promoted as a whole: no load finds a part of a
\* bundle, or another one than it looked for, and fails the submission with an
\* error that is not retried.  (After a deletion another dataset may be under
\* the version.)
PromotionAtomic ==
    deletes = 0 => \A l \in Loaders : pc[l] # "error"

\* The cache recovers: whatever a crash or an upload in mid-load left behind,
\* jobs are executed again and again while the row's archive is in storage
\* (and no deletion lets the cached version stand for another dataset).
Available == rowVersion # 0 /\ archive[rowVersion] = rowDataset /\ deletes = 0

LoadsGoOn ==
    Available ~> ~Available \/ \E l \in Loaders : pc[l] = "done"

=============================================================================
