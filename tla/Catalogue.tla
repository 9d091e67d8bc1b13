----------------------------- MODULE Catalogue ------------------------------
(***************************************************************************)
(* The problem catalogue: authoring requests, tags, the two maintenance    *)
(* commands, and the cached lookup by which the submission service decides *)
(* whether a user may submit to a problem.                                 *)
(*                                                                         *)
(* A request is a sequence of single database statements or transactions,  *)
(* and the requests interleave between them.  No request locks what it has *)
(* read: publish, hide and update write every column of the row as they    *)
(* read it, and tags are checked before and apart from the write that      *)
(* relies on the check.                                                    *)
(*                                                                         *)
(* One contributor, the author, owns every problem; another contributor    *)
(* may do with them what a user may.  A slug is the number that            *)
(* generateUniqueSlug appends to the one title (1 for none).  A statement  *)
(* is its description (a legacy one holds its input and output sections,   *)
(* "lead" is what is left when they are split off) and its two formats,    *)
(* always written together.                                                *)
(***************************************************************************)
EXTENDS Integers, FiniteSets

CONSTANTS
    Requests,      \* requests that may be in progress at the same time
    Readers,       \* concurrent GetProblem calls of the submission service
    Tags,          \* tag rows
    MaxProblems,   \* bound on rows of the problems table
    MaxCalls,      \* bound on calls, authoring requests and lookups together
    MaxFaults      \* bound on failing calls of the lookup and the cache

ASSUME CatalogueAssumption ==
    /\ MaxProblems \in Nat \ {0}
    /\ MaxCalls \in Nat
    /\ MaxFaults \in Nat

VARIABLES
    problems,   \* the problems table, with the tags of problem_tags
    tags,       \* the tags table
    request,    \* the authoring requests in progress, with what they have read
    cache,      \* Redis: problem:submission:v1:<id>
    load,       \* the singleflight load of a problem
    reader,     \* GetProblem calls
    started,    \* calls so far
    faults,     \* failed calls of them so far
    overlapped, \* ghost: a write met a load in flight, or was not invalidated
    raced       \* ghost: problems and tags changed between a check and its write

store == <<problems, tags>>
lookup == <<cache, load, reader>>
vars == <<store, request, lookup, started, faults, overlapped, raced>>

Ids == 1..MaxProblems
Slugs == 1..(MaxProblems + 1)
Actors == {"user", "author", "moderator"}

Row == [state : {"none", "live", "deleted"}, slug : Slugs, hidden : BOOLEAN,
        tags : SUBSET Tags, desc : {"legacy", "lead", "new"},
        fmt : {"empty", "split", "new"}]

NoRow == [state |-> "none", slug |-> 1, hidden |-> TRUE, tags |-> {},
          desc |-> "new", fmt |-> "new"]

Live(p) == problems[p].state = "live"
Published(p) == Live(p) /\ ~problems[p].hidden
Active == {t \in Tags : tags[t] = "active"}

\* The metadata the submission service reads of a problem, its visibility.
View(p) ==
    IF Live(p) THEN IF problems[p].hidden THEN "hidden" ELSE "public" ELSE "none"

Idle == [op |-> "none", pc |-> "idle", actor |-> "user", id |-> 0, tag |-> {},
         row |-> NoRow, active |-> {}, want |-> "none"]

NoLoad == [pc |-> "none", view |-> "none"]

Edits == {"retag", "slug", "statement", "description"}
TagEdits == {"activate", "deactivate", "rename"}

\* A legacy problem, hidden or already public, and tags from earlier on.
Init ==
    /\ \E h \in BOOLEAN, ts \in SUBSET Tags, ex \in [Tags -> {"none", "active"}] :
          /\ \A t \in ts : ex[t] = "active"
          /\ tags = ex
          /\ problems = [p \in Ids |->
                IF p = 1 THEN [state |-> "live", slug |-> 1, hidden |-> h,
                               tags |-> ts, desc |-> "legacy", fmt |-> "empty"]
                ELSE NoRow]
    /\ request = [r \in Requests |-> Idle]
    /\ cache = [p \in Ids |-> "none"]
    /\ load = [p \in Ids |-> NoLoad]
    /\ reader = [g \in Readers |-> [pc |-> "idle", id |-> 0, actor |-> "user"]]
    /\ started = 0 /\ faults = 0
    /\ overlapped = {} /\ raced = {}

-----------------------------------------------------------------------------
\* Requests

\* Requests of which the caller's role forbids nothing start with a read.  A
\* request takes the first of the places that are free.
Free == {r \in Requests : request[r].pc \in {"idle", "exists"}}

Start(r, rec) ==
    /\ r \in Free /\ r = CHOOSE free \in Free : TRUE
    /\ started < MaxCalls
    /\ started' = started + 1
    /\ request' = [request EXCEPT ![r] = rec]
    /\ UNCHANGED <<store, lookup, faults, overlapped, raced>>

Goto(r, pc) == request' = [request EXCEPT ![r].pc = pc]
Done(r) == request' = [request EXCEPT ![r] = Idle]

\* The unique index refuses the slug: ErrProblemAlreadyExists.
Exists(r) == request' = [request EXCEPT ![r] = [Idle EXCEPT !.pc = "exists"]]

\* A database call fails: the request ends with an internal error and has
\* changed nothing since its last step.
RequestFails(r) ==
    /\ request[r].pc \notin {"idle", "exists", "invalidate"}
    /\ Done(r)
    /\ UNCHANGED <<store, lookup, started, faults, overlapped, raced>>

\* createProblemUseCase.Execute: the tags are resolved first, all of them
\* active or the request is refused.
CreateProblem(r, ts) ==
    /\ ts \subseteq Active
    /\ Start(r, [Idle EXCEPT !.op = "create", !.pc = "slug",
                    !.actor = "author", !.active = ts,
                    !.row = [NoRow EXCEPT !.state = "live", !.tags = ts]])

\* GetBySlug: soft-deleted rows are not found.
FoundBySlug(s) == {p \in Ids : Live(p) /\ problems[p].slug = s}

\* The unique index on title_slug covers the soft-deleted rows too.
Holders(s) == {p \in Ids : problems[p].state # "none" /\ problems[p].slug = s}

\* generateUniqueSlug: one turn of the loop.
GenerateUniqueSlug(r) ==
    /\ request[r].op = "create" /\ request[r].pc = "slug"
    /\ LET s == request[r].row.slug IN
       IF FoundBySlug(s) # {}
       THEN request' = [request EXCEPT ![r].row.slug = s + 1]
       ELSE Goto(r, "insert")
    /\ UNCHANGED <<store, lookup, started, faults, overlapped, raced>>

\* problemRepository.Create: the row and its tags in one transaction.
InsertProblem(r) ==
    /\ request[r].op = "create" /\ request[r].pc = "insert"
    /\ IF Holders(request[r].row.slug) # {}
       THEN Exists(r) /\ UNCHANGED problems
       ELSE /\ \E p \in Ids :
                  /\ problems[p].state = "none"
                  /\ \A q \in 1..(p - 1) : problems[q].state # "none"
                  /\ problems' = [problems EXCEPT ![p] = request[r].row]
            /\ Done(r)
    /\ UNCHANGED <<tags, lookup, started, faults, overlapped, raced>>

\* Mutant of MayChange: authors may change published problems, too.
MutMayChange(actor, p) == actor \in {"moderator", "author"}

\* updateProblemUseCase, publish, hide and delete start with GetByID.  The
\* contributor may change only a hidden problem of their own.  The two
\* statements of GetByID, the row and its tags, are one step here.
MayChange(actor, p) ==
    \/ actor = "moderator"
    \/ actor = "author" /\ problems[p].hidden

ReadProblem(p) ==
    [Idle EXCEPT !.id = p, !.row = problems[p],
                 !.active = problems[p].tags \cap Active]

UpdateProblem(r, p, actor, e) ==
    /\ Live(p) /\ MayChange(actor, p)
    /\ Start(r, [ReadProblem(p) EXCEPT !.op = "update", !.pc = "apply",
                    !.actor = actor, !.want = e])

\* publishProblemUseCase: refused when a tag of the problem is inactive.
PublishProblem(r, p) ==
    /\ Live(p)
    /\ problems[p].tags \subseteq Active
    /\ Start(r, [ReadProblem(p) EXCEPT !.op = "publish", !.pc = "write",
                    !.actor = "moderator", !.row.hidden = FALSE])

HiddenProblem(r, p) ==
    /\ Live(p)
    /\ Start(r, [ReadProblem(p) EXCEPT !.op = "hide", !.pc = "write",
                    !.actor = "moderator", !.row.hidden = TRUE])

DeleteProblem(r, p, actor) ==
    /\ Live(p) /\ MayChange(actor, p)
    /\ Start(r, [ReadProblem(p) EXCEPT !.op = "delete", !.pc = "write",
                    !.actor = actor])

\* The changes of UpdateProblemRequest, one at a time.  NewSlug is looked up
\* and new tags are resolved before the write.
EditRefused(q) ==
    \/ q.want = "slug" /\ ~(FoundBySlug(1) \subseteq {q.id})
    \/ q.want = "retag" /\ ~(Tags \subseteq Active)

EditedRow(q) ==
    CASE q.want = "slug" -> [q.row EXCEPT !.slug = 1]
      [] q.want = "retag" -> [q.row EXCEPT !.tags = Tags]
      [] q.want = "statement" -> [q.row EXCEPT !.desc = "new", !.fmt = "new"]
      [] q.want = "description" -> [q.row EXCEPT !.desc = "new"]

ApplyEdit(r) ==
    /\ request[r].op = "update" /\ request[r].pc = "apply"
    /\ LET q == request[r] IN
       IF EditRefused(q) THEN Done(r)
       ELSE request' = [request EXCEPT ![r] =
               [q EXCEPT !.row = EditedRow(q), !.pc = "write", !.want = "none",
                         !.active = IF q.want = "retag" THEN Tags ELSE @]]
    /\ UNCHANGED <<store, lookup, started, faults, overlapped, raced>>

\* Ghost: a load that has read the row before this write may store it later.
NoteOverlap(p) ==
    overlapped' = IF load[p].pc \in {"loaded", "stored"}
                  THEN overlapped \cup {p} ELSE overlapped

\* Mutant of UpdatedRow: an update leaves the description out.
MutUpdatedRow(old, new) == [new EXCEPT !.desc = old.desc]

\* problemRepository.Update writes every column.  A row deleted in the
\* meantime is not found by the UPDATE, but its tags are replaced.
UpdatedRow(old, new) ==
    IF old.state = "live" THEN new ELSE [old EXCEPT !.tags = new.tags]

WriteProblem(r) ==
    /\ request[r].op \in {"update", "publish", "hide"} /\ request[r].pc = "write"
    /\ LET q == request[r] IN
       IF Live(q.id) /\ Holders(q.row.slug) \ {q.id} # {}
       THEN /\ Exists(r)
            /\ UNCHANGED <<problems, overlapped, raced>>
       ELSE /\ problems' = [problems EXCEPT ![q.id] = UpdatedRow(@, q.row)]
            /\ Goto(r, "invalidate")
            /\ NoteOverlap(q.id)
            /\ raced' = IF q.active \subseteq Active THEN raced
                        ELSE raced \cup {q.id}
    /\ UNCHANGED <<tags, lookup, started, faults>>

\* problemRepository.Delete: ErrProblemNotFound when it is gone already.
DeleteRow(r) ==
    /\ request[r].op = "delete" /\ request[r].pc = "write"
    /\ LET p == request[r].id IN
       IF Live(p)
       THEN /\ problems' = [problems EXCEPT ![p].state = "deleted"]
            /\ Goto(r, "invalidate")
            /\ NoteOverlap(p)
       ELSE Done(r) /\ UNCHANGED <<problems, overlapped>>
    /\ UNCHANGED <<tags, lookup, started, faults, raced>>

\* Mutant of Invalidate: the entry is not deleted.
MutInvalidate(r) ==
    /\ request[r].pc = "invalidate"
    /\ Done(r)
    /\ UNCHANGED <<store, lookup, started, faults, overlapped, raced>>

\* Ghost: once the entry is gone and no load holds an old row, a stale entry
\* has no excuse any more.
EntryGone(p) ==
    overlapped' = IF load[p].pc \in {"loaded", "stored"} THEN overlapped
                  ELSE overlapped \ {p}

\* invalidateSubmissionProblemCache, best effort.
Invalidate(r) ==
    /\ request[r].pc = "invalidate"
    /\ LET p == request[r].id IN
       \/ /\ cache' = [cache EXCEPT ![p] = "none"]
          /\ EntryGone(p)
          /\ UNCHANGED faults
       \/ /\ faults < MaxFaults
          /\ faults' = faults + 1
          /\ overlapped' = overlapped \cup {p}
          /\ UNCHANGED cache
    /\ Done(r)
    /\ UNCHANGED <<store, load, reader, started, raced>>

-----------------------------------------------------------------------------
\* Tags and the maintenance commands

\* createTagUseCase; a slug that exists is refused.  The row is active even
\* if is_active was false: GORM leaves out a false value of a column whose
\* default is true.
CreateTag(t) ==
    /\ started < MaxCalls
    /\ started' = started + 1
    /\ tags[t] = "none"
    /\ tags' = [tags EXCEPT ![t] = "active"]
    /\ UNCHANGED <<problems, request, lookup, faults, overlapped, raced>>

\* Seed: GetBySlug found no such tag.
SeedTag(r, t) ==
    /\ tags[t] = "none"
    /\ Start(r, [Idle EXCEPT !.op = "seed", !.pc = "insert", !.tag = {t}])

\* Its Create, of which "already exists" is tolerated.
SeedInsert(r) ==
    /\ request[r].op = "seed"
    /\ tags' = [t \in Tags |-> IF t \in request[r].tag /\ tags[t] = "none"
                              THEN "active" ELSE tags[t]]
    /\ Done(r)
    /\ UNCHANGED <<problems, lookup, started, faults, overlapped, raced>>

\* updateTagUseCase and deleteTagUseCase read the tag first; a tag that is
\* active is deactivated only after ensureTagCanBeDeactivated.
ReadTag(t, op, e) ==
    [Idle EXCEPT !.op = op, !.actor = "moderator", !.tag = {t}, !.want = e,
        !.active = {t} \cap Active,
        !.pc = IF e = "deactivate" /\ t \in Active THEN "count" ELSE "write"]

UpdateTag(r, t, e) ==
    tags[t] # "none" /\ Start(r, ReadTag(t, "updateTag", e))

\* Mutant of DeleteTag: the published problems are not counted.
MutDeleteTag(r, t) ==
    /\ tags[t] # "none"
    /\ Start(r, [ReadTag(t, "deleteTag", "deactivate") EXCEPT !.pc = "write"])

DeleteTag(r, t) ==
    tags[t] # "none" /\ Start(r, ReadTag(t, "deleteTag", "deactivate"))

\* ensureTagCanBeDeactivated, CountPublishedProblemsByTagID.
CountPublished(r) ==
    /\ request[r].pc = "count"
    /\ IF \E p \in Ids : Published(p) /\ request[r].tag \subseteq problems[p].tags
       THEN Done(r) ELSE Goto(r, "counted")
    /\ UNCHANGED <<store, lookup, started, faults, overlapped, raced>>

\* tagRepository.Update (every column) and Deactivate.
WriteTag(r) ==
    /\ request[r].op \in {"updateTag", "deleteTag"}
    /\ request[r].pc \in {"write", "counted"}
    /\ LET q == request[r]
           on == \/ q.want = "activate"
                 \/ q.want = "rename" /\ q.active # {}
           stale == q.pc = "counted" \/ q.active = {}
       IN /\ tags' = [t \in Tags |-> IF t \notin q.tag THEN tags[t]
                                   ELSE IF on THEN "active" ELSE "inactive"]
          /\ raced' = IF on \/ ~stale THEN raced
                      ELSE raced \cup {p \in Ids : /\ Published(p)
                                                  /\ q.tag \subseteq problems[p].tags}
    /\ Done(r)
    /\ UNCHANGED <<problems, lookup, started, faults, overlapped>>

\* backfill.Run with apply, of one problem: only a statement with both
\* headings and without formats is split (SplitLegacyDescription).
Backfill(r, p) ==
    /\ Live(p) /\ problems[p].fmt = "empty" /\ problems[p].desc = "legacy"
    /\ Start(r, [Idle EXCEPT !.op = "backfill", !.pc = "write", !.id = p])

\* UpdateFormatsForBackfill: skipped if a format was written in between.
UpdateFormatsForBackfill(r) ==
    /\ request[r].op = "backfill"
    /\ LET p == request[r].id IN
       problems' = IF Live(p) /\ problems[p].fmt = "empty"
                   THEN [problems EXCEPT ![p].desc = "lead", ![p].fmt = "split"]
                   ELSE problems
    /\ Done(r)
    /\ UNCHANGED <<tags, lookup, started, faults, overlapped, raced>>

-----------------------------------------------------------------------------
\* The cached lookup

\* canAccessProblemState, for the metadata of a problem or its absence.
Access(actor, view) ==
    IF view = "none" THEN "refused"
    ELSE IF view = "public" \/ actor \in {"author", "moderator"}
    THEN "granted" ELSE "refused"

\* A lookup that is over, and its answer.
Answer(a) == [pc |-> a, id |-> 0, actor |-> "user"]

\* getSubmissionProblem: a hit answers; a miss, or a cache that fails, joins
\* the load of the problem or starts one.
GetProblem(g, p, actor) ==
    /\ reader[g].pc # "wait"
    /\ problems[p].state # "none"
    /\ started < MaxCalls
    /\ started' = started + 1
    /\ \/ /\ cache[p] # "none"
          /\ reader' = [reader EXCEPT ![g] = Answer(Access(actor, cache[p]))]
          /\ UNCHANGED <<load, faults>>
       \/ /\ \/ cache[p] = "none" /\ UNCHANGED faults
             \/ cache[p] # "none" /\ faults < MaxFaults /\ faults' = faults + 1
          /\ reader' = [reader EXCEPT ![g] = [pc |-> "wait", id |-> p, actor |-> actor]]
          /\ load' = IF load[p].pc = "none"
                     THEN [load EXCEPT ![p] = [pc |-> "recheck", view |-> "none"]]
                     ELSE load
    /\ UNCHANGED <<store, request, cache, overlapped, raced>>

\* ctx.Done: the caller's second is over; the load goes on without it.
GiveUp(g) ==
    /\ reader[g].pc = "wait"
    /\ reader' = [reader EXCEPT ![g] = Answer("idle")]
    /\ UNCHANGED <<store, request, cache, load, started, faults, overlapped, raced>>

\* The load looks into the cache again; an error counts as a miss.
Recheck(p) ==
    /\ load[p].pc = "recheck"
    /\ \/ /\ cache[p] # "none"
          /\ load' = [load EXCEPT ![p] = [pc |-> "stored", view |-> cache[p]]]
          /\ UNCHANGED faults
       \/ /\ \/ cache[p] = "none" /\ UNCHANGED faults
             \/ cache[p] # "none" /\ faults < MaxFaults /\ faults' = faults + 1
          /\ load' = [load EXCEPT ![p].pc = "read"]
    /\ UNCHANGED <<store, request, cache, reader, started, overlapped, raced>>

\* GetSubmissionProblem; an absent row is not cached.
ReadRow(p) ==
    /\ load[p].pc = "read"
    /\ load' = [load EXCEPT ![p] =
                   [pc |-> IF Live(p) THEN "loaded" ELSE "stored", view |-> View(p)]]
    /\ UNCHANGED <<store, request, cache, reader, started, faults, overlapped, raced>>

\* setInCache, whose error is ignored.
SetInCache(p) ==
    /\ load[p].pc = "loaded"
    /\ load' = [load EXCEPT ![p].pc = "stored"]
    /\ \/ cache' = [cache EXCEPT ![p] = load[p].view] /\ UNCHANGED faults
       \/ faults < MaxFaults /\ faults' = faults + 1 /\ UNCHANGED cache
    /\ UNCHANGED <<store, request, reader, started, overlapped, raced>>

Waiting(p) == {g \in Readers : reader[g].pc = "wait" /\ reader[g].id = p}

\* The load ends and every waiter gets its result.
Deliver(p) ==
    /\ load[p].pc = "stored"
    /\ load' = [load EXCEPT ![p] = NoLoad]
    /\ reader' = [g \in Readers |->
                    IF g \in Waiting(p)
                    THEN Answer(Access(reader[g].actor, load[p].view))
                    ELSE reader[g]]
    /\ UNCHANGED <<store, request, cache, started, faults, overlapped, raced>>

\* The load fails, or its 700 ms are over: every waiter gets the error.
LoadFails(p) ==
    /\ load[p].pc = "read"
    /\ faults < MaxFaults
    /\ faults' = faults + 1
    /\ load' = [load EXCEPT ![p] = NoLoad]
    /\ reader' = [g \in Readers |->
                    IF g \in Waiting(p) THEN Answer("idle")
                    ELSE reader[g]]
    /\ UNCHANGED <<store, request, cache, started, overlapped, raced>>

\* Mutant of Expire: entries are kept.
MutExpire(p) == FALSE /\ UNCHANGED vars

\* The entry's five seconds are over.
Expire(p) ==
    /\ cache[p] # "none"
    /\ cache' = [cache EXCEPT ![p] = "none"]
    /\ EntryGone(p)
    /\ UNCHANGED <<store, request, load, reader, started, faults, raced>>

-----------------------------------------------------------------------------
RequestStep(r) ==
    \/ GenerateUniqueSlug(r) \/ InsertProblem(r) \/ ApplyEdit(r)
    \/ WriteProblem(r) \/ DeleteRow(r) \/ Invalidate(r)
    \/ SeedInsert(r) \/ CountPublished(r) \/ WriteTag(r)
    \/ UpdateFormatsForBackfill(r)

RequestStart(r) ==
    \/ \E ts \in SUBSET Tags : CreateProblem(r, ts)
    \/ \E p \in Ids : \/ PublishProblem(r, p) \/ HiddenProblem(r, p) \/ Backfill(r, p)
                      \/ \E a \in Actors : DeleteProblem(r, p, a)
                      \/ \E a \in Actors, e \in Edits : UpdateProblem(r, p, a, e)
    \/ \E t \in Tags : \/ SeedTag(r, t) \/ DeleteTag(r, t)
                       \/ \E e \in TagEdits : UpdateTag(r, t, e)

LoadStep(p) == Recheck(p) \/ ReadRow(p) \/ SetInCache(p) \/ Deliver(p)

Next ==
    \/ \E r \in Requests : RequestStart(r) \/ RequestStep(r) \/ RequestFails(r)
    \/ \E t \in Tags : CreateTag(t)
    \/ \E p \in Ids : LoadStep(p) \/ LoadFails(p) \/ Expire(p)
    \/ \E g \in Readers : \/ \E p \in Ids, a \in Actors : GetProblem(g, p, a)
                          \/ GiveUp(g)

Spec == Init /\ [][Next]_vars

\* Redis expires what it holds; requests and loads may stop anywhere.
Fairness == \A p \in Ids : WF_vars(Expire(p))

FairSpec == Spec /\ Fairness

-----------------------------------------------------------------------------
\* Properties

\* A published problem carries no inactive tag, except where a tag and a
\* problem were changed between the other's check and its write: publish
\* refuses inactive tags, a tag in use is not deactivated, and no other
\* request can bring the two together.
PublishedTagsActive ==
    \A p \in Ids : Published(p) /\ p \notin raced => problems[p].tags \subseteq Active

\* A hidden problem becomes public only by the write of a moderator, although
\* an update writes is_hidden as it was read.
OnlyModeratorsPublish ==
    [][\A p \in Ids : ~Published(p) /\ Published(p)' =>
          \E r \in Requests : /\ request[r].id = p
                              /\ request[r].actor = "moderator"
                              /\ request[r].pc = "write"
                              /\ request'[r].pc = "invalidate"]_vars

\* The sections that the backfill takes out of a description are in the
\* formats, however its updates and the authors' whole-row updates overlap.
StatementWhole ==
    \A p \in Ids : problems[p].desc = "lead" => problems[p].fmt # "empty"

\* A cached visibility that is not the row's has an excuse: the writer is about
\* to delete the entry, could not, or met a load that had already read the row.
\* And a lookup that waits has a load to wait for: one that ends, with or without
\* a result, leaves no waiter behind.
CacheSound ==
    /\ \A p \in Ids : cache[p] \notin {"none", View(p)} =>
          \/ p \in overlapped
          \/ \E r \in Requests : request[r].id = p /\ request[r].pc = "invalidate"
    /\ \A g \in Readers : reader[g].pc = "wait" => load[reader[g].id].pc # "none"

\* Once the writes are over the cache agrees with the table for good.
EventuallyFresh == <>[](\A p \in Ids : cache[p] \in {"none", View(p)})

=============================================================================
