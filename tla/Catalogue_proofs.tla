-------------------------- MODULE Catalogue_proofs --------------------------
(***************************************************************************)
(* Safety of Catalogue, for every number of problems, tags, requests and   *)
(* lookups.                                                                *)
(***************************************************************************)
EXTENDS Catalogue, TLAPS

\* Rows and requests.  A bound on the slugs is not needed here.
Rows == [state : {"none", "live", "deleted"}, slug : Nat, hidden : BOOLEAN,
         tags : SUBSET Tags, desc : {"legacy", "lead", "new"},
         fmt : {"empty", "split", "new"}]

Ops == {"none", "create", "update", "publish", "hide", "delete", "seed", "updateTag",
        "deleteTag", "backfill"}

Pcs == {"idle", "exists", "slug", "insert", "apply", "write", "invalidate", "count",
        "counted"}

Records == [op : Ops, pc : Pcs, actor : Actors, id : 0..MaxProblems, tag : SUBSET Tags,
            row : Rows, active : SUBSET Tags, want : {"none"} \cup Edits \cup TagEdits]

Loads == [pc : {"none", "recheck", "read", "loaded", "stored"},
          view : {"none", "hidden", "public"}]

Lookups == [pc : {"idle", "wait", "granted", "refused"}, id : 0..MaxProblems,
            actor : Actors]

TypeInv ==
    /\ problems \in [Ids -> Rows]
    /\ tags \in [Tags -> {"none", "active", "inactive"}]
    /\ request \in [Requests -> Records]
    /\ cache \in [Ids -> {"none", "hidden", "public"}]
    /\ load \in [Ids -> Loads]
    /\ reader \in [Readers -> Lookups]

Whole(row) == row.desc = "lead" => row.fmt # "empty"

\* A row on its way to an UPDATE was read from a live problem; if it makes the
\* problem public, a moderator writes it, and its tags were active when they were
\* looked at.
Sane(q) ==
    /\ q.op \in {"update", "publish", "hide"} /\ q.pc \in {"apply", "write"} =>
          /\ q.row.state = "live" /\ Whole(q.row)
          /\ ~q.row.hidden => /\ q.actor = "moderator"
                              /\ q.row.tags \subseteq q.active \/ q.id \in raced
    /\ q.op = "create" => q.row.state = "live" /\ q.row.hidden /\ Whole(q.row)
    /\ q.op \in {"update", "publish", "hide", "delete", "backfill"} =>
          q.id \in Ids /\ problems[q.id].state # "none"
    /\ q.op \in {"updateTag", "deleteTag"} =>
          /\ \A t, u \in q.tag : t = u
          /\ q.pc = "write" /\ q.want = "deactivate" => q.active = {}
          /\ q.want \in TagEdits
    /\ q.op = "update" /\ q.pc = "apply" => q.want \in Edits
    /\ q.pc = "invalidate" => q.op \in {"update", "publish", "hide", "delete"}

RequestInv == \A r \in Requests : Sane(request[r])

\* Only what is in the table is ever looked up, and a load that holds an old
\* row is known.
LoadInv ==
    /\ \A p \in Ids :
          /\ problems[p].state = "none" => cache[p] = "none" /\ load[p].pc = "none"
          /\ load[p].pc = "loaded" => load[p].view = View(p) \/ p \in overlapped
    /\ \A g \in Readers : reader[g].pc = "wait" => reader[g].id \in Ids

StoreInv == RequestInv /\ PublishedTagsActive /\ StatementWhole

Inv == TypeInv /\ StoreInv /\ LoadInv /\ CacheSound

-----------------------------------------------------------------------------
\* Init

\* The invariant holds of the tables as they are and of an empty cache.
LEMMA InvInit ==
    ASSUME Init
    PROVE  Inv
  <1> USE CatalogueAssumption DEF Ids
  <1>1. TypeInv
    <2>1. Idle \in Records /\ NoRow \in Rows /\ NoLoad \in Loads
      BY DEF Idle, Records, NoRow, Rows, NoLoad, Loads, Ops, Pcs, Actors
    <2>2. problems \in [Ids -> Rows]
      BY <2>1 DEF Init, Rows
    <2>3. tags \in [Tags -> {"none", "active", "inactive"}]
      BY DEF Init
    <2> QED
      BY <2>1, <2>2, <2>3 DEF Init, TypeInv, Lookups, Actors
  <1>2. RequestInv
    BY DEF Init, RequestInv, Sane, Idle
  <1>3. PublishedTagsActive /\ StatementWhole
    BY DEF Init, PublishedTagsActive, StatementWhole, Published, Live, Active, NoRow
  <1>4. LoadInv /\ CacheSound
    BY DEF Init, LoadInv, CacheSound, NoLoad
  <1> QED
    BY <1>1, <1>2, <1>3, <1>4 DEF Inv, StoreInv

-----------------------------------------------------------------------------
\* Steps of the requests

\* A step that changes one request only, and not one that has an entry of the
\* cache to delete.
LEMMA QuietStep ==
    ASSUME Inv, NEW r \in Requests, request[r].pc # "invalidate",
           NEW q \in Records, Sane(q), request' = [request EXCEPT ![r] = q],
           UNCHANGED <<store, lookup, overlapped, raced>>
    PROVE  Inv'
  <1> USE DEF store, lookup
  <1>1. TypeInv'
    BY DEF Inv, TypeInv
  <1>2. RequestInv'
    BY DEF Inv, StoreInv, TypeInv, RequestInv, Sane
  <1>3. PublishedTagsActive' /\ StatementWhole'
    BY DEF Inv, StoreInv, PublishedTagsActive, StatementWhole, Published, Live, Active
  <1>4. LoadInv'
    BY DEF Inv, LoadInv, View, Live
  <1>5. CacheSound'
    <2>1. ASSUME NEW p \in Ids, cache[p] \notin {"none", View(p)}
          PROVE  \/ p \in overlapped
                 \/ \E s \in Requests : request'[s].id = p /\ request'[s].pc = "invalidate"
      BY <2>1 DEF Inv, TypeInv, CacheSound
    <2> QED
      BY <2>1 DEF Inv, CacheSound, View, Live
  <1> QED
    BY <1>1, <1>2, <1>3, <1>4, <1>5 DEF Inv, StoreInv

\* The blank records are of their types.
LEMMA IdleType == Idle \in Records /\ NoRow \in Rows
  BY CatalogueAssumption DEF Idle, Records, NoRow, Rows, Ops, Pcs, Actors

\* A request that is over says nothing.
LEMMA IdleSane ==
    ASSUME NEW pc \in {"idle", "exists"}
    PROVE  [Idle EXCEPT !.pc = pc] \in Records /\ Sane([Idle EXCEPT !.pc = pc])
  <1>1. [Idle EXCEPT !.pc = pc] \in Records
    BY IdleType DEF Records, Pcs
  <1>2. [Idle EXCEPT !.pc = pc].op = "none" /\ [Idle EXCEPT !.pc = pc].pc = pc
    BY DEF Idle
  <1> QED
    BY <1>1, <1>2 DEF Sane

\* What a request knows when it starts: CreateProblem, the requests that read a
\* problem, the tags and the commands.
LEMMA StartStep ==
    ASSUME Inv, NEW r \in Requests, RequestStart(r)
    PROVE  Inv'
  <1> USE CatalogueAssumption
  <1>1. ASSUME NEW q \in Records, Sane(q), Start(r, q)
        PROVE  Inv'
    BY <1>1, QuietStep, Zenon DEF Start, Free
  <1>2. ASSUME NEW ts \in SUBSET Tags, CreateProblem(r, ts)
        PROVE  Inv'
    <2> DEFINE q == [Idle EXCEPT !.op = "create", !.pc = "slug",
                        !.actor = "author", !.active = ts,
                        !.row = [NoRow EXCEPT !.state = "live", !.tags = ts]]
    <2>1. [NoRow EXCEPT !.state = "live", !.tags = ts] \in Rows
      BY IdleType, Zenon DEF Rows
    <2>2. q \in Records
      BY <2>1, IdleType, Zenon DEF Records, Ops, Pcs, Actors
    <2>3. /\ q.op = "create" /\ q.pc = "slug"
          /\ q.row.state = "live" /\ q.row.hidden = TRUE /\ q.row.desc = "new"
      BY Zenon DEF Idle, NoRow
    <2>4. q \in Records /\ Sane(q)
      <3> HIDE DEF q
      <3> QED
        BY <2>2, <2>3 DEF Sane, Whole
    <2>5. Start(r, q)
      BY <1>2 DEF CreateProblem
    <2> QED
      BY <1>1, <2>4, <2>5
  <1>3. ASSUME NEW p \in Ids, Live(p)
        PROVE  /\ problems[p] \in Rows /\ p \in 0..MaxProblems
               /\ problems[p].tags \cap Active \subseteq Tags
               /\ Whole(problems[p]) /\ problems[p].state = "live"
               /\ ~problems[p].hidden =>
                     problems[p].tags \subseteq problems[p].tags \cap Active \/ p \in raced
    BY <1>3 DEF Inv, TypeInv, Rows, StoreInv, StatementWhole, PublishedTagsActive, Live,
                Published, Whole, Active, Ids
  <1>4. ASSUME NEW p \in Ids, NEW a \in Actors, NEW e \in Edits, UpdateProblem(r, p, a, e)
        PROVE  Inv'
    <2> DEFINE q == [ReadProblem(p) EXCEPT !.op = "update", !.pc = "apply",
                        !.actor = a, !.want = e]
    <2>1. q \in Records /\ Sane(q)
      BY <1>3, <1>4, Zenon DEF UpdateProblem, MayChange, ReadProblem, Idle, Records,
            Sane, Ops, Pcs
    <2>2. Start(r, q)
      BY <1>4 DEF UpdateProblem
    <2> QED
      BY <1>1, <2>1, <2>2
  <1>5. ASSUME NEW p \in Ids, PublishProblem(r, p) PROVE Inv'
    <2> DEFINE q == [ReadProblem(p) EXCEPT !.op = "publish", !.pc = "write",
                        !.actor = "moderator", !.row.hidden = FALSE]
    <2>1. ReadProblem(p) \in Records
      BY <1>3, <1>5, IdleType, Zenon DEF PublishProblem, ReadProblem, Records
    <2>2. q \in Records
      BY <2>1, Zenon DEF Records, Ops, Pcs, Rows, Actors
    <2>3. /\ q.op = "publish" /\ q.pc = "write" /\ q.id = p /\ q.actor = "moderator"
          /\ q.row.state = "live" /\ q.row.tags \subseteq q.active /\ Whole(q.row)
          /\ problems[p].state = "live"
      BY <1>3, <1>5 DEF PublishProblem, ReadProblem, Idle, Rows, Whole
    <2>4. q \in Records /\ Sane(q)
      <3> HIDE DEF q
      <3> QED
        BY <2>2, <2>3 DEF Sane
    <2>5. Start(r, q)
      BY <1>5 DEF PublishProblem
    <2> QED
      BY <1>1, <2>4, <2>5
  <1>6. ASSUME NEW p \in Ids, HiddenProblem(r, p) PROVE Inv'
    <2> DEFINE q == [ReadProblem(p) EXCEPT !.op = "hide", !.pc = "write",
                        !.actor = "moderator", !.row.hidden = TRUE]
    <2>1. ReadProblem(p) \in Records
      BY <1>3, <1>6, IdleType, Zenon DEF HiddenProblem, ReadProblem, Records
    <2>2. q \in Records
      BY <2>1, Zenon DEF Records, Ops, Pcs, Rows, Actors
    <2>3. /\ q.op = "hide" /\ q.pc = "write" /\ q.id = p
          /\ q.row.state = "live" /\ q.row.hidden = TRUE /\ Whole(q.row)
          /\ problems[p].state = "live"
      BY <1>3, <1>6 DEF HiddenProblem, ReadProblem, Idle, Rows, Whole
    <2>4. q \in Records /\ Sane(q)
      <3> HIDE DEF q
      <3> QED
        BY <2>2, <2>3 DEF Sane
    <2>5. Start(r, q)
      BY <1>6 DEF HiddenProblem
    <2> QED
      BY <1>1, <2>4, <2>5
  <1>7. ASSUME NEW p \in Ids, NEW a \in Actors, DeleteProblem(r, p, a) PROVE Inv'
    <2> DEFINE q == [ReadProblem(p) EXCEPT !.op = "delete", !.pc = "write", !.actor = a]
    <2>1. q \in Records /\ Sane(q)
      BY <1>3, <1>7, Zenon DEF DeleteProblem, ReadProblem, Idle, Records, Sane, Ops, Pcs
    <2>2. Start(r, q)
      BY <1>7 DEF DeleteProblem
    <2> QED
      BY <1>1, <2>1, <2>2
  <1>8. ASSUME NEW p \in Ids, Backfill(r, p) PROVE Inv'
    <2> DEFINE q == [Idle EXCEPT !.op = "backfill", !.pc = "write", !.id = p]
    <2>1. q \in Records /\ Sane(q)
      BY <1>3, <1>8, Zenon DEF Backfill, Idle, Records, Sane, Ops, Pcs, NoRow, Rows, Actors
    <2>2. Start(r, q)
      BY <1>8 DEF Backfill
    <2> QED
      BY <1>1, <2>1, <2>2
  <1>9. ASSUME NEW t \in Tags, SeedTag(r, t) PROVE Inv'
    <2> DEFINE q == [Idle EXCEPT !.op = "seed", !.pc = "insert", !.tag = {t}]
    <2>1. q \in Records
      BY IdleType, Zenon DEF Records, Ops, Pcs
    <2>2. q.op = "seed" /\ q.pc = "insert"
      BY DEF Idle
    <2>3. q \in Records /\ Sane(q)
      <3> HIDE DEF q
      <3> QED
        BY <2>1, <2>2 DEF Sane
    <2>4. Start(r, q)
      BY <1>9 DEF SeedTag
    <2> QED
      BY <1>1, <2>3, <2>4
  <1>10. ASSUME NEW t \in Tags, NEW e \in TagEdits,
                UpdateTag(r, t, e) \/ (e = "deactivate" /\ DeleteTag(r, t))
         PROVE  Inv'
    <2>1. PICK op \in {"updateTag", "deleteTag"} : Start(r, ReadTag(t, op, e))
      BY <1>10 DEF UpdateTag, DeleteTag
    <2>2. ReadTag(t, op, e) \in Records
      BY IdleType, Zenon DEF ReadTag, Records, Ops, Pcs, Actors, TagEdits
    <2>3. /\ ReadTag(t, op, e).op = op /\ ReadTag(t, op, e).tag = {t}
          /\ ReadTag(t, op, e).want = e /\ ReadTag(t, op, e).pc \in {"count", "write"}
          /\ ReadTag(t, op, e).active = {t} \cap Active
          /\ e = "deactivate" /\ t \in Active => ReadTag(t, op, e).pc = "count"
      BY DEF ReadTag, Idle
    <2>4. ReadTag(t, op, e) \in Records /\ Sane(ReadTag(t, op, e))
      BY <2>2, <2>3 DEF Sane, TagEdits
    <2> QED
      BY <1>1, <2>1, <2>4
  <1> QED
    BY <1>2, <1>4, <1>5, <1>6, <1>7, <1>8, <1>9, <1>10 DEF RequestStart, TagEdits

\* A step that writes the row of a problem.  The request still has to delete the
\* cached entry if the visibility has changed and somebody may have looked it up.
LEMMA TableStep ==
    ASSUME Inv, NEW r \in Requests, request[r].pc # "invalidate",
           NEW q \in Records, Sane(q)', request' = [request EXCEPT ![r] = q],
           NEW p \in Ids, NEW n \in Rows, n.state # "none", Whole(n),
           problems' = [problems EXCEPT ![p] = n],
           UNCHANGED <<tags, lookup>>,
           raced \subseteq raced', overlapped \subseteq overlapped',
           n.state = "live" /\ ~n.hidden => n.tags \subseteq Active \/ p \in raced',
           \/ View(p)' = View(p)
           \/ cache[p] = "none" /\ load[p].pc = "none"
           \/ /\ q.id = p /\ q.pc = "invalidate"
              /\ load[p].pc = "loaded" => p \in overlapped'
    PROVE  Inv'
  <1> USE DEF lookup
  <1>1. TypeInv'
    BY DEF Inv, TypeInv
  <1>2. RequestInv'
    <2>1. \A s \in Requests : s # r => Sane(request[s])'
      BY DEF Inv, StoreInv, TypeInv, RequestInv, Sane
    <2> QED
      BY <2>1 DEF Inv, TypeInv, RequestInv
  <1>3. PublishedTagsActive'
    BY DEF Inv, TypeInv, StoreInv, PublishedTagsActive, Published, Live, Active
  <1>4. StatementWhole'
    BY DEF Inv, TypeInv, StoreInv, StatementWhole, Whole
  <1>5. \A c \in Ids : c # p => View(c)' = View(c)
    BY DEF Inv, TypeInv, View, Live
  <1>6. LoadInv'
    <2>1. ASSUME NEW c \in Ids
          PROVE  /\ problems'[c].state = "none" => cache[c] = "none" /\ load[c].pc = "none"
                 /\ load[c].pc = "loaded" => load[c].view = View(c)' \/ c \in overlapped'
      BY <1>5 DEF Inv, TypeInv, LoadInv
    <2> QED
      BY <2>1 DEF Inv, LoadInv
  <1>7. CacheSound'
    <2>1. ASSUME NEW c \in Ids, cache[c] \notin {"none", View(c)'}
          PROVE  \/ c \in overlapped'
                 \/ \E s \in Requests : request'[s].id = c /\ request'[s].pc = "invalidate"
      BY <1>5, <2>1 DEF Inv, TypeInv, CacheSound
    <2> QED
      BY <2>1 DEF Inv, CacheSound
  <1> QED
    BY <1>1, <1>2, <1>3, <1>4, <1>6, <1>7 DEF Inv, StoreInv

\* A step that writes a tag.
LEMMA TagStep ==
    ASSUME Inv, tags' \in [Tags -> {"none", "active", "inactive"}],
           request' \in [Requests -> Records], RequestInv',
           \A s \in Requests : request[s].pc = "invalidate" => request'[s] = request[s],
           UNCHANGED <<problems, lookup, overlapped>>, PublishedTagsActive'
    PROVE  Inv'
  <1> USE DEF lookup
  <1>1. TypeInv' /\ StatementWhole'
    BY DEF Inv, TypeInv, StoreInv, StatementWhole
  <1>2. LoadInv' /\ \A p \in Ids : View(p)' = View(p)
    BY DEF Inv, LoadInv, View, Live
  <1>3. CacheSound'
    BY <1>2 DEF Inv, CacheSound
  <1> QED
    BY <1>1, <1>2, <1>3 DEF Inv, StoreInv

\* The steps of a request that only read.
LEMMA ReadStep ==
    ASSUME Inv, NEW r \in Requests,
           \/ GenerateUniqueSlug(r) \/ ApplyEdit(r) \/ CountPublished(r) \/ RequestFails(r)
    PROVE  Inv'
  <1>1. request[r] \in Records /\ Sane(request[r]) /\ request \in [Requests -> Records]
    BY DEF Inv, TypeInv, StoreInv, RequestInv
  <1>2. request[r].pc # "invalidate"
    BY DEF GenerateUniqueSlug, ApplyEdit, CountPublished, RequestFails
  <1>3. UNCHANGED <<store, lookup, overlapped, raced>>
    BY DEF GenerateUniqueSlug, ApplyEdit, CountPublished, RequestFails
  <1>4. ASSUME NEW q \in Records, Sane(q), request' = [request EXCEPT ![r] = q]
        PROVE  Inv'
    BY <1>2, <1>3, <1>4, QuietStep, Zenon
  <1>5. CASE Done(r)
    <2>1. Idle \in Records /\ Sane(Idle)
      <3>1. Idle.op = "none" /\ Idle.pc = "idle"
        BY DEF Idle
      <3> QED
        BY <3>1, IdleType DEF Sane
    <2> QED
      BY <1>4, <1>5, <2>1, Zenon DEF Done
  <1>6. CASE GenerateUniqueSlug(r)
    <2>1. CASE request' = [request EXCEPT ![r].row.slug = request[r].row.slug + 1]
      <3> DEFINE q == [request[r] EXCEPT !.row.slug = request[r].row.slug + 1]
      <3>1. q \in Records
        BY <1>1 DEF Records, Rows
      <3>2. Sane(q)
        BY <1>1, <1>6 DEF GenerateUniqueSlug, Records, Rows, Sane, Whole
      <3>3. request' = [request EXCEPT ![r] = q]
        BY <1>1, <2>1
      <3> QED
        BY <1>4, <3>1, <3>2, <3>3, Zenon
    <2>2. CASE Goto(r, "insert")
      <3> DEFINE q == [request[r] EXCEPT !.pc = "insert"]
      <3>1. q \in Records
        BY <1>1 DEF Records, Pcs
      <3>2. Sane(q)
        BY <1>1, <1>6 DEF GenerateUniqueSlug, Records, Sane
      <3>3. request' = [request EXCEPT ![r] = q]
        BY <1>1, <2>2 DEF Goto
      <3> QED
        BY <1>4, <3>1, <3>2, <3>3, Zenon
    <2> QED
      BY <1>6, <2>1, <2>2 DEF GenerateUniqueSlug
  <1>7. CASE ApplyEdit(r) /\ ~EditRefused(request[r])
    <2> DEFINE e == EditedRow(request[r])
               q == [request[r] EXCEPT !.row = e, !.pc = "write", !.want = "none",
                        !.active = IF request[r].want = "retag" THEN Tags ELSE @]
    <2>1. request[r].op = "update" /\ request[r].pc = "apply" /\ request[r].want \in Edits
      BY <1>1, <1>7 DEF ApplyEdit, Sane
    <2>2. e \in Rows /\ e.state = request[r].row.state /\ e.hidden = request[r].row.hidden
      BY <1>1, <2>1, Zenon DEF EditedRow, Edits, Records, Rows
    <2>3. Whole(request[r].row) => Whole(e)
      BY <1>1, <2>1 DEF EditedRow, Edits, Records, Rows, Whole
    <2>4. e.tags = IF request[r].want = "retag" THEN Tags ELSE request[r].row.tags
      BY <1>1, <2>1 DEF EditedRow, Edits, Records, Rows
    <2>5. q \in Records
      <3> HIDE DEF e
      <3> QED
        BY <1>1, <2>2, Zenon DEF Records, Pcs
    <2>6. Sane(q)
      <3> HIDE DEF e
      <3> QED
        BY <1>1, <2>1, <2>2, <2>3, <2>4 DEF Records, Sane
    <2>7. request' = [request EXCEPT ![r] = q]
      BY <1>7 DEF ApplyEdit
    <2> QED
      BY <1>4, <2>5, <2>6, <2>7, Zenon
  <1>8. CASE CountPublished(r) /\ Goto(r, "counted")
    <2> DEFINE q == [request[r] EXCEPT !.pc = "counted"]
    <2>1. q \in Records
      BY <1>1 DEF Records, Pcs
    <2>2. Sane(q)
      BY <1>1, <1>8 DEF CountPublished, Records, Sane
    <2>3. request' = [request EXCEPT ![r] = q]
      BY <1>1, <1>8 DEF Goto
    <2> QED
      BY <1>4, <2>1, <2>2, <2>3, Zenon
  <1> QED
    BY <1>5, <1>6, <1>7, <1>8 DEF ApplyEdit, CountPublished, RequestFails

\* A request that is over holds nothing to account for, in the next state either.
LEMMA IdleSaneNext ==
    ASSUME NEW pc \in {"idle", "exists"}
    PROVE  Sane([Idle EXCEPT !.pc = pc])' /\ Idle = [Idle EXCEPT !.pc = "idle"]
  <1>1. [Idle EXCEPT !.pc = pc].op = "none" /\ [Idle EXCEPT !.pc = pc].pc = pc
    BY DEF Idle
  <1>2. Idle = [Idle EXCEPT !.pc = "idle"]
    BY DEF Idle
  <1> QED
    BY <1>1, <1>2 DEF Sane

\* The steps of a request that write a row.
LEMMA WriteStep ==
    ASSUME Inv, NEW r \in Requests,
           \/ InsertProblem(r) \/ WriteProblem(r) \/ DeleteRow(r)
           \/ UpdateFormatsForBackfill(r)
    PROVE  Inv'
  <1>1. PICK q \in Records : /\ q = request[r] /\ Sane(q) /\ q.row \in Rows
                             /\ request \in [Requests -> Records]
                             /\ problems \in [Ids -> Rows]
    BY DEF Inv, TypeInv, StoreInv, RequestInv, Records
  <1>2. q.pc # "invalidate"
    BY <1>1 DEF InsertProblem, WriteProblem, DeleteRow, UpdateFormatsForBackfill, Sane
  <1>3. UNCHANGED <<tags, lookup>> /\ raced \subseteq raced' /\ overlapped \subseteq overlapped'
    BY DEF InsertProblem, WriteProblem, DeleteRow, UpdateFormatsForBackfill, NoteOverlap
  <1>4. ASSUME NEW pc \in {"idle", "exists"}, UNCHANGED <<problems, overlapped, raced>>,
               request' = [request EXCEPT ![r] = [Idle EXCEPT !.pc = pc]]
        PROVE  Inv'
    BY <1>1, <1>2, <1>3, <1>4, IdleSane, QuietStep, Zenon DEF store
  <1>5. CASE InsertProblem(r)
    <2>1. CASE Holders(q.row.slug) # {}
      BY <1>1, <1>4, <1>5, <2>1 DEF InsertProblem, Exists
    <2>2. CASE Holders(q.row.slug) = {}
      <3>1. PICK p \in Ids : /\ problems[p].state = "none"
                             /\ problems' = [problems EXCEPT ![p] = q.row]
        BY <1>1, <1>5, <2>2 DEF InsertProblem
      <3>2. q.row.state = "live" /\ q.row.hidden /\ Whole(q.row)
        BY <1>1, <1>5 DEF InsertProblem, Sane
      <3>3. cache[p] = "none" /\ load[p].pc = "none"
        BY <3>1 DEF Inv, LoadInv
      <3>4. request' = [request EXCEPT ![r] = Idle] /\ Idle \in Records /\ Sane(Idle)'
        BY <1>1, <1>5, <2>2, IdleType, IdleSaneNext DEF InsertProblem, Done
      <3> QED
        BY <1>1, <1>2, <1>3, <3>1, <3>2, <3>3, <3>4, TableStep, Zenon
    <2> QED
      BY <2>1, <2>2
  <1>6. CASE WriteProblem(r)
    <2>1. CASE Live(q.id) /\ Holders(q.row.slug) \ {q.id} # {}
      BY <1>1, <1>4, <1>6, <2>1 DEF WriteProblem, Exists
    <2>2. CASE ~(Live(q.id) /\ Holders(q.row.slug) \ {q.id} # {})
      <3> DEFINE n == UpdatedRow(problems[q.id], q.row)
      <3>1. /\ q.id \in Ids /\ problems[q.id].state # "none"
            /\ q.row.state = "live" /\ Whole(q.row) /\ Whole(problems[q.id])
            /\ ~q.row.hidden => q.row.tags \subseteq q.active \/ q.id \in raced
        BY <1>1, <1>6 DEF WriteProblem, Sane, Inv, StoreInv, StatementWhole, Whole
      <3>2. n \in Rows /\ n.state # "none" /\ Whole(n)
        BY <1>1, <3>1 DEF UpdatedRow, Rows, Whole
      <3>3. /\ problems' = [problems EXCEPT ![q.id] = n]
            /\ request' = [request EXCEPT ![r].pc = "invalidate"]
        BY <1>1, <1>6, <2>2 DEF WriteProblem, Goto
      <3>4. PICK z \in Records : /\ z.id = q.id /\ z.pc = "invalidate" /\ z.op = q.op
                                 /\ request' = [request EXCEPT ![r] = z]
        <4> DEFINE z == [q EXCEPT !.pc = "invalidate"]
        <4>1. z \in Records
          BY DEF Records, Pcs
        <4>2. z.id = q.id /\ z.pc = "invalidate" /\ z.op = q.op
          BY DEF Records
        <4>3. request' = [request EXCEPT ![r] = z]
          BY <1>1, <3>3
        <4> QED
          BY <4>1, <4>2, <4>3, Zenon
      <3>5. problems'[q.id].state # "none"
        <4> HIDE DEF n
        <4> QED
          BY <1>1, <3>1, <3>2, <3>3
      <3>6. Sane(z)'
        BY <1>1, <1>6, <3>1, <3>4, <3>5 DEF WriteProblem, Sane
      <3>7. n.state = "live" => n = q.row
        BY <1>1, <3>1 DEF UpdatedRow, Rows
      <3>8. n.state = "live" /\ ~n.hidden => n.tags \subseteq Active \/ q.id \in raced'
        BY <1>1, <1>3, <1>6, <2>2, <3>1, <3>7 DEF WriteProblem
      <3>9. load[q.id].pc = "loaded" => q.id \in overlapped'
        BY <1>1, <1>6, <2>2 DEF WriteProblem, NoteOverlap
      <3> HIDE DEF n
      <3> QED
        BY <1>1, <1>2, <1>3, <3>1, <3>2, <3>3, <3>4, <3>6, <3>8, <3>9, TableStep, Zenon
    <2> QED
      BY <2>1, <2>2
  <1>7. CASE DeleteRow(r)
    <2>1. CASE ~Live(q.id)
      BY <1>1, <1>4, <1>7, <2>1, IdleSaneNext DEF DeleteRow, Done
    <2>2. CASE Live(q.id)
      <3> DEFINE n == [problems[q.id] EXCEPT !.state = "deleted"]
      <3>1. q.id \in Ids /\ q.op = "delete" /\ Whole(problems[q.id])
        BY <1>1, <1>7 DEF DeleteRow, Sane, Inv, StoreInv, StatementWhole, Whole
      <3>2. n \in Rows /\ n.state = "deleted" /\ Whole(n)
        BY <1>1, <3>1 DEF Rows, Whole
      <3>3. /\ problems' = [problems EXCEPT ![q.id] = n]
            /\ request' = [request EXCEPT ![r].pc = "invalidate"]
        BY <1>1, <1>7, <2>2, <3>1 DEF DeleteRow, Goto
      <3>4. PICK z \in Records : /\ z.id = q.id /\ z.pc = "invalidate" /\ z.op = q.op
                                 /\ request' = [request EXCEPT ![r] = z]
        <4> DEFINE z == [q EXCEPT !.pc = "invalidate"]
        <4>1. z \in Records
          BY DEF Records, Pcs
        <4>2. z.id = q.id /\ z.pc = "invalidate" /\ z.op = q.op
          BY DEF Records
        <4>3. request' = [request EXCEPT ![r] = z]
          BY <1>1, <3>3
        <4> QED
          BY <4>1, <4>2, <4>3, Zenon
      <3>5. problems'[q.id].state # "none"
        <4> HIDE DEF n
        <4> QED
          BY <1>1, <3>1, <3>2, <3>3
      <3>6. Sane(z)'
        BY <3>1, <3>4, <3>5 DEF Sane
      <3>7. load[q.id].pc = "loaded" => q.id \in overlapped'
        BY <1>1, <1>7, <2>2 DEF DeleteRow, NoteOverlap
      <3> HIDE DEF n
      <3> QED
        BY <1>1, <1>2, <1>3, <3>1, <3>2, <3>3, <3>4, <3>6, <3>7, TableStep, Zenon
    <2> QED
      BY <2>1, <2>2
  <1>8. CASE UpdateFormatsForBackfill(r)
    <2>1. request' = [request EXCEPT ![r] = Idle] /\ Idle \in Records /\ Sane(Idle)'
      BY <1>8, IdleType, IdleSaneNext DEF UpdateFormatsForBackfill, Done
    <2>2. CASE UNCHANGED problems
      BY <1>4, <1>8, <2>1, <2>2, IdleSaneNext, Zenon DEF UpdateFormatsForBackfill
    <2>3. CASE Live(q.id) /\ problems[q.id].fmt = "empty"
      <3> DEFINE n == [problems[q.id] EXCEPT !.desc = "lead", !.fmt = "split"]
      <3>1. q.id \in Ids
        BY <1>1, <1>8 DEF UpdateFormatsForBackfill, Sane
      <3>2. /\ n \in Rows /\ n.state = problems[q.id].state /\ n.hidden = problems[q.id].hidden
            /\ n.tags = problems[q.id].tags /\ Whole(n)
        BY <1>1, <3>1, Zenon DEF Rows, Whole
      <3>3. problems' = [problems EXCEPT ![q.id] = n]
        BY <1>1, <1>8, <2>3, <3>1, Zenon DEF UpdateFormatsForBackfill
      <3>4. n.state = "live" /\ ~n.hidden => n.tags \subseteq Active \/ q.id \in raced'
        BY <1>3, <3>1, <3>2 DEF Inv, StoreInv, PublishedTagsActive, Published, Live
      <3> HIDE DEF n
      <3>5. View(q.id)' = View(q.id)
        BY <1>1, <3>1, <3>2, <3>3 DEF View, Live
      <3> QED
        BY <1>1, <1>2, <1>3, <2>1, <2>3, <3>1, <3>2, <3>3, <3>4, <3>5, TableStep,
           Zenon DEF Live
    <2> QED
      BY <1>1, <1>8, <2>2, <2>3 DEF UpdateFormatsForBackfill
  <1> QED
    BY <1>5, <1>6, <1>7, <1>8

\* When a request ends, what the others know stays true.
LEMMA RequestEnds ==
    ASSUME Inv, NEW r \in Requests, Done(r), UNCHANGED problems, raced \subseteq raced'
    PROVE  /\ RequestInv' /\ request' \in [Requests -> Records]
           /\ \A s \in Requests : s # r => request'[s] = request[s]
  <1>1. request \in [Requests -> Records]
    BY DEF Inv, TypeInv
  <1>2. request' = [request EXCEPT ![r] = Idle] /\ Idle \in Records
    BY IdleType DEF Done
  <1>3. /\ request' \in [Requests -> Records] /\ request'[r] = Idle
        /\ \A s \in Requests : s # r => request'[s] = request[s]
    BY <1>1, <1>2
  <1>4. Idle.op = "none" /\ Idle.pc = "idle"
    BY DEF Idle
  <1>5. Sane(request[r])'
    BY <1>3, <1>4 DEF Sane
  <1>6. ASSUME NEW s \in Requests, s # r PROVE Sane(request[s])'
    <2>1. Sane(request[s])
      BY DEF Inv, StoreInv, RequestInv
    <2> QED
      BY <1>3, <1>6, <2>1 DEF Sane
  <1> QED
    BY <1>3, <1>5, <1>6 DEF RequestInv

\* The cached entry is deleted, or the request fails to.
LEMMA InvalidateStep ==
    ASSUME Inv, NEW r \in Requests, Invalidate(r)
    PROVE  Inv'
  <1> USE DEF store
  <1>1. PICK p \in Ids : p = request[r].id
    BY DEF Invalidate, Inv, StoreInv, RequestInv, Sane
  <1>2. Done(r) /\ UNCHANGED <<problems, tags, load, reader, raced>>
    BY DEF Invalidate
  <1>3. /\ \A c \in Ids : cache'[c] \in {"none", cache[c]}
        /\ cache' \in [Ids -> {"none", "hidden", "public"}]
        /\ cache'[p] = "none" \/ p \in overlapped'
        /\ load[p].pc = "loaded" => (p \in overlapped => p \in overlapped')
        /\ \A c \in Ids : c # p => (c \in overlapped => c \in overlapped')
    BY <1>1 DEF Invalidate, EntryGone, Inv, TypeInv
  <1>4. /\ RequestInv' /\ request' \in [Requests -> Records]
        /\ \A s \in Requests : s # r => request'[s] = request[s]
    BY <1>2, RequestEnds
  <1>5. TypeInv'
    BY <1>2, <1>3, <1>4 DEF Inv, TypeInv
  <1>6. /\ PublishedTagsActive' /\ StatementWhole'
        /\ \A c \in Ids : View(c)' = View(c)
    BY <1>2 DEF Inv, StoreInv, PublishedTagsActive, StatementWhole, Published, Live, Active,
                View
  <1>7. LoadInv'
    BY <1>2, <1>3, <1>6 DEF Inv, LoadInv
  <1>8. CacheSound'
    <2>1. ASSUME NEW c \in Ids, cache'[c] \notin {"none", View(c)}
          PROVE  \/ c \in overlapped'
                 \/ \E s \in Requests : request'[s].id = c /\ request'[s].pc = "invalidate"
      <3>1. CASE c = p
        BY <1>3, <2>1, <3>1
      <3>2. CASE c # p
        <4>1. \/ c \in overlapped
              \/ \E s \in Requests : request[s].id = c /\ request[s].pc = "invalidate"
          BY <1>3, <2>1 DEF Inv, CacheSound
        <4> QED
          BY <1>1, <1>3, <1>4, <3>2, <4>1
      <3> QED
        BY <3>1, <3>2
    <2> QED
      BY <1>2, <1>6, <2>1 DEF Inv, CacheSound
  <1> QED
    BY <1>4, <1>5, <1>6, <1>7, <1>8 DEF Inv, StoreInv

\* The steps that write a tag.
LEMMA TagSteps ==
    ASSUME Inv,
           \/ \E t \in Tags : CreateTag(t)
           \/ \E r \in Requests : SeedInsert(r) \/ WriteTag(r)
    PROVE  Inv'
  <1>1. CASE \E t \in Tags : CreateTag(t)
    <2>1. PICK t \in Tags : CreateTag(t)
      BY <1>1
    <2>2. /\ tags' \in [Tags -> {"none", "active", "inactive"}]
          /\ Active \subseteq Active'
      BY <2>1 DEF CreateTag, Inv, TypeInv, Active
    <2>3. PublishedTagsActive'
      BY <2>1, <2>2 DEF CreateTag, Inv, StoreInv, PublishedTagsActive, Published, Live
    <2>4. RequestInv' /\ request' \in [Requests -> Records]
      BY <2>1 DEF CreateTag, Inv, TypeInv, StoreInv, RequestInv, Sane
    <2> QED
      BY <2>1, <2>2, <2>3, <2>4, TagStep DEF CreateTag
  <1>2. ASSUME NEW r \in Requests, SeedInsert(r) PROVE Inv'
    <2>1. /\ tags' \in [Tags -> {"none", "active", "inactive"}]
          /\ Active \subseteq Active'
      BY <1>2 DEF SeedInsert, Inv, TypeInv, Active
    <2>2. PublishedTagsActive'
      BY <1>2, <2>1 DEF SeedInsert, Inv, StoreInv, PublishedTagsActive, Published, Live
    <2>3. request[r].pc # "invalidate"
      BY <1>2 DEF SeedInsert, Inv, StoreInv, RequestInv, Sane
    <2> QED
      BY <1>2, <2>1, <2>2, <2>3, RequestEnds, TagStep DEF SeedInsert
  <1>3. ASSUME NEW r \in Requests, WriteTag(r) PROVE Inv'
    <2>1. PICK q \in Records : q = request[r] /\ Sane(q)
      BY DEF Inv, TypeInv, StoreInv, RequestInv
    <2> DEFINE on == q.want = "activate" \/ (q.want = "rename" /\ q.active # {})
               stale == q.pc = "counted" \/ q.active = {}
    <2>2. /\ tags' = [t \in Tags |-> IF t \notin q.tag THEN tags[t]
                                    ELSE IF on THEN "active" ELSE "inactive"]
          /\ raced' = IF on \/ ~stale THEN raced
                      ELSE raced \cup {p \in Ids : /\ Published(p)
                                                   /\ q.tag \subseteq problems[p].tags}
      BY <1>3, <2>1 DEF WriteTag
    <2>3. /\ ~on => stale
          /\ \A t, u \in q.tag : t = u
          /\ q.pc \in {"write", "counted"}
      BY <1>3, <2>1 DEF WriteTag, Sane, TagEdits
    <2>4. /\ tags' \in [Tags -> {"none", "active", "inactive"}] /\ raced \subseteq raced'
      BY <2>2 DEF Inv, TypeInv
    <2>5. ASSUME NEW p \in Ids, Published(p), p \notin raced', NEW t \in problems[p].tags
          PROVE  t \in Active'
      <3>1. t \in Active /\ t \in Tags
        BY <2>4, <2>5 DEF Inv, StoreInv, PublishedTagsActive, Active
      <3>2. CASE t \notin q.tag \/ on
        BY <2>2, <3>1, <3>2 DEF Active
      <3>3. CASE t \in q.tag /\ ~on
        BY <2>2, <2>3, <2>5, <3>3
      <3> QED
        BY <3>2, <3>3
    <2>6. PublishedTagsActive'
      BY <1>3, <2>5 DEF WriteTag, PublishedTagsActive, Published, Live
    <2>7. Done(r) /\ UNCHANGED <<problems, lookup, overlapped>>
      BY <1>3 DEF WriteTag
    <2>8. /\ RequestInv' /\ request' \in [Requests -> Records]
          /\ \A s \in Requests : s # r => request'[s] = request[s]
      BY <2>4, <2>7, RequestEnds
    <2>9. request[r].pc # "invalidate"
      BY <2>1, <2>3
    <2> QED
      BY <2>4, <2>6, <2>7, <2>8, <2>9, TagStep
  <1> QED
    BY <1>1, <1>2, <1>3

-----------------------------------------------------------------------------
\* Steps of the lookups

\* They leave the tables and the requests alone.
LEMMA TablesKept ==
    ASSUME Inv, UNCHANGED <<store, request, raced>>
    PROVE  /\ StoreInv' /\ \A p \in Ids : View(p)' = View(p)
           /\ problems' \in [Ids -> Rows]
           /\ tags' \in [Tags -> {"none", "active", "inactive"}]
           /\ request' \in [Requests -> Records]
  <1> USE DEF store
  <1>1. RequestInv'
    BY DEF Inv, StoreInv, RequestInv, Sane
  <1>2. PublishedTagsActive' /\ StatementWhole' /\ \A p \in Ids : View(p)' = View(p)
    BY DEF Inv, StoreInv, PublishedTagsActive, StatementWhole, Published, Live, Active, View
  <1> QED
    BY <1>1, <1>2 DEF Inv, TypeInv, StoreInv

\* What a load of problem p does: the entry may be set to what the load holds.
LEMMA LoadSteps ==
    ASSUME Inv, NEW p \in Ids, LoadStep(p) \/ LoadFails(p)
    PROVE  Inv'
  <1>1. UNCHANGED <<store, request, raced, overlapped>>
    BY DEF LoadStep, Recheck, ReadRow, SetInCache, Deliver, LoadFails
  <1>2. /\ StoreInv' /\ \A c \in Ids : View(c)' = View(c)
        /\ problems' \in [Ids -> Rows]
        /\ tags' \in [Tags -> {"none", "active", "inactive"}]
        /\ request' \in [Requests -> Records]
    BY <1>1, TablesKept
  <1>3. /\ cache \in [Ids -> {"none", "hidden", "public"}] /\ load \in [Ids -> Loads]
        /\ reader \in [Readers -> Lookups] /\ View(p) \in {"none", "hidden", "public"}
    BY DEF Inv, TypeInv, View
  <1>4. load' \in [Ids -> Loads] /\ \A c \in Ids : c # p => load'[c] = load[c]
    BY <1>3 DEF LoadStep, Recheck, ReadRow, SetInCache, Deliver, LoadFails, NoLoad, Loads
  <1>5. /\ cache' \in [Ids -> {"none", "hidden", "public"}]
        /\ \A c \in Ids : \/ cache'[c] = cache[c]
                          \/ c = p /\ load[p].pc = "loaded" /\ cache'[c] = load[p].view
    BY <1>3 DEF LoadStep, Recheck, ReadRow, SetInCache, Deliver, LoadFails, Loads
  <1>6. /\ reader' \in [Readers -> Lookups]
        /\ \A g \in Readers : reader'[g].pc = "wait" =>
              reader'[g] = reader[g] /\ (reader[g].id = p => load'[p].pc # "none")
    <2>1. CASE Deliver(p) \/ LoadFails(p)
      <3>1. \A a \in Actors, v \in {"none", "hidden", "public"} :
               Answer(Access(a, v)) \in Lookups /\ Answer(Access(a, v)).pc # "wait"
        BY CatalogueAssumption DEF Access, Answer, Lookups, Actors
      <3>2. Answer("idle") \in Lookups /\ Answer("idle").pc # "wait"
        BY CatalogueAssumption DEF Answer, Lookups, Actors
      <3>3. ASSUME NEW g \in Readers
            PROVE  /\ reader'[g] \in Lookups
                   /\ \/ reader'[g] = reader[g] /\ g \notin Waiting(p)
                      \/ reader'[g].pc # "wait"
        <4>1. load[p].view \in {"none", "hidden", "public"} /\ reader[g] \in Lookups
              /\ reader[g].actor \in Actors
          BY <1>3 DEF Loads, Lookups
        <4> QED
          BY <2>1, <3>1, <3>2, <4>1 DEF Deliver, LoadFails
      <3>4. reader' \in [Readers -> Lookups]
        <4>1. reader' = [g \in Readers |-> reader'[g]]
          BY <2>1 DEF Deliver, LoadFails
        <4> QED
          BY <3>3, <4>1
      <3> QED
        BY <3>3, <3>4 DEF Waiting
    <2>2. CASE Recheck(p) \/ ReadRow(p) \/ SetInCache(p)
      <3>1. UNCHANGED reader /\ load'[p].pc # "none"
        BY <1>3, <2>2 DEF Recheck, ReadRow, SetInCache, Loads
      <3> QED
        BY <1>3, <3>1
    <2> QED
      BY <2>1, <2>2 DEF LoadStep
  <1>7. load'[p].pc = "loaded" => load'[p].view = View(p)
    BY <1>3 DEF LoadStep, Recheck, ReadRow, SetInCache, Deliver, LoadFails, NoLoad, Loads
  <1>8. load[p].pc # "none"
    BY DEF LoadStep, Recheck, ReadRow, SetInCache, Deliver, LoadFails
  <1>9. TypeInv'
    BY <1>2, <1>4, <1>5, <1>6 DEF TypeInv
  <1>10. LoadInv'
    <2>1. ASSUME NEW c \in Ids, problems[c].state = "none"
          PROVE  cache'[c] = "none" /\ load'[c].pc = "none"
      <3>1. c # p /\ cache[c] = "none" /\ load[c].pc = "none"
        BY <1>8, <2>1 DEF Inv, LoadInv
      <3> QED
        BY <1>4, <1>5, <3>1
    <2>2. ASSUME NEW c \in Ids, load'[c].pc = "loaded"
          PROVE  load'[c].view = View(c) \/ c \in overlapped
      BY <1>4, <1>7, <2>2 DEF Inv, LoadInv
    <2>3. \A g \in Readers : reader'[g].pc = "wait" => reader'[g].id \in Ids
      BY <1>6 DEF Inv, LoadInv
    <2> QED
      BY <1>1, <1>2, <2>1, <2>2, <2>3 DEF store, LoadInv
  <1>11. CacheSound'
    <2>1. ASSUME NEW c \in Ids, cache'[c] \notin {"none", View(c)}
          PROVE  \/ c \in overlapped
                 \/ \E s \in Requests : request[s].id = c /\ request[s].pc = "invalidate"
      BY <1>5, <2>1 DEF Inv, LoadInv, CacheSound
    <2>2. \A g \in Readers : reader'[g].pc = "wait" => load'[reader'[g].id].pc # "none"
      BY <1>4, <1>6 DEF Inv, LoadInv, CacheSound
    <2> QED
      BY <1>1, <1>2, <2>1, <2>2 DEF CacheSound
  <1> QED
    BY <1>2, <1>9, <1>10, <1>11 DEF Inv

\* The other steps: a lookup starts or gives up, an entry expires.
LEMMA LookupSteps ==
    ASSUME Inv,
           \/ \E p \in Ids : Expire(p)
           \/ \E g \in Readers : \/ \E p \in Ids, a \in Actors : GetProblem(g, p, a)
                                 \/ GiveUp(g)
    PROVE  Inv'
  <1> USE DEF store
  <1>1. /\ cache \in [Ids -> {"none", "hidden", "public"}] /\ load \in [Ids -> Loads]
        /\ reader \in [Readers -> Lookups]
    BY DEF Inv, TypeInv
  <1>2. UNCHANGED <<store, request, raced>>
    BY DEF Expire, GetProblem, GiveUp
  <1>3. /\ StoreInv' /\ \A c \in Ids : View(c)' = View(c)
        /\ problems' \in [Ids -> Rows]
        /\ tags' \in [Tags -> {"none", "active", "inactive"}]
        /\ request' \in [Requests -> Records]
    BY <1>2, TablesKept
  <1>4. ASSUME NEW p \in Ids, Expire(p) PROVE Inv'
    <2>1. /\ cache' = [cache EXCEPT ![p] = "none"] /\ UNCHANGED <<load, reader>>
          /\ \A c \in Ids : c # p \/ load[c].pc = "loaded" =>
                (c \in overlapped => c \in overlapped')
      BY <1>4 DEF Expire, EntryGone
    <2>2. TypeInv'
      BY <1>1, <1>3, <2>1 DEF TypeInv
    <2>3. LoadInv'
      BY <1>1, <1>2, <1>3, <2>1 DEF Inv, LoadInv
    <2>4. CacheSound'
      <3>1. ASSUME NEW c \in Ids, cache'[c] \notin {"none", View(c)}
            PROVE  c # p /\ cache[c] \notin {"none", View(c)}
        BY <1>1, <2>1, <3>1
      <3>2. ASSUME NEW c \in Ids, cache'[c] \notin {"none", View(c)}
            PROVE  \/ c \in overlapped'
                   \/ \E s \in Requests : request[s].id = c /\ request[s].pc = "invalidate"
        BY <2>1, <3>1, <3>2 DEF Inv, CacheSound
      <3> QED
        BY <1>2, <1>3, <2>1, <3>2 DEF Inv, CacheSound
    <2> QED
      BY <1>3, <2>2, <2>3, <2>4 DEF Inv
  <1>5. ASSUME reader' \in [Readers -> Lookups],
               \A h \in Readers : reader'[h].pc = "wait" =>
                  \/ reader'[h] = reader[h]
                  \/ reader'[h].id \in Ids /\ load'[reader'[h].id].pc # "none",
               load' \in [Ids -> Loads], UNCHANGED <<cache, overlapped>>,
               \A c \in Ids : \/ load'[c] = load[c]
                              \/ load'[c].pc = "recheck" /\ problems[c].state # "none"
        PROVE  Inv'
    <2>1. TypeInv'
      BY <1>1, <1>3, <1>5 DEF TypeInv
    <2>2. LoadInv'
      BY <1>1, <1>2, <1>3, <1>5 DEF Inv, LoadInv
    <2>3. CacheSound'
      <3>1. \A h \in Readers : reader'[h].pc = "wait" => load'[reader'[h].id].pc # "none"
        <4>1. \A h \in Readers : reader[h].pc = "wait" =>
                 reader[h].id \in Ids /\ load[reader[h].id].pc # "none"
          BY DEF Inv, LoadInv, CacheSound
        <4> QED
          BY <1>5, <4>1
      <3> QED
        BY <1>2, <1>3, <1>5, <3>1 DEF Inv, CacheSound
    <2> QED
      BY <1>3, <2>1, <2>2, <2>3 DEF Inv
  <1>6. \A a \in {"idle", "granted", "refused"} :
           Answer(a) \in Lookups /\ Answer(a).pc = a
    BY CatalogueAssumption DEF Answer, Lookups, Actors
  <1>7. ASSUME NEW g \in Readers, GiveUp(g) PROVE Inv'
    <2>1. PICK w \in Lookups : w.pc = "idle" /\ reader' = [reader EXCEPT ![g] = w]
      BY <1>6, <1>7, Zenon DEF GiveUp
    <2>2. UNCHANGED <<cache, overlapped, load>>
      BY <1>7 DEF GiveUp
    <2>3. /\ reader' \in [Readers -> Lookups]
          /\ \A h \in Readers : reader'[h].pc = "wait" => reader'[h] = reader[h]
      BY <1>1, <2>1
    <2> QED
      BY <1>1, <1>5, <2>2, <2>3
  <1>8. ASSUME NEW g \in Readers, NEW p \in Ids, NEW a \in Actors, GetProblem(g, p, a)
        PROVE  Inv'
    <2>1. CASE reader' = [reader EXCEPT ![g] = Answer(Access(a, cache[p]))] /\ UNCHANGED load
      <3>1. Access(a, cache[p]) \in {"granted", "refused"}
        BY DEF Access
      <3>2. PICK w \in Lookups : w.pc # "wait" /\ reader' = [reader EXCEPT ![g] = w]
        BY <1>6, <2>1, <3>1, Zenon
      <3>3. UNCHANGED <<cache, overlapped, load>>
        BY <1>8, <2>1 DEF GetProblem
      <3>4. /\ reader' \in [Readers -> Lookups]
            /\ \A h \in Readers : reader'[h].pc = "wait" => reader'[h] = reader[h]
        BY <1>1, <3>2
      <3> QED
        BY <1>1, <1>5, <3>3, <3>4
    <2>2. CASE /\ reader' = [reader EXCEPT ![g] = [pc |-> "wait", id |-> p, actor |-> a]]
               /\ load' = IF load[p].pc = "none"
                          THEN [load EXCEPT ![p] = [pc |-> "recheck", view |-> "none"]]
                          ELSE load
      <3>1. PICK w \in Lookups : w.id = p /\ reader' = [reader EXCEPT ![g] = w]
        <4>1. [pc |-> "wait", id |-> p, actor |-> a] \in Lookups
          BY CatalogueAssumption DEF Lookups, Ids
        <4> QED
          BY <2>2, <4>1, Zenon
      <3>2. load' \in [Ids -> Loads] /\ load'[p].pc # "none"
        BY <1>1, <2>2 DEF Loads
      <3>3. \A c \in Ids : \/ load'[c] = load[c]
                           \/ load'[c].pc = "recheck" /\ problems[c].state # "none"
        BY <1>1, <1>8, <2>2 DEF GetProblem
      <3>4. UNCHANGED <<cache, overlapped>>
        BY <1>8 DEF GetProblem
      <3>5. /\ reader' \in [Readers -> Lookups]
            /\ \A h \in Readers : reader'[h] = reader[h] \/ reader'[h].id = p
        BY <1>1, <3>1
      <3> QED
        BY <1>5, <3>2, <3>3, <3>4, <3>5
    <2> QED
      BY <1>8, <2>1, <2>2 DEF GetProblem
  <1> QED
    BY <1>4, <1>7, <1>8

-----------------------------------------------------------------------------
\* Theorems

\* Every step keeps the invariant.
LEMMA InvStep ==
    ASSUME Inv, [Next]_vars
    PROVE  Inv'
  <1>1. CASE UNCHANGED vars
    <2>1. StoreInv' /\ \A p \in Ids : View(p)' = View(p)
      BY <1>1, TablesKept DEF vars, store
    <2>2. TypeInv'
      BY <1>1 DEF vars, store, lookup, Inv, TypeInv
    <2>3. LoadInv'
      BY <1>1, <2>1 DEF vars, store, lookup, Inv, LoadInv
    <2>4. CacheSound'
      BY <1>1, <2>1 DEF vars, store, lookup, Inv, CacheSound
    <2> QED
      BY <2>1, <2>2, <2>3, <2>4 DEF Inv
  <1>2. ASSUME NEW r \in Requests, RequestStart(r) \/ RequestStep(r) \/ RequestFails(r)
        PROVE  Inv'
    BY <1>2, StartStep, ReadStep, WriteStep, InvalidateStep, TagSteps DEF RequestStep
  <1>3. CASE \E p \in Ids : LoadStep(p) \/ LoadFails(p) \/ Expire(p)
    BY <1>3, LoadSteps, LookupSteps
  <1> QED
    BY <1>1, <1>2, <1>3, TagSteps, LookupSteps DEF Next

\* The invariant holds throughout.
LEMMA Safe == Spec => []Inv
  BY InvInit, InvStep, PTL DEF Spec

\* For any number of problems, requests and lookups: a stale visibility in the
\* cache has one of its excuses, and no lookup waits for a load that has ended.
THEOREM CacheIsSound == Spec => []CacheSound
  <1>1. Inv => CacheSound
    BY DEF Inv
  <1> QED
    BY Safe, <1>1, PTL

\* Publish and the deactivation of tags keep their checks honest, for any number
\* of problems and tags, except where two requests raced.
THEOREM TagsStayActive == Spec => []PublishedTagsActive
  <1>1. Inv => PublishedTagsActive
    BY DEF Inv, StoreInv
  <1> QED
    BY Safe, <1>1, PTL

\* The backfill command loses no part of a statement, whatever else is written.
THEOREM StatementsStayWhole == Spec => []StatementWhole
  <1>1. Inv => StatementWhole
    BY DEF Inv, StoreInv
  <1> QED
    BY Safe, <1>1, PTL

\* Of all requests that write is_hidden, only a moderator's makes a problem public:
\* the update of an author was read from a hidden row and writes a hidden row.
THEOREM ModeratorsPublish == Spec => OnlyModeratorsPublish
  <1> DEFINE ByModerator(p) ==
         \E r \in Requests : /\ request[r].id = p
                             /\ request[r].actor = "moderator"
                             /\ request[r].pc = "write"
                             /\ request'[r].pc = "invalidate"
  <1>1. ASSUME Inv, Next, NEW p \in Ids, ~Published(p), Published(p)'
        PROVE  ByModerator(p)
    <2>1. problems \in [Ids -> Rows] /\ request \in [Requests -> Records]
      BY <1>1 DEF Inv, TypeInv
    <2>2. problems' # problems
      BY <1>1 DEF Published, Live
    <2>3. PICK r \in Requests : \/ InsertProblem(r) \/ WriteProblem(r) \/ DeleteRow(r)
                               \/ UpdateFormatsForBackfill(r)
      <3>1. ASSUME NEW r \in Requests, RequestStart(r) PROVE UNCHANGED problems
        <4>1. \A rec : Start(r, rec) => UNCHANGED problems
          BY DEF Start, store
        <4> QED
          BY <3>1, <4>1, Zenon DEF RequestStart, CreateProblem, PublishProblem,
                HiddenProblem, Backfill, DeleteProblem, UpdateProblem, SeedTag, DeleteTag, UpdateTag
      <3>2. ASSUME NEW r \in Requests,
                   \/ GenerateUniqueSlug(r) \/ ApplyEdit(r) \/ Invalidate(r)
                   \/ SeedInsert(r) \/ CountPublished(r) \/ WriteTag(r) \/ RequestFails(r)
            PROVE  UNCHANGED problems
        BY <3>2 DEF GenerateUniqueSlug, ApplyEdit, Invalidate, SeedInsert, CountPublished,
              WriteTag, RequestFails, store
      <3>3. \A c \in Ids : LoadStep(c) \/ LoadFails(c) \/ Expire(c) => UNCHANGED problems
        BY DEF LoadStep, Recheck, ReadRow, SetInCache, Deliver, LoadFails, Expire, store
      <3>4. \A g \in Readers, c \in Ids, a \in Actors :
               GetProblem(g, c, a) => UNCHANGED problems
        BY DEF GetProblem, store
      <3>5. \A g \in Readers : GiveUp(g) => UNCHANGED problems
        BY DEF GiveUp, store
      <3>6. \A t \in Tags : CreateTag(t) => UNCHANGED problems
        BY DEF CreateTag
      <3> QED
        BY <1>1, <2>2, <3>1, <3>2, <3>3, <3>4, <3>5, <3>6 DEF Next, RequestStep
    <2>4. request[r] \in Records /\ request[r].row \in Rows /\ Sane(request[r])
      BY <1>1 DEF Inv, TypeInv, StoreInv, RequestInv, Records
    <2>5. CASE InsertProblem(r)
      <3>1. \A c \in Ids : problems'[c] = problems[c] \/ problems'[c] = request[r].row
        BY <2>1, <2>5 DEF InsertProblem
      <3>2. request[r].row.hidden
        BY <2>4, <2>5, Zenon DEF InsertProblem, Sane
      <3> QED
        BY <1>1, <3>1, <3>2 DEF Published, Live
    <2>6. CASE DeleteRow(r)
      <3>1. \A c \in Ids : problems'[c] = problems[c] \/ problems'[c].state = "deleted"
        BY <2>1, <2>6 DEF DeleteRow, Rows
      <3> QED
        BY <1>1, <3>1 DEF Published, Live
    <2>7. CASE UpdateFormatsForBackfill(r)
      <3>1. \A c \in Ids : /\ problems'[c].state = problems[c].state
                           /\ problems'[c].hidden = problems[c].hidden
        BY <2>1, <2>7 DEF UpdateFormatsForBackfill, Rows
      <3> QED
        BY <1>1, <3>1 DEF Published, Live
    <2>8. CASE WriteProblem(r)
      <3>1. /\ request[r].pc = "write" /\ request'[r].pc = "invalidate"
            /\ problems' = [problems EXCEPT ![request[r].id] =
                              UpdatedRow(problems[request[r].id], request[r].row)]
        BY <2>1, <2>2, <2>4, <2>8 DEF WriteProblem, Goto, Records
      <3>2. request[r].id = p /\ problems'[p] = UpdatedRow(problems[p], request[r].row)
        BY <1>1, <2>1, <3>1 DEF Published, Live
      <3>3. problems'[p] = request[r].row
        BY <1>1, <2>1, <2>4, <3>2 DEF UpdatedRow, Published, Live, Rows
      <3>4. request[r].actor = "moderator"
        BY <1>1, <2>4, <2>8, <3>3 DEF WriteProblem, Sane, Published, Live
      <3> QED
        BY <3>1, <3>2, <3>4
    <2> QED
      BY <2>3, <2>5, <2>6, <2>7, <2>8, Zenon
  <1>2. Inv /\ [Next]_vars =>
           [\A p \in Ids : ~Published(p) /\ Published(p)' => ByModerator(p)]_vars
    BY <1>1
  <1> QED
    BY Safe, <1>2, PTL DEF Spec, OnlyModeratorsPublish

=============================================================================
