------------------------------- MODULE Queries ------------------------------
(***************************************************************************)
(* The queries of the three services that take more than one statement:    *)
(* listings, which are read page by page, the views of a submission, and   *)
(* the statistics of a user.  No query runs in a transaction, so the rows  *)
(* may change between two of its statements.                               *)
(*                                                                         *)
(* One client reads one table while others write to it.  A row is its      *)
(* place in the order of the listing, whether it belongs to the client,    *)
(* the day it was created, and its log: the status of each attempt of a    *)
(* submission, or the one state of a problem or a user.  That a submission *)
(* has the status of its current attempt is TablesAgree of JudgePipeline.  *)
(***************************************************************************)
EXTENDS Integers, Sequences, SequencesExt, FiniteSets

CONSTANTS
    MaxRows,     \* rows of the table
    Keys,        \* places in the order: created_at, or usernames
    Limits,      \* page sizes that the client asks for
    MaxLimit,    \* the largest page that a query returns
    Window,      \* days of activity in the statistics
    MaxWrites,   \* writes of others
    MaxDays      \* midnights

ASSUME QueriesAssumption ==
    /\ {MaxRows, MaxLimit, Window} \subseteq Nat \ {0}
    /\ {MaxWrites, MaxDays} \subseteq Nat
    /\ Keys \subseteq Nat /\ Limits \subseteq Nat

VARIABLES
    table,     \* "submissions", "problems" or "users"
    rows,      \* the rows, by id
    writes, today,
    task,      \* what the client does: "walk", "get", "detail" or "stats"
    pc,
    query,     \* the listing and its filter
    page, total, seen,
    view,      \* what the request at hand has read, by row
    stats,
    first,     \* ghost: rows of the listing when the walk began
    changes    \* ghost: what happened to the listing since

data == <<table, rows, writes, today>>
walk == <<query, page, total, seen>>
ghosts == <<first, changes>>
vars == <<data, task, pc, walk, view, stats, ghosts>>

Ids == 1..MaxRows
Verdicts == {"ACCEPTED", "WRONG_ANSWER", "COMPILATION_ERROR"}
DefaultLimit == 1

\* No counts of testcases.
Nil == <<>>

NoRow == [key |-> 0, own |-> FALSE, day |-> 0, log |-> <<>>]
Stored == {i \in Ids : rows[i].log # <<>>}
Status(i) == Last(rows[i].log)
Attempt(i) == Len(rows[i].log)

NoQuery == [list |-> "none", limit |-> 1, status |-> "any"]
NoStats == [since |-> 0, from |-> 0, total |-> 0, accepted |-> 0,
            verdicts |-> [v \in Verdicts |-> 0], languages |-> 0, activity |-> {}]

\* States of a row when it is inserted, and later.
States ==
    [submissions |-> {"PENDING"} \cup Verdicts,
     problems |-> {"hidden", "public", "deleted"},
     users |-> {"unverified", "active", "suspended", "deleted"}]

Fresh == [submissions |-> "PENDING", problems |-> "hidden", users |-> "unverified"]

Tasks == [submissions |-> {"walk", "get", "detail", "stats"},
          problems |-> {"walk"}, users |-> {"walk"}]

\* Two rows from earlier; days matter to the statistics only, and the order
\* and the owner to listings.
Init ==
    /\ table \in {"submissions", "problems", "users"}
    /\ task \in Tasks[table]
    /\ \E k \in [1..2 -> IF task = "walk" THEN Keys ELSE {1}],
          o \in (IF task = "stats" THEN {TRUE} ELSE BOOLEAN),
          d \in (IF task = "stats" THEN 0..Window ELSE {1}),
          s \in [1..2 -> States[table]] :
          rows = [i \in Ids |-> IF i > 2 THEN NoRow
                  ELSE [key |-> k[i], own |-> o \/ i = 1,
                        day |-> IF i = 1 THEN d ELSE Window, log |-> <<s[i]>>]]
    /\ writes = 0 /\ today = Window
    /\ pc = "start"
    /\ query = NoQuery /\ page = 1 /\ total = 0 /\ seen = [i \in Ids |-> 0]
    /\ view = <<>>
    /\ stats = NoStats
    /\ first = {} /\ changes = {}

-----------------------------------------------------------------------------
\* Listings: which rows a query selects, and in which order

\* applyListFilters, of the submissions.
ApplyListFilters(q, i) ==
    /\ q.list = "mine" => rows[i].own
    /\ q.status \in {"any", Status(i)}

\* problemRepository.List and Count; soft-deleted rows are never selected.
ListedProblem(q, i) ==
    IF q.list = "public" THEN Status(i) = "public" ELSE Status(i) # "deleted"

\* ListByAuthor and CountByAuthor.
ListByAuthor(i) == rows[i].own /\ Status(i) # "deleted"

\* userRepository.ListUsers.
ListUsers(q, i) == Status(i) # "deleted" /\ q.status \in {"any", Status(i)}

\* userRepository.SearchPublicUsers.
SearchPublicUsers(i) == Status(i) = "active"

Selected(q) ==
    {i \in Stored :
        CASE table = "submissions" -> ApplyListFilters(q, i)
          [] q.list = "author" -> ListByAuthor(i)
          [] table = "problems" -> ListedProblem(q, i)
          [] q.list = "accounts" -> ListUsers(q, i)
          [] q.list = "search" -> SearchPublicUsers(i)
          [] OTHER -> FALSE}

\* ORDER BY created_at DESC alone leaves the order of problems of the same
\* time to the database; the other listings break ties by the id.
Before(i, j) ==
    \/ rows[i].key > rows[j].key
    \/ rows[i].key = rows[j].key /\ (table = "problems" \/ i > j)

Orders(S) == {s \in SetToSeqs(S) : \A m, n \in DOMAIN s : m < n => Before(s[m], s[n])}

\* Mutant of Offset: pages counted from 0.
OffsetFromZero == page * query.limit

Offset == (page - 1) * query.limit

Page(s) == {s[n] : n \in {m \in DOMAIN s : Offset < m /\ m <= Offset + query.limit}}

-----------------------------------------------------------------------------
\* Writes of others.  What a write does to the listing of the walk is noted: a
\* row enters it or leaves it, or enters it between a count and its page.

Write(new) ==
    /\ writes < MaxWrites /\ pc \notin {"over", "refused"}
    /\ writes' = writes + 1
    /\ rows' = new
    /\ UNCHANGED <<table, today, task, pc, walk, view, stats, first>>
    /\ LET was == Selected(query) now == Selected(query)'
       IN  changes' = IF task # "walk" \/ pc = "start" THEN changes
                      ELSE changes \cup (IF was \subseteq now THEN {} ELSE {"left"})
                                   \cup (IF now \subseteq was THEN {} ELSE {"entered"})
                                   \cup (IF pc = "page" /\ ~(now \subseteq was)
                                         THEN {"squeezed"} ELSE {})

\* Create.  created_at is the time at which the request built the row, so that
\* a row may come to lie behind newer ones.
Insert(i, k, own) ==
    /\ i \notin Stored /\ (i = 1 \/ i - 1 \in Stored)
    /\ Write([rows EXCEPT ![i] = [key |-> k, own |-> own, day |-> today,
                                  log |-> <<Fresh[table]>>]])

\* A verdict: the attempt's row, its results and the submission's row, in one
\* transaction.
Judge(i, v) ==
    /\ table = "submissions" /\ i \in Stored /\ Status(i) = "PENDING"
    /\ Write([rows EXCEPT ![i].log[Attempt(i)] = v])

\* A new attempt; the results of the old one stay.
Rejudge(i) ==
    /\ table = "submissions" /\ i \in Stored /\ Status(i) \in Verdicts
    /\ Write([rows EXCEPT ![i].log = Append(@, "PENDING")])

\* Problems are published, hidden and deleted; users verified, suspended,
\* released, and deleted when their registration is rolled back.
Change(i, s) ==
    /\ table # "submissions" /\ i \in Stored
    /\ Status(i) \notin {s, "deleted"}
    /\ table = "users" => <<Status(i), s>> \in
          {<<"unverified", "active">>, <<"unverified", "deleted">>,
           <<"active", "suspended">>, <<"suspended", "active">>}
    /\ Write([rows EXCEPT ![i].log = <<s>>])

Midnight ==
    /\ task = "stats" /\ today < Window + MaxDays
    /\ today' = today + 1
    /\ UNCHANGED <<table, rows, writes, task, pc, walk, view, stats, ghosts>>

-----------------------------------------------------------------------------
\* A walk through a listing

\* The pages of the problem service are cut to size, those of the others
\* refused (0).
PageLimit(l) ==
    IF l \in 1..MaxLimit THEN l
    ELSE IF table # "problems" THEN 0
    ELSE IF l = 0 THEN DefaultLimit ELSE MaxLimit

\* The requests, of callers whose role allows them: submissions with a status,
ListMySubmissions(l) ==
    {[list |-> "mine", limit |-> l, status |-> s] : s \in {"any", "ACCEPTED"}}
ListAdminSubmissions(l) ==
    {[list |-> "all", limit |-> l, status |-> s] : s \in {"any", "PENDING"}}

\* the problems for everybody, for moderators, and of their author,
ListProblems(l) == {[list |-> "public", limit |-> l, status |-> "any"]}
AdminListProblems(l) == {[list |-> "manage", limit |-> l, status |-> "any"]}
ListMyProblems(l) == {[list |-> "author", limit |-> l, status |-> "any"]}

\* and users, for administrators (parseAdminUserStatus) and for everybody.
AdminListUsers(l) ==
    {[list |-> "accounts", limit |-> l, status |-> s] :
        s \in {"any", "unverified", "active", "suspended"}}
SearchUsers(l) == {[list |-> "search", limit |-> l, status |-> "any"]}

Lists(l) ==
    CASE table = "submissions" -> ListMySubmissions(l) \cup ListAdminSubmissions(l)
      [] table = "problems" ->
           ListProblems(l) \cup AdminListProblems(l) \cup ListMyProblems(l)
      [] table = "users" -> AdminListUsers(l) \cup SearchUsers(l)

\* The problem service reads the page and then counts, the others count first.
FirstStatement == IF table = "problems" THEN "page" ELSE "count"

StartWalk(l) ==
    /\ task = "walk" /\ pc = "start"
    /\ IF PageLimit(l) = 0
       THEN pc' = "refused" /\ UNCHANGED <<query, first>>
       ELSE /\ query' \in Lists(PageLimit(l))
            /\ first' = Selected(query')
            /\ pc' = FirstStatement
    /\ UNCHANGED <<data, task, page, total, seen, view, stats, changes>>

CountRows ==
    /\ pc = "count"
    /\ total' = Cardinality(Selected(query))
    /\ pc' = IF table = "problems" THEN "shown" ELSE "page"
    /\ changes' = changes \ {"squeezed"}
    /\ UNCHANGED <<data, task, query, page, seen, view, stats, first>>

ReadPage ==
    /\ pc = "page"
    /\ \E s \in Orders(Selected(query)) :
          /\ seen' = [i \in Ids |-> seen[i] + IF i \in Page(s) THEN 1 ELSE 0]
          /\ view' = [i \in Page(s) |-> [log |-> rows[i].log, counts |-> Nil]]
    /\ pc' = CASE table = "problems" -> "count"
               [] query.list = "mine" -> "summaries"
               [] OTHER -> "shown"
    /\ UNCHANGED <<data, task, query, page, total, stats, ghosts>>

\* The client goes on to the next page, or has seen the last.
NextPage ==
    /\ pc = "shown" /\ task = "walk"
    /\ view' = <<>>
    /\ IF Offset + query.limit < total
       THEN page' = page + 1 /\ pc' = FirstStatement
       ELSE pc' = "over" /\ UNCHANGED page
    /\ UNCHANGED <<data, task, query, total, seen, stats, ghosts>>

-----------------------------------------------------------------------------
\* The views of a submission

\* The results of an attempt: two testcases, of which a wrong answer passes
\* one, and none if the program did not compile.
Results(status) ==
    CASE status = "ACCEPTED" -> <<"ACCEPTED", "ACCEPTED">>
      [] status = "WRONG_ANSWER" -> <<"ACCEPTED", "WRONG_ANSWER">>
      [] OTHER -> <<>>

Summary(results) ==
    <<Cardinality({n \in DOMAIN results : results[n] = "ACCEPTED"}), Len(results)>>

\* getSubmission and getAdminSubmissionDetail begin with the submission's row.
\* The first is for the owner and moderators, the second for moderators; others
\* are refused.
GetByID(i, moderator) ==
    /\ task \in {"get", "detail"} /\ pc = "start" /\ i \in Stored
    /\ IF moderator \/ (task = "get" /\ rows[i].own)
       THEN /\ view' = [j \in {i} |-> [log |-> rows[i].log, counts |-> Nil]]
            /\ pc' = IF task = "get" THEN "summaries" ELSE "attempt"
       ELSE pc' = "refused" /\ UNCHANGED view
    /\ UNCHANGED <<data, task, walk, stats, ghosts>>

\* testcaseSummaryForStatus.
TestcaseSummaryForStatus(status, results) ==
    IF results # <<>> THEN Summary(results)
    ELSE IF status \in Verdicts THEN <<0, 0>> ELSE Nil

\* The join of ResultSummaries: results of the attempt that is current by now.
CurrentResults(i) == Results(Status(i))

ResultSummaries ==
    /\ pc = "summaries"
    /\ view' = [i \in DOMAIN view |->
                  [view[i] EXCEPT !.counts =
                      TestcaseSummaryForStatus(Last(view[i].log), CurrentResults(i))]]
    /\ pc' = "shown"
    /\ UNCHANGED <<data, task, walk, stats, ghosts>>

\* knownTotalFromAttempt and the like: the test count and the dataset of an
\* attempt are known once it is judged.
KnownFromAttempt(status) == status # "PENDING"

\* GetByAttemptID: the attempt of the row that was read.
GetByAttemptID ==
    /\ pc = "attempt"
    /\ view' = [i \in DOMAIN view |->
                  [log |-> view[i].log,
                   known |-> KnownFromAttempt(rows[i].log[Len(view[i].log)])]]
    /\ pc' = "results"
    /\ UNCHANGED <<data, task, walk, stats, ghosts>>

\* Mutant of GetAttemptResults: the results of the latest attempt.
GetLatestResults ==
    /\ pc = "results"
    /\ view' = [i \in DOMAIN view |->
                  [log |-> view[i].log, known |-> view[i].known,
                   results |-> Results(Status(i))]]
    /\ pc' = "shown"
    /\ UNCHANGED <<data, task, walk, stats, ghosts>>

\* GetBySubmissionIDAndAttemptID.
GetAttemptResults ==
    /\ pc = "results"
    /\ view' = [i \in DOMAIN view |->
                  [log |-> view[i].log, known |-> view[i].known,
                   results |-> Results(rows[i].log[Len(view[i].log)])]]
    /\ pc' = "shown"
    /\ UNCHANGED <<data, task, walk, stats, ghosts>>

-----------------------------------------------------------------------------
\* Statistics: four statements, and for a public profile the auth service
\* first

Own == {i \in Stored : rows[i].own}

ResolvePublicUser ==
    /\ task = "stats" /\ pc = "start"
    /\ pc' \in {"resolved", "refused"}
    /\ UNCHANGED <<data, task, walk, view, stats, ghosts>>

\* getProfileStats: the day is taken before the statements.
GetProfileStats ==
    /\ task = "stats" /\ pc \in {"start", "resolved"}
    /\ stats' = [stats EXCEPT !.since = today - (Window - 1), !.from = writes]
    /\ pc' = "summary"
    /\ UNCHANGED <<data, task, walk, view, ghosts>>

StatsSummary ==
    /\ pc = "summary"
    /\ stats' = [stats EXCEPT !.total = Cardinality(Own),
                    !.accepted = Cardinality({i \in Own : Status(i) = "ACCEPTED"})]
    /\ pc' = "verdicts"
    /\ UNCHANGED <<data, task, walk, view, ghosts>>

StatsVerdicts ==
    /\ pc = "verdicts"
    /\ stats' = [stats EXCEPT !.verdicts =
                    [v \in Verdicts |-> Cardinality({i \in Own : Status(i) = v})]]
    /\ pc' = "languages"
    /\ UNCHANGED <<data, task, walk, view, ghosts>>

\* Mutant of StatsLanguages: only judged submissions are counted.
StatsLanguagesJudged ==
    /\ pc = "languages"
    /\ stats' = [stats EXCEPT !.languages =
                    Cardinality({i \in Own : Status(i) \in Verdicts})]
    /\ pc' = "activity"
    /\ UNCHANGED <<data, task, walk, view, ghosts>>

StatsLanguages ==
    /\ pc = "languages"
    /\ stats' = [stats EXCEPT !.languages = Cardinality(Own)]
    /\ pc' = "activity"
    /\ UNCHANGED <<data, task, walk, view, ghosts>>

ActiveDays(since) == {rows[i].day : i \in {j \in Own : rows[j].day >= since}}

StatsActivity ==
    /\ pc = "activity"
    /\ stats' = [stats EXCEPT !.activity = ActiveDays(stats.since)]
    /\ pc' = "shown"
    /\ UNCHANGED <<data, task, walk, view, ghosts>>

\* A statement fails or the request is cancelled: nothing is shown.
Fails ==
    /\ pc \notin {"start", "shown", "over", "refused"}
    /\ pc' = "refused"
    /\ UNCHANGED <<data, task, walk, view, stats, ghosts>>

-----------------------------------------------------------------------------
Client ==
    \/ \E l \in Limits : StartWalk(l)
    \/ CountRows \/ ReadPage \/ NextPage
    \/ \E i \in Ids, moderator \in BOOLEAN : GetByID(i, moderator)
    \/ ResultSummaries \/ GetByAttemptID \/ GetAttemptResults
    \/ ResolvePublicUser \/ GetProfileStats
    \/ StatsSummary \/ StatsVerdicts \/ StatsLanguages \/ StatsActivity
    \/ Fails

Others ==
    \/ \E i \in Ids, k \in Keys, own \in BOOLEAN : Insert(i, k, own)
    \/ \E i \in Ids : Rejudge(i) \/ \E v \in Verdicts : Judge(i, v)
    \/ \E i \in Ids, s \in States[table] : Change(i, s)
    \/ Midnight

Next == Client \/ Others

Spec == Init /\ [][Next]_vars

-----------------------------------------------------------------------------
\* Properties

\* Problems created at the same time, whose order may differ between two pages.
Tied ==
    /\ table = "problems"
    /\ \E i, j \in Stored : i # j /\ rows[i].key = rows[j].key

\* A client who reads a listing to its last page has seen every row that was in
\* it at the start, whatever is inserted meanwhile and wherever it lies in the
\* order.  There are three exceptions: a row left the listing, which moves
\* others to pages already read; one entered it between the count and the last
\* page, which the count of submissions and users misses; problems of the same
\* time changed places.  A row is shown twice only if another one entered the
\* listing, or for such a tie.
PagesComplete ==
    /\ pc = "over" => \/ \A i \in first : seen[i] > 0
                      \/ "left" \in changes \/ "squeezed" \in changes \/ Tied
    /\ \A i \in Ids : seen[i] > 1 => "entered" \in changes \/ Tied

\* The detail view of a verdict is of one attempt: a rejudge during the request
\* takes away neither the testcase results nor the dataset it was judged with.
\* When an attempt is judged during the request, its dataset is never shown
\* without its results.
DetailOneAttempt ==
    task = "detail" /\ pc = "shown" =>
        \A i \in DOMAIN view :
            /\ Last(view[i].log) \in Verdicts =>
                  view[i].known /\ view[i].results = Results(Last(view[i].log))
            /\ view[i].known => view[i].results = Results(rows[i].log[Len(view[i].log)])

\* The counts shown with a verdict, in a listing or on its own, are its own, or
\* none at all; those of another verdict only if the submission was not only
\* rejudged but judged again between the two statements.
CountsOfVerdict ==
    \A i \in DOMAIN view :
        LET status == Last(view[i].log) IN
        /\ pc = "summaries" /\ pc' = "shown" /\ status \in Verdicts
        /\ view'[i].counts \notin {Summary(Results(status)), <<0, 0>>}
        => Attempt(i) > Len(view[i].log) /\ Status(i) \in Verdicts

\* What one answer says of a submission belongs together, although it is read by
\* several statements while the submission is judged and rejudged.
ViewsConsistent == [][DetailOneAttempt' /\ CountsOfVerdict]_vars

\* The sections of the statistics are read one after the other, but none falls
\* behind an earlier one: the languages cover every submission counted and every
\* verdict; and they agree if nothing was written in between.  The days of
\* activity span a year, and one day more for a midnight that passes during the
\* request.
StatsAgree ==
    /\ task = "stats" /\ pc = "shown" =>
          LET judged == stats.verdicts["ACCEPTED"] + stats.verdicts["WRONG_ANSWER"]
                           + stats.verdicts["COMPILATION_ERROR"]
          IN  /\ stats.total <= stats.languages /\ judged <= stats.languages
              /\ stats.from = writes => /\ stats.languages = stats.total
                                        /\ stats.verdicts["ACCEPTED"] = stats.accepted
    /\ \A d, e \in stats.activity : e - d < Window + today - (stats.since + Window - 1)

=============================================================================
