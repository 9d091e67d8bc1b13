--------------------------- MODULE JudgePipeline ----------------------------
(***************************************************************************)
(* The asynchronous judging pipeline, end to end:                          *)
(*                                                                         *)
(*   CreateSubmission / RejudgeSubmission (one database transaction each)  *)
(*     -> transactional outbox -> OutboxRelay -> Kafka job topic           *)
(*     -> judge worker (JudgeJobConsumer, ProcessJudgeJob)                 *)
(*     -> Kafka result topic -> JudgeResultConsumer, ApplyJudgeResult.     *)
(*                                                                         *)
(* A source program is a model value, so is an attempt ID (a fresh UUID),  *)
(* and an execution may end in any verdict: two executions of one attempt  *)
(* need not agree.  Each topic is one partition, the case in which         *)
(* messages of different submissions share a committed offset.  A          *)
(* transaction is one step: the submission row is locked FOR UPDATE before *)
(* anything is decided on it.                                              *)
(*                                                                         *)
(* Every failure that is injected (an error of the broker, the database or *)
(* the sandbox, a crash, a rebalance) is counted against MaxFaults.        *)
(***************************************************************************)
EXTENDS Integers, Sequences, FiniteSets

CONSTANTS
    Submissions,        \* rows of the submissions table that may be created
    Attempts,           \* attempt IDs
    Verdicts,           \* the verdicts an execution may end in
    Admins,             \* concurrent rejudge requests
    Workers,            \* dispatch goroutines of the claim (WORKER_POOL_SIZE)
    NoAttempt, NoSubmission,
    MaxPublishRetries,  \* relay.go, 5
    MaxRetries,         \* both consumers, 3
    BatchLimit,         \* rows GetPending returns at most, 100
    MaxFaults,          \* bound on injected failures
    DLTReliable         \* whether a publish to the dead-letter topic succeeds

\* domain/entity/submission.go, IsTerminalStatus
TerminalStatuses ==
    {"ACCEPTED", "WRONG_ANSWER", "TIME_LIMIT_EXCEEDED",
     "MEMORY_LIMIT_EXCEEDED", "OUTPUT_LIMIT_EXCEEDED", "RUNTIME_ERROR",
     "COMPILATION_ERROR", "SYSTEM_ERROR"}

ASSUME PipelineAssumption ==
    /\ Verdicts \subseteq TerminalStatuses
    /\ NoAttempt \notin Attempts
    /\ NoSubmission \notin Submissions
    /\ MaxPublishRetries \in Nat \ {0}
    /\ MaxRetries \in Nat \ {0}
    /\ BatchLimit \in Nat \ {0}
    /\ MaxFaults \in Nat
    /\ DLTReliable \in BOOLEAN

VARIABLES
    submission,   \* submissions: status and current_attempt_id
    attempt,      \* submission_attempts: owner and status
    caseRows,     \* submission_results of an attempt: the verdict they belong to
    outbox,       \* outbox_messages: status and retry_count, one row per attempt
    batch, sent,  \* OutboxRelay: rows of the poll still to send, row just sent
    jobTopic,     \* the job topic's log of attempts
    fetched, marked, committed,
                  \* Sarama session on it: offsets dispatched, marked, committed
    inHand,       \* the offset a dispatch goroutine is working on, or 0
    tries,        \* its failed tries; MaxRetries once it has left the retry loop
    resultTopic,  \* the result topic's log
    resMarked, resCommitted, resTries,
                  \* the same of the result consumer, one message at a time
    dlt,          \* what reached the dead-letter topic
    admin,        \* rejudge requests past their unlocked check
    faults        \* failures injected so far

dbVars == <<submission, attempt, caseRows>>
relayVars == <<batch, sent>>
jobConsumer == <<fetched, marked, committed, inHand, tries>>
resultConsumer == <<resMarked, resCommitted, resTries>>
vars == <<dbVars, outbox, relayVars, jobTopic, jobConsumer, resultTopic,
          resultConsumer, dlt, admin, faults>>

-----------------------------------------------------------------------------
\* Types and initial state

Status == TerminalStatuses \cup {"NONE", "PENDING"}

ResultMessage == [attempt : Attempts, status : Verdicts]

TypeOK ==
    /\ submission \in [Submissions -> [status : Status,
                                       attempt : Attempts \cup {NoAttempt}]]
    /\ attempt \in [Attempts -> [sub : Submissions \cup {NoSubmission},
                                 status : Status]]
    /\ caseRows \in [Attempts -> Status]
    /\ outbox \in [Attempts -> [status : {"NONE", "PENDING", "PUBLISHED"},
                                retries : 0..MaxPublishRetries]]
    /\ batch \in SUBSET Attempts
    /\ sent \in Attempts \cup {NoAttempt}
    /\ jobTopic \in Seq(Attempts)
    /\ fetched \in Nat /\ marked \in Nat /\ committed \in Nat
    /\ inHand \in [Workers -> Nat]
    /\ tries \in [Workers -> 0..MaxRetries]
    /\ resultTopic \in Seq(ResultMessage)
    /\ resMarked \in Nat /\ resCommitted \in Nat
    /\ resTries \in 0..MaxRetries
    /\ dlt \in SUBSET Attempts
    /\ admin \in [Admins -> Submissions \cup {NoSubmission}]
    /\ faults \in 0..MaxFaults

Init ==
    /\ submission = [s \in Submissions |->
                        [status |-> "NONE", attempt |-> NoAttempt]]
    /\ attempt = [a \in Attempts |->
                        [sub |-> NoSubmission, status |-> "NONE"]]
    /\ caseRows = [a \in Attempts |-> "NONE"]
    /\ outbox = [a \in Attempts |-> [status |-> "NONE", retries |-> 0]]
    /\ batch = {} /\ sent = NoAttempt
    /\ jobTopic = <<>>
    /\ fetched = 0 /\ marked = 0 /\ committed = 0
    /\ inHand = [w \in Workers |-> 0]
    /\ tries = [w \in Workers |-> 0]
    /\ resultTopic = <<>>
    /\ resMarked = 0 /\ resCommitted = 0 /\ resTries = 0
    /\ dlt = {}
    /\ admin = [x \in Admins |-> NoSubmission]
    /\ faults = 0

InjectFault == faults < MaxFaults /\ faults' = faults + 1

-----------------------------------------------------------------------------
\* Submission service: use cases

\* Mutant of OpenAttempt: a rejudge does not reset the submission's status.
OpenAttemptWithoutReset(s, a) ==
    /\ submission' = [submission EXCEPT ![s] =
          [status |-> IF submission[s].status = "NONE" THEN "PENDING"
                                                       ELSE submission[s].status,
           attempt |-> a]]
    /\ attempt' = [attempt EXCEPT ![a] = [sub |-> s, status |-> "PENDING"]]
    /\ outbox' = [outbox EXCEPT ![a] = [status |-> "PENDING", retries |-> 0]]
    /\ UNCHANGED caseRows

\* NewSubmission, NewSubmissionAttempt and the outbox row of one transaction.
OpenAttempt(s, a) ==
    /\ submission' = [submission EXCEPT ![s] =
                        [status |-> "PENDING", attempt |-> a]]
    /\ attempt' = [attempt EXCEPT ![a] = [sub |-> s, status |-> "PENDING"]]
    /\ outbox' = [outbox EXCEPT ![a] = [status |-> "PENDING", retries |-> 0]]
    /\ UNCHANGED caseRows

FreshAttempt(a) == attempt[a].status = "NONE"

CreateSubmission(s, a) ==
    /\ submission[s].status = "NONE"
    /\ FreshAttempt(a)
    /\ OpenAttempt(s, a)
    /\ UNCHANGED <<relayVars, jobTopic, jobConsumer, resultTopic, resultConsumer,
                   dlt, admin, faults>>

IsTerminal(s) == submission[s].status \in TerminalStatuses

\* The read of the submission without a lock, before the problem service is
\* asked for the testcase metadata.
RejudgeCheck(x, s) ==
    /\ admin[x] = NoSubmission
    /\ IsTerminal(s)
    /\ admin' = [admin EXCEPT ![x] = s]
    /\ UNCHANGED <<dbVars, outbox, relayVars, jobTopic, jobConsumer, resultTopic,
                   resultConsumer, dlt, faults>>

\* Mutant of RejudgeCommit: the status is not checked again under the lock.
RejudgeCommitUnchecked(x, a) ==
    /\ admin[x] # NoSubmission
    /\ FreshAttempt(a)
    /\ OpenAttempt(admin[x], a)
    /\ admin' = [admin EXCEPT ![x] = NoSubmission]
    /\ UNCHANGED <<relayVars, jobTopic, jobConsumer, resultTopic, resultConsumer,
                   dlt, faults>>

\* The transaction: the row is locked and its status checked again.
RejudgeCommit(x, a) ==
    /\ admin[x] # NoSubmission
    /\ IsTerminal(admin[x])
    /\ FreshAttempt(a)
    /\ OpenAttempt(admin[x], a)
    /\ admin' = [admin EXCEPT ![x] = NoSubmission]
    /\ UNCHANGED <<relayVars, jobTopic, jobConsumer, resultTopic, resultConsumer,
                   dlt, faults>>

\* No metadata, a submission that is being judged again, or a transaction
\* that is rolled back.
RejudgeAbort(x) ==
    /\ admin[x] # NoSubmission
    /\ admin' = [admin EXCEPT ![x] = NoSubmission]
    /\ UNCHANGED <<dbVars, outbox, relayVars, jobTopic, jobConsumer, resultTopic,
                   resultConsumer, dlt, faults>>

-----------------------------------------------------------------------------
\* Submission service: outbox relay

\* Mutant of PendingRows: a row that failed once is not polled again.
PendingRowsOnce ==
    {a \in Attempts : outbox[a].status = "PENDING" /\ outbox[a].retries = 0}

PendingRows == {a \in Attempts : outbox[a].status = "PENDING"}

Exhausted(a) == outbox[a].retries >= MaxPublishRetries

\* GetPending: PENDING rows in no particular order, at most BatchLimit of
\* them, the exhausted ones included.
RelayPoll ==
    /\ batch = {} /\ sent = NoAttempt
    /\ \E rows \in SUBSET PendingRows :
          /\ \/ rows = PendingRows /\ Cardinality(rows) <= BatchLimit
             \/ Cardinality(rows) = BatchLimit
          /\ batch' = rows
    /\ UNCHANGED <<dbVars, outbox, sent, jobTopic, jobConsumer, resultTopic,
                   resultConsumer, dlt, admin, faults>>

RelaySkip(a) ==
    /\ sent = NoAttempt
    /\ a \in batch
    /\ Exhausted(a)
    /\ batch' = batch \ {a}
    /\ UNCHANGED <<dbVars, outbox, sent, jobTopic, jobConsumer, resultTopic,
                   resultConsumer, dlt, admin, faults>>

RelaySend(a) ==
    /\ sent = NoAttempt
    /\ a \in batch
    /\ ~Exhausted(a)
    /\ jobTopic' = Append(jobTopic, a)
    /\ sent' = a
    /\ UNCHANGED <<dbVars, outbox, batch, jobConsumer, resultTopic,
                   resultConsumer, dlt, admin, faults>>

\* SendMessage returns an error, with or without the broker having written
\* the message; then MarkFailed counts the failure, or fails as well.
RelaySendFails(a) ==
    /\ sent = NoAttempt
    /\ a \in batch
    /\ ~Exhausted(a)
    /\ InjectFault
    /\ \/ UNCHANGED jobTopic
       \/ jobTopic' = Append(jobTopic, a)
    /\ \/ outbox' = [outbox EXCEPT ![a] =
                       [status |-> "PENDING", retries |-> outbox[a].retries + 1]]
       \/ UNCHANGED outbox
    /\ batch' = batch \ {a}
    /\ UNCHANGED <<dbVars, sent, jobConsumer, resultTopic, resultConsumer,
                   dlt, admin>>

RelayMarkPublished ==
    /\ sent # NoAttempt
    /\ outbox' = [outbox EXCEPT ![sent] =
                    [status |-> "PUBLISHED", retries |-> outbox[sent].retries]]
    /\ batch' = batch \ {sent}
    /\ sent' = NoAttempt
    /\ UNCHANGED <<dbVars, jobTopic, jobConsumer, resultTopic, resultConsumer,
                   dlt, admin, faults>>

\* The error of MarkPublished is only logged: the row is sent again later.
RelayMarkPublishedFails ==
    /\ sent # NoAttempt
    /\ InjectFault
    /\ batch' = batch \ {sent}
    /\ sent' = NoAttempt
    /\ UNCHANGED <<dbVars, outbox, jobTopic, jobConsumer, resultTopic,
                   resultConsumer, dlt, admin>>

-----------------------------------------------------------------------------
\* Judge worker

\* sendToDLT swallows the error of the dead-letter producer.
SendToDLT(a) ==
    \/ dlt' = dlt \cup {a}
    \/ ~DLTReliable /\ UNCHANGED dlt

\* ConsumeClaim hands the next message of the claim to an idle goroutine.
DispatchJob(w) ==
    /\ inHand[w] = 0
    /\ fetched < Len(jobTopic)
    /\ fetched' = fetched + 1
    /\ inHand' = [inHand EXCEPT ![w] = fetched + 1]
    /\ UNCHANGED <<dbVars, outbox, relayVars, jobTopic, marked, committed, tries,
                   resultTopic, resultConsumer, dlt, admin, faults>>

Trying(w) == inHand[w] > 0 /\ tries[w] < MaxRetries

JobOf(w) == jobTopic[inHand[w]]

\* ProcessJudgeJob: metadata, testcases, execution, PublishResult; also the
\* SYSTEM_ERROR result of a failure that is not worth a retry.
ProcessJob(w, v) ==
    /\ Trying(w)
    /\ resultTopic' = Append(resultTopic, [attempt |-> JobOf(w), status |-> v])
    /\ tries' = [tries EXCEPT ![w] = MaxRetries]
    /\ UNCHANGED <<dbVars, outbox, relayVars, jobTopic, fetched, marked, committed,
                   inHand, resultConsumer, dlt, admin, faults>>

\* A retryable failure of any stage.  If publishing the result is what
\* failed, the broker may have written it all the same.
ProcessJobFails(w) ==
    /\ Trying(w)
    /\ InjectFault
    /\ \/ UNCHANGED resultTopic
       \/ \E v \in Verdicts :
            resultTopic' = Append(resultTopic, [attempt |-> JobOf(w), status |-> v])
    /\ tries' = [tries EXCEPT ![w] = tries[w] + 1]
    /\ IF tries[w] + 1 = MaxRetries THEN SendToDLT(JobOf(w)) ELSE UNCHANGED dlt
    /\ UNCHANGED <<dbVars, outbox, relayVars, jobTopic, fetched, marked, committed,
                   inHand, resultConsumer, admin>>

Later(m, n) == IF m < n THEN n ELSE m

\* MarkMessage: the session remembers the highest offset it was given.
MarkJob(w) ==
    /\ inHand[w] > 0 /\ tries[w] = MaxRetries
    /\ marked' = Later(marked, inHand[w])
    /\ inHand' = [inHand EXCEPT ![w] = 0]
    /\ tries' = [tries EXCEPT ![w] = 0]
    /\ UNCHANGED <<dbVars, outbox, relayVars, jobTopic, fetched, committed,
                   resultTopic, resultConsumer, dlt, admin, faults>>

\* Sarama commits the mark once a second.
CommitJobs ==
    /\ committed < marked
    /\ committed' = marked
    /\ UNCHANGED <<dbVars, outbox, relayVars, jobTopic, fetched, marked, inHand,
                   tries, resultTopic, resultConsumer, dlt, admin, faults>>

\* A session starts at the committed offset, with nothing in hand.
JobSessionFrom(offset) ==
    /\ InjectFault
    /\ fetched' = offset /\ marked' = offset /\ committed' = offset
    /\ inHand' = [w \in Workers |-> 0]
    /\ tries' = [w \in Workers |-> 0]
    /\ UNCHANGED <<dbVars, outbox, relayVars, jobTopic, resultTopic,
                   resultConsumer, dlt, admin>>

\* Mutant of EndJobSession: the next session starts after what was dispatched.
EndJobSessionSkipping == JobSessionFrom(fetched)

\* A rebalance or a shutdown: goroutines whose context is cancelled return
\* without marking, and the marks are flushed.
EndJobSession == JobSessionFrom(marked)

\* A crash loses the marks that were not committed.
CrashWorker == JobSessionFrom(committed)

-----------------------------------------------------------------------------
\* Submission service: result consumer

\* Mutant of ApplyJudgeResult: the verdict goes to whatever attempt is current.
ApplyToCurrentAttempt(m) ==
    LET s == attempt[m.attempt].sub
        a == submission[s].attempt
    IN  \/ /\ ~IsTerminal(s)
           /\ submission' = [submission EXCEPT ![s] =
                                [status |-> m.status, attempt |-> a]]
           /\ caseRows' = [caseRows EXCEPT ![a] = m.status]
           /\ attempt' = [attempt EXCEPT ![a] = [sub |-> s, status |-> m.status]]
        \/ IsTerminal(s) /\ UNCHANGED dbVars

\* Mutant of ApplyJudgeResult: a submission that has its verdict is updated.
ApplyToTerminal(m) ==
    LET s == attempt[m.attempt].sub
    IN  \/ /\ submission[s].attempt = m.attempt
           /\ submission' = [submission EXCEPT ![s] =
                                [status |-> m.status, attempt |-> m.attempt]]
           /\ caseRows' = [caseRows EXCEPT ![m.attempt] = m.status]
           /\ attempt' = [attempt EXCEPT ![m.attempt] =
                                [sub |-> s, status |-> m.status]]
        \/ submission[s].attempt # m.attempt /\ UNCHANGED dbVars

\* The transaction of ApplyJudgeResult.  A result of an attempt that is not
\* the current one, or of a submission that has its verdict, is ignored.
ApplyJudgeResult(m) ==
    LET s == attempt[m.attempt].sub
    IN  \/ /\ submission[s].attempt = m.attempt
           /\ ~IsTerminal(s)
           /\ submission' = [submission EXCEPT ![s] =
                                [status |-> m.status, attempt |-> m.attempt]]
           /\ caseRows' = [caseRows EXCEPT ![m.attempt] = m.status]
           /\ attempt' = [attempt EXCEPT ![m.attempt] =
                                [sub |-> s, status |-> m.status]]
        \/ /\ submission[s].attempt # m.attempt \/ IsTerminal(s)
           /\ UNCHANGED dbVars

NextResult == resultTopic[resMarked + 1]

TryingResult == resMarked < Len(resultTopic) /\ resTries < MaxRetries

ApplyResult ==
    /\ TryingResult
    /\ ApplyJudgeResult(NextResult)
    /\ resTries' = MaxRetries
    /\ UNCHANGED <<outbox, relayVars, jobTopic, jobConsumer, resultTopic,
                   resMarked, resCommitted, dlt, admin, faults>>

\* The transaction fails, or commits and the answer is lost.
ApplyResultFails ==
    /\ TryingResult
    /\ InjectFault
    /\ \/ UNCHANGED dbVars
       \/ ApplyJudgeResult(NextResult)
    /\ resTries' = resTries + 1
    /\ IF resTries + 1 = MaxRetries THEN SendToDLT(NextResult.attempt)
                                    ELSE UNCHANGED dlt
    /\ UNCHANGED <<outbox, relayVars, jobTopic, jobConsumer, resultTopic,
                   resMarked, resCommitted, admin>>

MarkResult ==
    /\ resMarked < Len(resultTopic) /\ resTries = MaxRetries
    /\ resMarked' = resMarked + 1
    /\ resTries' = 0
    /\ UNCHANGED <<dbVars, outbox, relayVars, jobTopic, jobConsumer, resultTopic,
                   resCommitted, dlt, admin, faults>>

CommitResults ==
    /\ resCommitted < resMarked
    /\ resCommitted' = resMarked
    /\ UNCHANGED <<dbVars, outbox, relayVars, jobTopic, jobConsumer, resultTopic,
                   resMarked, resTries, dlt, admin, faults>>

ResultSessionFrom(offset) ==
    resMarked' = offset /\ resCommitted' = offset /\ resTries' = 0

\* A rebalance of the result consumer's group.
EndResultSession ==
    /\ InjectFault
    /\ ResultSessionFrom(resMarked)
    /\ UNCHANGED <<dbVars, outbox, relayVars, jobTopic, jobConsumer, resultTopic,
                   dlt, admin>>

\* The relay, the consumer and the handlers are one process.
CrashSubmissionService ==
    /\ InjectFault
    /\ batch' = {} /\ sent' = NoAttempt
    /\ ResultSessionFrom(resCommitted)
    /\ admin' = [x \in Admins |-> NoSubmission]
    /\ UNCHANGED <<dbVars, outbox, jobTopic, jobConsumer, resultTopic, dlt>>

-----------------------------------------------------------------------------
Next ==
    \/ \E s \in Submissions, a \in Attempts : CreateSubmission(s, a)
    \/ \E x \in Admins :
          \/ \E s \in Submissions : RejudgeCheck(x, s)
          \/ \E a \in Attempts : RejudgeCommit(x, a)
          \/ RejudgeAbort(x)
    \/ RelayPoll
    \/ \E a \in Attempts : RelaySkip(a) \/ RelaySend(a) \/ RelaySendFails(a)
    \/ RelayMarkPublished
    \/ RelayMarkPublishedFails
    \/ \E w \in Workers :
          \/ DispatchJob(w)
          \/ \E v \in Verdicts : ProcessJob(w, v)
          \/ ProcessJobFails(w)
          \/ MarkJob(w)
    \/ CommitJobs
    \/ EndJobSession
    \/ CrashWorker
    \/ ApplyResult
    \/ ApplyResultFails
    \/ MarkResult
    \/ CommitResults
    \/ EndResultSession
    \/ CrashSubmissionService

Spec == Init /\ [][Next]_vars

\* The relay's ticker, the goroutines of the claim and the consumer loop run
\* for as long as their process does; no fairness is given to users, to
\* administrators, to failures or to the commit of offsets.
Fairness ==
    /\ WF_vars(RelayPoll)
    /\ WF_vars(\E a \in Attempts : RelaySkip(a) \/ RelaySend(a))
    /\ WF_vars(RelayMarkPublished)
    /\ \A w \in Workers :
          /\ WF_vars(DispatchJob(w))
          /\ WF_vars(\E v \in Verdicts : ProcessJob(w, v))
          /\ WF_vars(MarkJob(w))
    /\ WF_vars(ApplyResult)
    /\ WF_vars(MarkResult)

FairSpec == Spec /\ Fairness

-----------------------------------------------------------------------------
\* Properties

\* The three tables of the submission database agree after every
\* transaction: a submission shows the status of its current attempt, result
\* rows exist exactly for judged attempts and carry the attempt's verdict,
\* and an attempt is left behind by a rejudge only once it has its verdict.
TablesAgree ==
    /\ \A s \in Submissions : submission[s].status # "NONE" =>
          /\ submission[s].attempt \in Attempts
          /\ attempt[submission[s].attempt] =
                [sub |-> s, status |-> submission[s].status]
    /\ \A a \in Attempts :
          /\ caseRows[a] = IF attempt[a].status \in TerminalStatuses
                             THEN attempt[a].status ELSE "NONE"
          /\ attempt[a].status = "PENDING" =>
                submission[attempt[a].sub].attempt = a

\* A verdict is never invented: it was published by a worker for that very
\* attempt, although superseded attempts, duplicates and contradictory
\* results share the topic.
VerdictPublished ==
    \A a \in Attempts : attempt[a].status \in TerminalStatuses =>
        \E i \in 1..Len(resultTopic) :
            resultTopic[i] = [attempt |-> a, status |-> attempt[a].status]

\* A verdict, once stored, never changes: not by a duplicate job executed
\* twice with different outcomes, a redelivered result or a late one.
VerdictStable ==
    [][\A a \in Attempts : attempt[a].status \in TerminalStatuses =>
        attempt'[a] = attempt[a] /\ caseRows'[a] = caseRows[a]]_vars

\* Where an attempt that has no verdict yet is still to be found: in the
\* outbox, in the part of a topic that a restarted consumer reads again, or in
\* the dead-letter topic.
Recoverable(a) ==
    \/ outbox[a].status = "PENDING"
    \/ \E i \in (committed + 1)..Len(jobTopic) : jobTopic[i] = a
    \/ \E i \in (resCommitted + 1)..Len(resultTopic) :
          resultTopic[i].attempt = a
    \/ a \in dlt

\* No attempt is lost: whatever fails or crashes, an attempt without a verdict
\* can still be recovered.  The consumers mark a message only after success or
\* dead-lettering.
NoAttemptLost ==
    \A a \in Attempts : attempt[a].status = "PENDING" => Recoverable(a)

\* Every attempt is judged in the end, unless its outbox row used up its
\* publish retries or one of its messages was dead-lettered.
EventuallyJudged ==
    \A a \in Attempts :
        attempt[a].status = "PENDING" ~>
            \/ attempt[a].status \in TerminalStatuses
            \/ a \in dlt
            \/ Exhausted(a)

\* The ledger a user sees.
Ledger == INSTANCE SubmissionLedger WITH
            current <- [s \in Submissions |-> submission[s].attempt],
            verdict <- [a \in Attempts |-> attempt[a].status]

\* The pipeline implements the ledger: one verdict per attempt, and a rejudge
\* only of a submission that has its verdict, although the request checked it
\* earlier without a lock.
ImplementsLedger == Ledger!Spec

=============================================================================
