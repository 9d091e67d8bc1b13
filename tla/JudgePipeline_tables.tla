------------------------ MODULE JudgePipeline_tables ------------------------
(***************************************************************************)
(* Type correctness of JudgePipeline, and that its tables agree in every   *)
(* reachable state, for any number of submissions, attempts, rejudge       *)
(* requests, workers, retries and failures.                                *)
(***************************************************************************)
EXTENDS JudgePipeline, SequenceTheorems, TLAPS

\* Committed, marked and dispatched offsets are ordered and lie in the logs.
Offsets ==
    /\ committed <= marked
    /\ marked <= fetched
    /\ fetched <= Len(jobTopic)
    /\ \A w \in Workers : inHand[w] <= fetched
    /\ resCommitted <= resMarked
    /\ resMarked <= Len(resultTopic)

TypeInv == TypeOK /\ Offsets

\* A log only grows at its end.
LEMMA AppendFacts ==
    ASSUME NEW S, NEW log \in Seq(S), NEW m \in S
    PROVE  /\ Append(log, m) \in Seq(S)
           /\ Len(log) \in Nat
           /\ Len(Append(log, m)) = Len(log) + 1
           /\ \A i \in 1..Len(log) : Append(log, m)[i] = log[i]
           /\ Append(log, m)[Len(log) + 1] = m
  OBVIOUS

\* Initially the tables and topics are empty.
LEMMA InitTypeInv == Init => TypeInv
  BY PipelineAssumption, EmptySeq DEF Init, TypeInv, TypeOK, Offsets, Status

\* A place of a log that has grown by one is an old one or the new one.
LEMMA LastOrBefore ==
    ASSUME NEW m \in Nat, NEW n, n = m + 1, NEW i \in 1..n
    PROVE  i \in 1..m \/ i = m + 1
  OBVIOUS

\* A message names its attempt.
LEMMA MessageAttempt ==
    ASSUME NEW a, NEW v
    PROVE  [attempt |-> a, status |-> v].attempt = a
  OBVIOUS

\* What a transaction that opens an attempt does to the types.
LEMMA OpenAttemptType ==
    ASSUME TypeInv, NEW s \in Submissions, NEW a \in Attempts, OpenAttempt(s, a)
    PROVE  /\ submission' \in [Submissions -> [status : Status,
                                       attempt : Attempts \cup {NoAttempt}]]
           /\ attempt' \in [Attempts -> [sub : Submissions \cup {NoSubmission},
                                 status : Status]]
           /\ caseRows' \in [Attempts -> Status]
           /\ outbox' \in [Attempts -> [status : {"NONE", "PENDING", "PUBLISHED"},
                                retries : 0..MaxPublishRetries]]
  BY PipelineAssumption DEF TypeInv, TypeOK, OpenAttempt, Status

\* What the transaction of a result does to the types.
LEMMA ApplyType ==
    ASSUME TypeInv, NEW m \in ResultMessage, ApplyJudgeResult(m)
    PROVE  /\ submission' \in [Submissions -> [status : Status,
                                       attempt : Attempts \cup {NoAttempt}]]
           /\ attempt' \in [Attempts -> [sub : Submissions \cup {NoSubmission},
                                 status : Status]]
           /\ caseRows' \in [Attempts -> Status]
  <1> m.attempt \in Attempts /\ m.status \in Status
    BY PipelineAssumption DEF ResultMessage, Status
  <1>1. CASE UNCHANGED dbVars
    BY <1>1 DEF TypeInv, TypeOK, dbVars
  <1>2. CASE ~UNCHANGED dbVars
    <2> DEFINE s == attempt[m.attempt].sub
    <2>1. s \in Submissions \cup {NoSubmission}
      BY DEF TypeInv, TypeOK
    <2>2. /\ submission' = [submission EXCEPT ![s] =
                                [status |-> m.status, attempt |-> m.attempt]]
          /\ caseRows' = [caseRows EXCEPT ![m.attempt] = m.status]
          /\ attempt' = [attempt EXCEPT ![m.attempt] = [sub |-> s, status |-> m.status]]
      BY <1>2 DEF ApplyJudgeResult
    <2> QED
      BY ZenonT(30), <2>1, <2>2 DEF TypeInv, TypeOK
  <1> QED
    BY <1>1, <1>2

\* What the logs hold.
LEMMA LogEntries ==
    ASSUME TypeInv
    PROVE  /\ \A i \in 1..Len(jobTopic) : jobTopic[i] \in Attempts
           /\ \A i \in 1..Len(resultTopic) :
                /\ resultTopic[i] \in ResultMessage
                /\ resultTopic[i].attempt \in Attempts
                /\ resultTopic[i].status \in Verdicts
  <1>1. \A i \in 1..Len(jobTopic) : jobTopic[i] \in Attempts
    BY DEF TypeInv, TypeOK
  <1>2. \A i \in 1..Len(resultTopic) : resultTopic[i] \in ResultMessage
    BY DEF TypeInv, TypeOK
  <1> QED
    BY <1>1, <1>2 DEF ResultMessage

\* The message a worker has in hand, and the one the result consumer reads,
\* are in their logs.
LEMMA InHandTypes ==
    ASSUME TypeInv
    PROVE  /\ \A w \in Workers : inHand[w] > 0 => JobOf(w) \in Attempts
           /\ resMarked < Len(resultTopic) => NextResult \in ResultMessage
  BY DEF TypeInv, TypeOK, Offsets, JobOf, NextResult

\* Every step preserves the types and the order of the offsets.
LEMMA NextTypeInv == TypeInv /\ [Next]_vars => TypeInv'
  <1> SUFFICES ASSUME TypeInv, [Next]_vars PROVE TypeInv'
    OBVIOUS
  <1> USE PipelineAssumption
  <1>1. ASSUME NEW s \in Submissions, NEW a \in Attempts, CreateSubmission(s, a)
        PROVE  TypeInv'
    BY SMTT(30), <1>1, OpenAttemptType
       DEF CreateSubmission, TypeInv, TypeOK, Offsets, relayVars, jobConsumer, resultConsumer
  <1>2. ASSUME NEW x \in Admins, NEW s \in Submissions, RejudgeCheck(x, s)
        PROVE  TypeInv'
    BY <1>2 DEF RejudgeCheck, TypeInv, TypeOK, Offsets, dbVars, relayVars, jobConsumer, resultConsumer
  <1>3. ASSUME NEW x \in Admins, NEW a \in Attempts, RejudgeCommit(x, a)
        PROVE  TypeInv'
    <2>1. admin[x] \in Submissions
      BY <1>3 DEF RejudgeCommit, TypeInv, TypeOK
    <2> QED
      BY SMTT(30), <1>3, <2>1, OpenAttemptType
         DEF RejudgeCommit, TypeInv, TypeOK, Offsets, relayVars, jobConsumer, resultConsumer
  <1>4. ASSUME NEW x \in Admins, RejudgeAbort(x)
        PROVE  TypeInv'
    BY <1>4 DEF RejudgeAbort, TypeInv, TypeOK, Offsets, dbVars, relayVars, jobConsumer, resultConsumer
  <1>5. CASE RelayPoll
    BY <1>5 DEF RelayPoll, PendingRows, TypeInv, TypeOK, Offsets, dbVars, relayVars, jobConsumer, resultConsumer
  <1>6. ASSUME NEW a \in Attempts, RelaySkip(a)
        PROVE  TypeInv'
    BY <1>6 DEF RelaySkip, TypeInv, TypeOK, Offsets, dbVars, relayVars, jobConsumer, resultConsumer
  <1>7. ASSUME NEW a \in Attempts, RelaySend(a)
        PROVE  TypeInv'
    BY <1>7 DEF RelaySend, TypeInv, TypeOK, Offsets, dbVars, relayVars, jobConsumer, resultConsumer
  <1>8. ASSUME NEW a \in Attempts, RelaySendFails(a)
        PROVE  TypeInv'
    <2>1. outbox' \in [Attempts -> [status : {"NONE", "PENDING", "PUBLISHED"},
                                    retries : 0..MaxPublishRetries]]
      <3>1. outbox[a].retries + 1 \in 0..MaxPublishRetries
        BY <1>8 DEF RelaySendFails, Exhausted, TypeInv, TypeOK
      <3>2. \/ outbox' = [outbox EXCEPT ![a] =
                       [status |-> "PENDING", retries |-> outbox[a].retries + 1]]
            \/ UNCHANGED outbox
        BY <1>8 DEF RelaySendFails
      <3> QED
        BY <3>1, <3>2 DEF TypeInv, TypeOK
    <2>2. jobTopic' \in Seq(Attempts) /\ Len(jobTopic') >= Len(jobTopic)
      <3>1. UNCHANGED jobTopic \/ jobTopic' = Append(jobTopic, a)
        BY <1>8 DEF RelaySendFails
      <3> QED
        <4>1. jobTopic \in Seq(Attempts)
          BY DEF TypeInv, TypeOK
        <4>2. Append(jobTopic, a) \in Seq(Attempts) /\ Len(Append(jobTopic, a)) = Len(jobTopic) + 1
          BY <4>1, AppendFacts
        <4>3. Len(jobTopic) \in Nat
          BY <4>1, LenProperties
        <4> QED
          BY <3>1, <4>1, <4>2, <4>3
    <2> QED
      BY SMTT(30), <1>8, <2>1, <2>2
         DEF RelaySendFails, InjectFault, TypeInv, TypeOK, Offsets, dbVars, relayVars, jobConsumer, resultConsumer
  <1>9. CASE RelayMarkPublished
    BY <1>9 DEF RelayMarkPublished, TypeInv, TypeOK, Offsets, dbVars, relayVars, jobConsumer, resultConsumer
  <1>10. CASE RelayMarkPublishedFails
    BY <1>10 DEF RelayMarkPublishedFails, InjectFault, TypeInv, TypeOK, Offsets,
                 dbVars, relayVars, jobConsumer, resultConsumer
  <1>11. ASSUME NEW w \in Workers, DispatchJob(w)
         PROVE  TypeInv'
    <2>1. /\ fetched' \in Nat /\ marked <= fetched' /\ fetched' <= Len(jobTopic)
          /\ inHand' \in [Workers -> Nat]
          /\ \A u \in Workers : inHand'[u] <= fetched'
      BY <1>11 DEF DispatchJob, TypeInv, TypeOK, Offsets
    <2> QED
      BY SMTT(30), <1>11, <2>1
         DEF DispatchJob, TypeInv, TypeOK, Offsets, dbVars, relayVars, resultConsumer
  <1>12. ASSUME NEW w \in Workers, NEW v \in Verdicts, ProcessJob(w, v)
         PROVE  TypeInv'
    <2>1. resultTopic' \in Seq(ResultMessage) /\ Len(resultTopic') = Len(resultTopic) + 1
      BY <1>12, InHandTypes DEF ProcessJob, Trying, TypeInv, TypeOK, ResultMessage
    <2> QED
      BY SMTT(30), <1>12, <2>1 DEF ProcessJob, Trying, TypeInv, TypeOK, Offsets, dbVars, relayVars, resultConsumer
  <1>13. ASSUME NEW w \in Workers, ProcessJobFails(w)
         PROVE  TypeInv'
    <2>1. JobOf(w) \in Attempts
      BY <1>13, InHandTypes DEF ProcessJobFails, Trying
    <2>2. resultTopic' \in Seq(ResultMessage) /\ Len(resultTopic') >= Len(resultTopic)
      <3>1. CASE UNCHANGED resultTopic
        BY <3>1 DEF TypeInv, TypeOK
      <3>2. ASSUME NEW v \in Verdicts,
                   resultTopic' = Append(resultTopic, [attempt |-> JobOf(w), status |-> v])
            PROVE  resultTopic' \in Seq(ResultMessage) /\ Len(resultTopic') >= Len(resultTopic)
        BY <2>1, <3>2 DEF TypeInv, TypeOK, ResultMessage
      <3> QED
        BY ZenonT(30), <1>13, <3>1, <3>2 DEF ProcessJobFails
    <2>3. dlt' \in SUBSET Attempts
      BY <1>13, <2>1 DEF ProcessJobFails, SendToDLT, TypeInv, TypeOK
    <2> QED
      BY SMTT(30), <1>13, <2>2, <2>3
         DEF ProcessJobFails, Trying, InjectFault, TypeInv, TypeOK, Offsets, dbVars,
             relayVars, resultConsumer
  <1>14. ASSUME NEW w \in Workers, MarkJob(w)
         PROVE  TypeInv'
    BY SMTT(30), <1>14 DEF MarkJob, Later, TypeInv, TypeOK, Offsets, dbVars, relayVars, jobConsumer, resultConsumer
  <1>15. CASE CommitJobs
    BY <1>15 DEF CommitJobs, TypeInv, TypeOK, Offsets, dbVars, relayVars, jobConsumer, resultConsumer
  <1>16. ASSUME NEW c \in Nat, c <= Len(jobTopic), JobSessionFrom(c)
         PROVE  TypeInv'
    BY <1>16 DEF JobSessionFrom, InjectFault, TypeInv, TypeOK, Offsets,
                 dbVars, relayVars, jobConsumer, resultConsumer
  <1>17. CASE EndJobSession \/ CrashWorker
    <2>1. /\ marked \in Nat /\ marked <= Len(jobTopic)
          /\ committed \in Nat /\ committed <= Len(jobTopic)
      BY DEF TypeInv, TypeOK, Offsets
    <2> QED
      BY <1>16, <1>17, <2>1 DEF EndJobSession, CrashWorker
  <1>18. CASE ApplyResult
    BY SMTT(30), <1>18, InHandTypes, ApplyType
       DEF ApplyResult, TryingResult, TypeInv, TypeOK, Offsets, relayVars, jobConsumer
  <1>19. CASE ApplyResultFails
    <2>1. NextResult \in ResultMessage
      BY <1>19, InHandTypes DEF ApplyResultFails, TryingResult
    <2>2. /\ submission' \in [Submissions -> [status : Status,
                                       attempt : Attempts \cup {NoAttempt}]]
          /\ attempt' \in [Attempts -> [sub : Submissions \cup {NoSubmission},
                                 status : Status]]
          /\ caseRows' \in [Attempts -> Status]
      BY <1>19, <2>1, ApplyType DEF ApplyResultFails, TypeInv, TypeOK, dbVars
    <2>3. dlt' \in SUBSET Attempts
      BY <1>19, <2>1 DEF ApplyResultFails, SendToDLT, ResultMessage, TypeInv, TypeOK
    <2> QED
      BY <1>19, <2>2, <2>3
         DEF ApplyResultFails, TryingResult, InjectFault, TypeInv, TypeOK, Offsets, relayVars, jobConsumer
  <1>20. CASE MarkResult
    BY <1>20 DEF MarkResult, TypeInv, TypeOK, Offsets, dbVars, relayVars, jobConsumer
  <1>21. CASE CommitResults
    BY <1>21 DEF CommitResults, TypeInv, TypeOK, Offsets, dbVars, relayVars, jobConsumer
  <1>22. CASE EndResultSession
    BY <1>22 DEF EndResultSession, ResultSessionFrom, InjectFault, TypeInv, TypeOK, Offsets,
                 dbVars, relayVars, jobConsumer
  <1>23. CASE CrashSubmissionService
    BY <1>23 DEF CrashSubmissionService, ResultSessionFrom, InjectFault, TypeInv, TypeOK,
                 Offsets, dbVars, relayVars, jobConsumer
  <1>24. CASE UNCHANGED vars
    BY <1>24 DEF vars, TypeInv, TypeOK, Offsets, dbVars, relayVars, jobConsumer, resultConsumer
  <1> QED
    BY <1>1, <1>2, <1>3, <1>4, <1>5, <1>6, <1>7, <1>8, <1>9, <1>10, <1>11, <1>12,
       <1>13, <1>14, <1>15, <1>17, <1>18, <1>19, <1>20, <1>21, <1>22, <1>23, <1>24
       DEF Next

LEMMA TypeInvariant == Spec => []TypeInv
  BY InitTypeInv, NextTypeInv, PTL DEF Spec

\* Every variable of the pipeline keeps its type.
THEOREM TypesCorrect == Spec => []TypeOK
  <1>1. TypeInv => TypeOK
    BY DEF TypeInv
  <1> QED
    BY <1>1, TypeInvariant, PTL

-----------------------------------------------------------------------------
\* The tables

Known(a) == attempt[a].status # "NONE"

\* Every message of the relay and of the topics is about an attempt of the
\* attempts table, and every such attempt has an owner and an outbox row.
Links ==
    /\ \A s \in Submissions : submission[s].status = "NONE" <=> submission[s].attempt = NoAttempt
    /\ \A a \in Attempts : Known(a) => attempt[a].sub \in Submissions
    /\ \A a \in Attempts : Known(a) <=> outbox[a].status # "NONE"
    /\ \A a \in batch : Known(a)
    /\ sent # NoAttempt => Known(sent)
    /\ \A i \in 1..Len(jobTopic) : Known(jobTopic[i])
    /\ \A i \in 1..Len(resultTopic) : Known(resultTopic[i].attempt)

TablesInv == TablesAgree /\ Links

\* A transaction that opens an attempt, for a new submission or for one that
\* has its verdict.
Opening(s, a) ==
    /\ submission[s].status = "NONE" \/ IsTerminal(s)
    /\ FreshAttempt(a)
    /\ OpenAttempt(s, a)

\* The database changes in two ways only: an attempt is opened, or a message
\* of the result topic is applied.
LEMMA DatabaseSteps ==
    ASSUME TypeInv, [Next]_vars
    PROVE  \/ \E s \in Submissions, a \in Attempts :
                /\ Opening(s, a)
                /\ UNCHANGED <<batch, sent, jobTopic, resultTopic>>
           \/ \E i \in 1..Len(resultTopic) :
                /\ ApplyJudgeResult(resultTopic[i])
                /\ UNCHANGED <<outbox, batch, sent, jobTopic, resultTopic>>
           \/ UNCHANGED dbVars
  <1>1. ASSUME NEW s \in Submissions, NEW a \in Attempts, CreateSubmission(s, a)
        PROVE  Opening(s, a) /\ UNCHANGED <<batch, sent, jobTopic, resultTopic>>
    BY <1>1 DEF CreateSubmission, Opening, relayVars
  <1>2. ASSUME NEW x \in Admins, NEW a \in Attempts, RejudgeCommit(x, a)
        PROVE  /\ admin[x] \in Submissions
               /\ Opening(admin[x], a)
               /\ UNCHANGED <<batch, sent, jobTopic, resultTopic>>
    BY <1>2 DEF RejudgeCommit, Opening, relayVars, TypeInv, TypeOK
  <1>3. CASE ApplyResult \/ ApplyResultFails
    <2>1. resMarked + 1 \in 1..Len(resultTopic)
      BY <1>3 DEF ApplyResult, ApplyResultFails, TryingResult, TypeInv, TypeOK
    <2>2. /\ ApplyJudgeResult(resultTopic[resMarked + 1]) \/ UNCHANGED dbVars
          /\ UNCHANGED <<outbox, batch, sent, jobTopic, resultTopic>>
      BY <1>3 DEF ApplyResult, ApplyResultFails, NextResult, relayVars
    <2> QED
      BY <2>1, <2>2
  <1>4. CASE /\ ~ApplyResult /\ ~ApplyResultFails
             /\ \A s \in Submissions, a \in Attempts : ~CreateSubmission(s, a)
             /\ \A x \in Admins, a \in Attempts : ~RejudgeCommit(x, a)
    <2>1. UNCHANGED dbVars
      BY ZenonT(30), <1>4 DEF Next, vars, RejudgeCheck, RejudgeAbort, RelayPoll, RelaySkip, RelaySend,
            RelaySendFails, RelayMarkPublished, RelayMarkPublishedFails, DispatchJob,
            ProcessJob, ProcessJobFails, MarkJob, CommitJobs, EndJobSession, CrashWorker,
            JobSessionFrom, MarkResult, CommitResults, EndResultSession,
            CrashSubmissionService
    <2> QED
      BY <2>1
  <1> QED
    BY <1>1, <1>2, <1>3, <1>4

\* Opening an attempt keeps the tables consistent.
LEMMA OpeningTables ==
    ASSUME TypeInv, TypeInv', TablesInv, NEW s \in Submissions, NEW a \in Attempts,
           Opening(s, a)
    PROVE  TablesAgree'
  <1> USE DEF Known
  <1>1. /\ submission' = [submission EXCEPT ![s] = [status |-> "PENDING", attempt |-> a]]
        /\ attempt' = [attempt EXCEPT ![a] = [sub |-> s, status |-> "PENDING"]]
        /\ caseRows' = caseRows
    BY DEF Opening, OpenAttempt
  <1>2. attempt[a].status = "NONE"
    BY DEF Opening, FreshAttempt
  <1>3. submission \in [Submissions -> [status : Status, attempt : Attempts \cup {NoAttempt}]]
        /\ attempt \in [Attempts -> [sub : Submissions \cup {NoSubmission}, status : Status]]
    BY ZenonT(30) DEF TypeInv, TypeOK
  <1>4. ASSUME NEW t \in Submissions, submission'[t].status # "NONE"
        PROVE  /\ submission'[t].attempt \in Attempts
               /\ attempt'[submission'[t].attempt] =
                     [sub |-> t, status |-> submission'[t].status]
    <2>1. CASE t = s
      BY <1>1, <1>3, <2>1
    <2>2. CASE t # s
      <3>1. submission'[t] = submission[t]
        BY <1>1, <1>3, <2>2
      <3>2. /\ submission[t].attempt \in Attempts
            /\ attempt[submission[t].attempt] = [sub |-> t, status |-> submission[t].status]
        BY <1>4, <3>1 DEF TablesInv, TablesAgree
      <3>3. submission[t].attempt # a
        BY <1>2, <1>4, <3>1, <3>2
      <3> QED
        BY <1>1, <1>3, <3>1, <3>2, <3>3
    <2> QED
      BY <2>1, <2>2
  <1>5. ASSUME NEW b \in Attempts
        PROVE  /\ caseRows'[b] = IF attempt'[b].status \in TerminalStatuses
                                  THEN attempt'[b].status ELSE "NONE"
               /\ attempt'[b].status = "PENDING" => submission'[attempt'[b].sub].attempt = b
    <2>1. /\ caseRows[b] = IF attempt[b].status \in TerminalStatuses
                             THEN attempt[b].status ELSE "NONE"
          /\ attempt[b].status = "PENDING" => submission[attempt[b].sub].attempt = b
      BY DEF TablesInv, TablesAgree
    <2>2. CASE b = a
      BY <1>1, <1>2, <1>3, <2>1, <2>2 DEF TerminalStatuses
    <2>3. CASE b # a
      <3>1. attempt'[b] = attempt[b]
        BY <1>1, <1>3, <2>3
      <3>2. ASSUME attempt[b].status = "PENDING"
            PROVE  attempt[b].sub \in Submissions /\ attempt[b].sub # s
        <4>1. attempt[b].sub \in Submissions
          BY <3>2 DEF TablesInv, Links
        <4>2. submission[attempt[b].sub].status = "PENDING"
          <5>1. submission[attempt[b].sub].attempt = b
            BY <2>1, <3>2
          <5>2. submission[attempt[b].sub].status # "NONE"
            BY <4>1, <5>1, PipelineAssumption DEF TablesInv, Links
          <5>3. attempt[b] = [sub |-> attempt[b].sub,
                              status |-> submission[attempt[b].sub].status]
            BY <4>1, <5>1, <5>2 DEF TablesInv, TablesAgree
          <5>4. attempt[b].status = submission[attempt[b].sub].status
            BY <5>3
          <5> QED
            BY <3>2, <5>4
        <4> QED
          BY <4>1, <4>2 DEF Opening, IsTerminal, TerminalStatuses
      <3> QED
        BY <1>1, <1>3, <2>1, <3>1, <3>2
    <2> QED
      BY <2>2, <2>3
  <1> QED
    BY <1>4, <1>5 DEF TablesAgree

\* The i-th result gives submission s, whose current attempt is a, verdict v.
Judging(i, a, v, s) ==
    /\ resultTopic[i] = [attempt |-> a, status |-> v]
    /\ s = attempt[a].sub
    /\ submission[s].attempt = a
    /\ submission[s].status \notin TerminalStatuses
    /\ submission' = [submission EXCEPT ![s] = [status |-> v, attempt |-> a]]
    /\ caseRows' = [caseRows EXCEPT ![a] = v]
    /\ attempt' = [attempt EXCEPT ![a] = [sub |-> s, status |-> v]]

\* What applying a result of the topic does when it does anything.
LEMMA ApplyEffect ==
    ASSUME TypeInv, Links, NEW i \in 1..Len(resultTopic),
           ApplyJudgeResult(resultTopic[i])
    PROVE  \/ UNCHANGED dbVars
           \/ \E a \in Attempts, v \in Verdicts, s \in Submissions : Judging(i, a, v, s)
  <1> SUFFICES ASSUME ~UNCHANGED dbVars
               PROVE  \E a \in Attempts, v \in Verdicts, s \in Submissions : Judging(i, a, v, s)
    OBVIOUS
  <1>1. resultTopic[i] \in ResultMessage
    BY DEF TypeInv, TypeOK
  <1>2. PICK a \in Attempts, v \in Verdicts : resultTopic[i] = [attempt |-> a, status |-> v]
    BY <1>1 DEF ResultMessage
  <1>3. resultTopic[i].attempt = a /\ resultTopic[i].status = v
    BY <1>2
  <1>4. attempt[a].sub \in Submissions
    BY <1>3 DEF Links
  <1> DEFINE s == attempt[a].sub
  <1>5. /\ submission[s].attempt = a
        /\ submission[s].status \notin TerminalStatuses
        /\ submission' = [submission EXCEPT ![s] = [status |-> v, attempt |-> a]]
        /\ caseRows' = [caseRows EXCEPT ![a] = v]
        /\ attempt' = [attempt EXCEPT ![a] = [sub |-> s, status |-> v]]
    BY <1>3 DEF ApplyJudgeResult, IsTerminal
  <1>6. Judging(i, a, v, s)
    BY <1>2, <1>5 DEF Judging
  <1> QED
    BY <1>4, <1>6

\* Applying a result of the topic keeps the tables consistent as well.
LEMMA ApplyingTables ==
    ASSUME TypeInv, TypeInv', TablesInv, NEW i \in 1..Len(resultTopic),
           ApplyJudgeResult(resultTopic[i])
    PROVE  TablesAgree'
  <1>1. CASE UNCHANGED dbVars
    BY SMTT(30), <1>1 DEF TablesInv, TablesAgree, dbVars
  <1>2. CASE ~UNCHANGED dbVars
    <2>0. PICK a \in Attempts, v \in Verdicts, s \in Submissions : Judging(i, a, v, s)
      BY <1>2, ApplyEffect DEF TablesInv
    <2>1. /\ submission' = [submission EXCEPT ![s] = [status |-> v, attempt |-> a]]
          /\ caseRows' = [caseRows EXCEPT ![a] = v]
          /\ attempt' = [attempt EXCEPT ![a] = [sub |-> s, status |-> v]]
      BY <2>0 DEF Judging
    <2>2. v \in TerminalStatuses
      BY PipelineAssumption
    <2>3. s = attempt[a].sub /\ submission[s].attempt = a
      BY <2>0 DEF Judging
    <2>4. /\ submission \in [Submissions -> [status : Status, attempt : Attempts \cup {NoAttempt}]]
          /\ attempt \in [Attempts -> [sub : Submissions \cup {NoSubmission}, status : Status]]
          /\ caseRows \in [Attempts -> Status]
      BY ZenonT(30) DEF TypeInv, TypeOK
    <2>5. ASSUME NEW t \in Submissions, submission'[t].status # "NONE"
          PROVE  /\ submission'[t].attempt \in Attempts
                 /\ attempt'[submission'[t].attempt] =
                       [sub |-> t, status |-> submission'[t].status]
      <3>1. CASE t = s
        BY <2>1, <2>2, <2>3, <2>4, <3>1
      <3>2. CASE t # s
        <4>1. submission'[t] = submission[t]
          BY SMTT(30), <2>1, <2>3, <2>4, <3>2
        <4>2. /\ submission[t].attempt \in Attempts
              /\ attempt[submission[t].attempt] = [sub |-> t, status |-> submission[t].status]
          BY ZenonT(30), <2>5, <4>1 DEF TablesInv, TablesAgree
        <4>3. submission[t].attempt # a
          BY <2>3, <3>2, <4>2
        <4> QED
          BY <2>1, <2>2, <2>4, <4>1, <4>2, <4>3
      <3> QED
        BY <3>1, <3>2
    <2>6. ASSUME NEW b \in Attempts
          PROVE  /\ caseRows'[b] = IF attempt'[b].status \in TerminalStatuses
                                    THEN attempt'[b].status ELSE "NONE"
                 /\ attempt'[b].status = "PENDING" => submission'[attempt'[b].sub].attempt = b
      <3>1. /\ caseRows[b] = IF attempt[b].status \in TerminalStatuses
                               THEN attempt[b].status ELSE "NONE"
            /\ attempt[b].status = "PENDING" => submission[attempt[b].sub].attempt = b
        BY DEF TablesInv, TablesAgree
      <3>2. CASE b = a
        BY <2>1, <2>2, <2>3, <2>4, <3>2
      <3>3. CASE b # a
        <4>1. attempt'[b] = attempt[b] /\ caseRows'[b] = caseRows[b]
          BY <2>1, <2>2, <2>4, <3>3
        <4>2. \A t \in Submissions : submission'[t].attempt = submission[t].attempt
          BY <2>1, <2>3, <2>4
        <4>3. attempt[b].status = "PENDING" => attempt[b].sub \in Submissions
          BY DEF TablesInv, Links, Known
        <4> QED
          BY <3>1, <4>1, <4>2, <4>3
      <3> QED
        BY <3>2, <3>3
    <2> QED
      BY <2>5, <2>6 DEF TablesAgree
  <1> QED
    BY <1>1, <1>2

\* Where a message that a step adds comes from.
LEMMA MessageSteps ==
    ASSUME TypeInv, Links, [Next]_vars
    PROVE  /\ batch' \subseteq batch \cup PendingRows
           /\ sent' = NoAttempt \/ sent' = sent \/ sent' \in batch
           /\ jobTopic' = jobTopic \/ \E a \in batch : jobTopic' = Append(jobTopic, a)
           /\ \/ resultTopic' = resultTopic
              \/ \E i \in 1..Len(jobTopic), v \in Verdicts :
                    resultTopic' = Append(resultTopic, [attempt |-> jobTopic[i], status |-> v])
           /\ \/ \E s \in Submissions, a \in Attempts : OpenAttempt(s, a)
              \/ \A a \in Attempts : outbox'[a].status = "NONE" <=> outbox[a].status = "NONE"
  <1> DEFINE Relay == \/ RelayPoll
                      \/ \E a \in Attempts : RelaySkip(a) \/ RelaySend(a) \/ RelaySendFails(a)
                      \/ RelayMarkPublished
                      \/ RelayMarkPublishedFails
                      \/ CrashSubmissionService
             Process == \E w \in Workers :
                          (\E v \in Verdicts : ProcessJob(w, v)) \/ ProcessJobFails(w)
             Open == \/ \E s \in Submissions, a \in Attempts : CreateSubmission(s, a)
                     \/ \E x \in Admins, a \in Attempts : RejudgeCommit(x, a)
  <1>1. CASE Open
    <2>1. \E s \in Submissions, a \in Attempts : OpenAttempt(s, a)
      BY SMTT(30), <1>1 DEF CreateSubmission, RejudgeCommit, TypeInv, TypeOK
    <2>2. UNCHANGED <<batch, sent, jobTopic, resultTopic>>
      BY <1>1 DEF CreateSubmission, RejudgeCommit, relayVars
    <2> QED
      BY ZenonT(30), <2>1, <2>2
  <1>2. CASE Relay
    <2>1. batch' \subseteq batch \cup PendingRows
      BY <1>2 DEF RelayPoll, RelaySkip, RelaySend, RelaySendFails, RelayMarkPublished,
            RelayMarkPublishedFails, CrashSubmissionService
    <2>2. sent' = NoAttempt \/ sent' = sent \/ sent' \in batch
      BY <1>2 DEF RelayPoll, RelaySkip, RelaySend, RelaySendFails, RelayMarkPublished,
            RelayMarkPublishedFails, CrashSubmissionService
    <2>3. jobTopic' = jobTopic \/ \E a \in batch : jobTopic' = Append(jobTopic, a)
      BY <1>2 DEF RelayPoll, RelaySkip, RelaySend, RelaySendFails, RelayMarkPublished,
            RelayMarkPublishedFails, CrashSubmissionService
    <2>4. resultTopic' = resultTopic
      BY SMTT(30), <1>2 DEF RelayPoll, RelaySkip, RelaySend, RelaySendFails, RelayMarkPublished,
            RelayMarkPublishedFails, CrashSubmissionService
    <2>5. \A a \in Attempts : outbox'[a].status = "NONE" <=> outbox[a].status = "NONE"
      <3>1. CASE UNCHANGED outbox
        BY <3>1
      <3>2. ASSUME NEW a \in batch, NEW r,
                   outbox' = [outbox EXCEPT ![a] = r], r.status # "NONE"
            PROVE  \A b \in Attempts : outbox'[b].status = "NONE" <=> outbox[b].status = "NONE"
        <4>1. a \in Attempts /\ outbox[a].status # "NONE"
          BY DEF Links, TypeInv, TypeOK
        <4> QED
          BY <3>2, <4>1 DEF TypeInv, TypeOK
      <3>3. CASE RelayMarkPublished
        <4>1. sent \in Attempts /\ outbox[sent].status # "NONE"
          BY SMTT(30), <3>3 DEF RelayMarkPublished, Links, TypeInv, TypeOK
        <4> QED
          BY <3>3, <4>1 DEF RelayMarkPublished, TypeInv, TypeOK
      <3>4. CASE \E a \in Attempts : RelaySendFails(a)
        BY <3>1, <3>2, <3>4 DEF RelaySendFails
      <3>5. CASE \/ RelayPoll \/ RelayMarkPublishedFails \/ CrashSubmissionService
                 \/ \E a \in Attempts : RelaySkip(a) \/ RelaySend(a)
        BY <3>1, <3>5
           DEF RelayPoll, RelaySkip, RelaySend, RelayMarkPublishedFails, CrashSubmissionService
      <3> QED
        BY Zenon, <1>2, <3>3, <3>4, <3>5
    <2> QED
      BY <2>1, <2>2, <2>3, <2>4, <2>5
  <1>3. CASE Process
    <2>1. PICK w \in Workers : (\E v \in Verdicts : ProcessJob(w, v)) \/ ProcessJobFails(w)
      BY <1>3
    <2>2. inHand[w] \in 1..Len(jobTopic)
      <3>1. inHand[w] \in Nat /\ inHand[w] > 0
        BY ZenonT(30), <2>1 DEF ProcessJob, ProcessJobFails, Trying, TypeInv, TypeOK
      <3>2. inHand[w] <= fetched /\ fetched <= Len(jobTopic) /\ fetched \in Nat
        BY DEF TypeInv, TypeOK, Offsets
      <3>3. Len(jobTopic) \in Nat
        BY LenProperties DEF TypeInv, TypeOK
      <3> QED
        BY <3>1, <3>2, <3>3
    <2>3. \/ resultTopic' = resultTopic
          \/ \E v \in Verdicts :
                resultTopic' = Append(resultTopic, [attempt |-> jobTopic[inHand[w]], status |-> v])
      BY ZenonT(30), <2>1 DEF ProcessJob, ProcessJobFails, JobOf
    <2>4. UNCHANGED <<batch, sent, jobTopic, outbox>>
      BY ZenonT(30), <2>1 DEF ProcessJob, ProcessJobFails, relayVars
    <2> QED
      BY ZenonT(30), <2>2, <2>3, <2>4
  <1>4. CASE ~Open /\ ~Relay /\ ~Process
    <2>1. UNCHANGED <<batch, sent, jobTopic, resultTopic, outbox>>
      BY ZenonT(60), <1>4 DEF Next, vars, RejudgeCheck, RejudgeAbort, DispatchJob, MarkJob, CommitJobs,
            EndJobSession, CrashWorker, JobSessionFrom, ApplyResult, ApplyResultFails,
            MarkResult, CommitResults, EndResultSession, relayVars
    <2> QED
      BY SMTT(30), <2>1
  <1> QED
    BY ZenonT(30), <1>1, <1>2, <1>3, <1>4

\* An attempt of the table stays there.
LEMMA KnownStays ==
    ASSUME TypeInv, Links, [Next]_vars
    PROVE  \A a \in Attempts : Known(a) => Known(a)'
  <1>1. ASSUME NEW s \in Submissions, NEW a \in Attempts, Opening(s, a)
        PROVE  \A b \in Attempts : Known(b) => Known(b)'
    BY <1>1 DEF Opening, OpenAttempt, Known, TypeInv, TypeOK
  <1>2. ASSUME NEW i \in 1..Len(resultTopic), ApplyJudgeResult(resultTopic[i])
        PROVE  \A b \in Attempts : Known(b) => Known(b)'
    <2>1. CASE UNCHANGED dbVars
      BY SMTT(30), <2>1 DEF Known, dbVars
    <2>2. ASSUME NEW a \in Attempts, NEW v \in Verdicts, NEW s \in Submissions,
                 Judging(i, a, v, s)
          PROVE  \A b \in Attempts : Known(b) => Known(b)'
      <3>1. v # "NONE"
        BY PipelineAssumption DEF TerminalStatuses
      <3> QED
        BY SMTT(30), <2>2, <3>1 DEF Judging, Known, TypeInv, TypeOK
    <2> QED
      BY <1>2, <2>1, <2>2, ApplyEffect
  <1>3. CASE UNCHANGED dbVars
    BY <1>3 DEF Known, dbVars
  <1> QED
    BY <1>1, <1>2, <1>3, DatabaseSteps

\* Messages stay about known attempts.
LEMMA NextLinks ==
    ASSUME TypeInv, TypeInv', TablesInv, [Next]_vars
    PROVE  Links'
  <1> USE DEF Known
  <1>0. Links
    BY DEF TablesInv
  <1>1. \A a \in Attempts : Known(a) => Known(a)'
    BY <1>0, KnownStays
  <1>2. \A a \in batch' : Known(a)'
    <2>0. \A a \in batch : a \in Attempts /\ Known(a)
      BY Zenon, <1>0 DEF Links, TypeInv, TypeOK
    <2>1. \A a \in batch \cup PendingRows : a \in Attempts /\ Known(a)
      BY <1>0, <2>0 DEF Links, PendingRows
    <2>2. batch' \subseteq batch \cup PendingRows
      BY ZenonT(30), <1>0, MessageSteps
    <2> QED
      BY ZenonT(30), <1>1, <2>1, <2>2
  <1>3. sent' # NoAttempt => Known(sent)'
    <2>1. sent # NoAttempt => sent \in Attempts /\ Known(sent)
      BY ZenonT(30), <1>0 DEF Links, TypeInv, TypeOK
    <2>2. \A a \in batch : a \in Attempts /\ Known(a)
      BY ZenonT(30), <1>0 DEF Links, TypeInv, TypeOK
    <2>3. sent' = NoAttempt \/ sent' = sent \/ sent' \in batch
      BY ZenonT(30), <1>0, MessageSteps
    <2> QED
      BY SMTT(30), <1>1, <2>1, <2>2, <2>3
  <1>4. \A i \in 1..Len(jobTopic') : Known(jobTopic[i])'
    <2>1. \A i \in 1..Len(jobTopic) : attempt'[jobTopic[i]].status # "NONE"
      BY <1>0, <1>1, LogEntries DEF Links
    <2>2. CASE jobTopic' = jobTopic
      BY <2>1, <2>2
    <2>3. ASSUME NEW a \in batch, jobTopic' = Append(jobTopic, a)
          PROVE  \A i \in 1..Len(jobTopic') : Known(jobTopic[i])'
      <3>1. a \in Attempts /\ Known(a)'
        BY ZenonT(30), <1>0, <1>1 DEF Links, TypeInv, TypeOK
      <3>2. jobTopic \in Seq(Attempts)
        BY DEF TypeInv, TypeOK
      <3>3. /\ Len(jobTopic') = Len(jobTopic) + 1 /\ Len(jobTopic) \in Nat
            /\ \A i \in 1..Len(jobTopic) : jobTopic'[i] = jobTopic[i]
            /\ jobTopic'[Len(jobTopic) + 1] = a
        BY <2>3, <3>1, <3>2, AppendFacts
      <3> QED
        BY SMTT(30), <2>1, <3>1, <3>3
    <2> QED
      BY <1>0, <2>2, <2>3, MessageSteps
  <1>5. \A i \in 1..Len(resultTopic') : Known(resultTopic[i].attempt)'
    <2>1. ASSUME NEW i \in 1..Len(resultTopic)
          PROVE  attempt'[resultTopic[i].attempt].status # "NONE"
      BY <1>0, <1>1, LogEntries DEF Links
    <2>2. CASE resultTopic' = resultTopic
      BY <2>1, <2>2
    <2>3. ASSUME NEW k \in 1..Len(jobTopic), NEW v \in Verdicts,
                 resultTopic' = Append(resultTopic, [attempt |-> jobTopic[k], status |-> v])
          PROVE  \A i \in 1..Len(resultTopic') : Known(resultTopic[i].attempt)'
      <3>1. jobTopic[k] \in Attempts /\ Known(jobTopic[k])
        BY <1>0, LogEntries DEF Links
      <3>2. resultTopic \in Seq(ResultMessage)
            /\ [attempt |-> jobTopic[k], status |-> v] \in ResultMessage
        BY SMTT(30), <3>1 DEF TypeInv, TypeOK, ResultMessage
      <3>3. /\ Len(resultTopic') = Len(resultTopic) + 1 /\ Len(resultTopic) \in Nat
            /\ \A i \in 1..Len(resultTopic) : resultTopic'[i] = resultTopic[i]
            /\ resultTopic'[Len(resultTopic) + 1] = [attempt |-> jobTopic[k], status |-> v]
        <4> DEFINE m == [attempt |-> jobTopic[k], status |-> v]
        <4>1. m \in ResultMessage
          BY <3>2
        <4> HIDE DEF m
        <4>2. resultTopic' = Append(resultTopic, m)
          BY <2>3 DEF m
        <4>3. /\ Len(resultTopic') = Len(resultTopic) + 1 /\ Len(resultTopic) \in Nat
              /\ \A i \in 1..Len(resultTopic) : resultTopic'[i] = resultTopic[i]
              /\ resultTopic'[Len(resultTopic) + 1] = m
          BY <3>2, <4>1, <4>2, AppendFacts
        <4> QED
          BY <4>3 DEF m
      <3>4. ASSUME NEW i \in 1..Len(resultTopic')
            PROVE  Known(resultTopic[i].attempt)'
        <4>1. CASE i \in 1..Len(resultTopic)
          BY ZenonT(30), <2>1, <3>3, <4>1
        <4>2. CASE i = Len(resultTopic) + 1
          <5>1. resultTopic'[i] = [attempt |-> jobTopic[k], status |-> v]
            BY ZenonT(30), <3>3, <4>2
          <5>2. resultTopic'[i].attempt = jobTopic[k]
            BY ZenonT(30), <5>1, MessageAttempt
          <5> QED
            BY ZenonT(30), <1>1, <3>1, <5>2
        <4>3. i \in 1..Len(resultTopic) \/ i = Len(resultTopic) + 1
          BY ZenonT(30), <3>3, LastOrBefore
        <4> QED
          BY <4>1, <4>2, <4>3
      <3> QED
        BY SMTT(30), <3>4
    <2> QED
      BY ZenonT(30), <1>0, <2>2, <2>3, MessageSteps
  <1>6. /\ \A s \in Submissions :
              submission'[s].status = "NONE" <=> submission'[s].attempt = NoAttempt
        /\ \A a \in Attempts : Known(a)' => attempt'[a].sub \in Submissions
        /\ \A a \in Attempts : Known(a)' <=> outbox'[a].status # "NONE"
    <2>1. ASSUME NEW s \in Submissions, NEW a \in Attempts, Opening(s, a)
          PROVE  <1>6
      <3>1. /\ submission' = [submission EXCEPT ![s] = [status |-> "PENDING", attempt |-> a]]
            /\ attempt' = [attempt EXCEPT ![a] = [sub |-> s, status |-> "PENDING"]]
            /\ outbox' = [outbox EXCEPT ![a] = [status |-> "PENDING", retries |-> 0]]
        BY <2>1 DEF Opening, OpenAttempt
      <3>2. /\ submission \in [Submissions -> [status : Status, attempt : Attempts \cup {NoAttempt}]]
            /\ attempt \in [Attempts -> [sub : Submissions \cup {NoSubmission}, status : Status]]
            /\ DOMAIN outbox = Attempts
        BY ZenonT(30) DEF TypeInv, TypeOK
      <3>3. \A x \in Submissions :
               submission'[x].status = "NONE" <=> submission'[x].attempt = NoAttempt
        <4>1. \A x \in Submissions :
                 submission[x].status = "NONE" <=> submission[x].attempt = NoAttempt
          BY Zenon, <1>0 DEF Links
        <4> QED
          BY <3>1, <3>2, <4>1, PipelineAssumption
      <3>a. \A x \in Attempts : /\ attempt[x].status # "NONE" => attempt[x].sub \in Submissions
                                /\ attempt[x].status # "NONE" <=> outbox[x].status # "NONE"
        BY Zenon, <1>0 DEF Links
      <3>4. \A x \in Attempts : attempt'[x].status # "NONE" => attempt'[x].sub \in Submissions
        BY SMTT(30), <3>1, <3>2, <3>a
      <3>5. \A x \in Attempts : attempt'[x].status # "NONE" <=> outbox'[x].status # "NONE"
        BY SMTT(30), <3>1, <3>2, <3>a
      <3> QED
        BY <3>3, <3>4, <3>5
    <2>2. ASSUME NEW i \in 1..Len(resultTopic), ApplyJudgeResult(resultTopic[i]),
                 UNCHANGED outbox, ~UNCHANGED dbVars
          PROVE  <1>6
      <3>1. PICK a \in Attempts, v \in Verdicts, s \in Submissions : Judging(i, a, v, s)
        BY <1>0, <2>2, ApplyEffect
      <3>2. v # "NONE"
        BY PipelineAssumption DEF TerminalStatuses
      <3>3. Known(a)
        <4>1. resultTopic[i].attempt = a
          BY <3>1 DEF Judging
        <4> QED
          BY <1>0, <4>1 DEF Links
      <3>4. /\ submission' = [submission EXCEPT ![s] = [status |-> v, attempt |-> a]]
            /\ attempt' = [attempt EXCEPT ![a] = [sub |-> s, status |-> v]]
            /\ outbox' = outbox
        BY SMTT(30), <2>2, <3>1 DEF Judging
      <3>5. DOMAIN submission = Submissions /\ DOMAIN attempt = Attempts
        BY DEF TypeInv, TypeOK
      <3>6. \A x \in Submissions :
               submission'[x].status = "NONE" <=> submission'[x].attempt = NoAttempt
        <4>1. \A x \in Submissions :
                 submission[x].status = "NONE" <=> submission[x].attempt = NoAttempt
          BY Zenon, <1>0 DEF Links
        <4> QED
          BY <3>2, <3>4, <3>5, <4>1, PipelineAssumption
      <3>7. \A x \in Attempts : attempt'[x].status # "NONE" => attempt'[x].sub \in Submissions
        <4>1. \A x \in Attempts : attempt[x].status # "NONE" => attempt[x].sub \in Submissions
          BY Zenon, <1>0 DEF Links
        <4> QED
          BY <3>4, <3>5, <4>1
      <3>8. \A x \in Attempts : attempt'[x].status # "NONE" <=> outbox'[x].status # "NONE"
        <4>1. \A x \in Attempts : attempt[x].status # "NONE" <=> outbox[x].status # "NONE"
          BY Zenon, <1>0 DEF Links
        <4> QED
          BY <3>2, <3>3, <3>4, <3>5, <4>1
      <3> QED
        BY <3>6, <3>7, <3>8
    <2>3. CASE UNCHANGED dbVars
      <3>1. CASE \A a \in Attempts : outbox'[a].status = "NONE" <=> outbox[a].status = "NONE"
        BY <1>0, <2>3, <3>1 DEF Links, dbVars
      <3>2. ASSUME NEW s \in Submissions, NEW a \in Attempts, OpenAttempt(s, a)
            PROVE  <1>6
        <4>1. /\ attempt' = [attempt EXCEPT ![a] = [sub |-> s, status |-> "PENDING"]]
              /\ outbox' = [outbox EXCEPT ![a] = [status |-> "PENDING", retries |-> 0]]
          BY <3>2 DEF OpenAttempt
        <4>2. attempt' = attempt /\ attempt[a].status = "PENDING"
          BY SMTT(30), <1>0, <2>3, <4>1 DEF dbVars, TypeInv, TypeOK
        <4>3. outbox[a].status # "NONE"
          BY SMTT(30), <1>0, <4>2 DEF Links, Known
        <4>4. \A x \in Attempts : outbox'[x].status = "NONE" <=> outbox[x].status = "NONE"
          <5>1. DOMAIN outbox = Attempts
            BY Zenon DEF TypeInv, TypeOK
          <5> QED
            BY <4>1, <4>3, <5>1
        <4> QED
          BY <3>1, <4>4
      <3>3. \/ \E s \in Submissions, a \in Attempts : OpenAttempt(s, a)
            \/ \A a \in Attempts : outbox'[a].status = "NONE" <=> outbox[a].status = "NONE"
        BY ZenonT(30), <1>0, MessageSteps
      <3> QED
        BY ZenonT(30), <3>1, <3>2, <3>3
    <2> QED
      BY ZenonT(30), <2>1, <2>2, <2>3, DatabaseSteps
  <1> QED
    BY <1>2, <1>3, <1>4, <1>5, <1>6 DEF Links

LEMMA InitTablesInv == Init => TablesInv
  BY PipelineAssumption, EmptySeq
     DEF Init, TablesInv, TablesAgree, Links, Known, TerminalStatuses

\* The tables and the messages about them are consistent after every step.
LEMMA NextTablesInv == TypeInv /\ TypeInv' /\ TablesInv /\ [Next]_vars => TablesInv'
  <1> SUFFICES ASSUME TypeInv, TypeInv', TablesInv, [Next]_vars PROVE TablesInv'
    BY Zenon
  <1>1. UNCHANGED dbVars => TablesAgree'
    BY ZenonT(30) DEF TablesInv, TablesAgree, dbVars
  <1> QED
    BY ZenonT(30), <1>1, DatabaseSteps, OpeningTables, ApplyingTables, NextLinks DEF TablesInv

LEMMA TablesInvariant == Spec => []TablesInv
  BY TypeInvariant, InitTablesInv, NextTablesInv, PTL DEF Spec

\* The tables of the submission database agree in every reachable state,
\* whatever is duplicated, redelivered, superseded or crashes.
THEOREM TablesCorrect == Spec => []TablesAgree
  <1>1. TablesInv => TablesAgree
    BY DEF TablesInv
  <1> QED
    BY <1>1, TablesInvariant, PTL

=============================================================================
