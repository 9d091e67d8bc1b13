----------------------- MODULE JudgePipeline_verdicts -----------------------
(***************************************************************************)
(* Verdicts are published before they are stored and never change; the     *)
(* pipeline implements SubmissionLedger; and it never loses an attempt.    *)
(***************************************************************************)
EXTENDS JudgePipeline_tables

\* What was written to a topic stays where it is.
LEMMA LogsGrow ==
    ASSUME TypeInv, Links, [Next]_vars
    PROVE  /\ Len(jobTopic) \in Nat /\ Len(jobTopic') \in Nat
           /\ Len(jobTopic) <= Len(jobTopic')
           /\ \A i \in 1..Len(jobTopic) : jobTopic'[i] = jobTopic[i]
           /\ Len(resultTopic) \in Nat /\ Len(resultTopic') \in Nat
           /\ Len(resultTopic) <= Len(resultTopic')
           /\ \A i \in 1..Len(resultTopic) : resultTopic'[i] = resultTopic[i]
  <1>1. jobTopic \in Seq(Attempts) /\ resultTopic \in Seq(ResultMessage)
    BY DEF TypeInv, TypeOK
  <1>2. Len(jobTopic) \in Nat /\ Len(resultTopic) \in Nat
    BY <1>1, LenProperties
  <1>3. ASSUME NEW a \in batch, jobTopic' = Append(jobTopic, a)
        PROVE  /\ Len(jobTopic') = Len(jobTopic) + 1
               /\ \A i \in 1..Len(jobTopic) : jobTopic'[i] = jobTopic[i]
    <2>1. a \in Attempts
      BY DEF TypeInv, TypeOK
    <2> QED
      BY <1>1, <1>3, <2>1, AppendFacts
  <1>4. ASSUME NEW k \in 1..Len(jobTopic), NEW v \in Verdicts,
               resultTopic' = Append(resultTopic, [attempt |-> jobTopic[k], status |-> v])
        PROVE  /\ Len(resultTopic') = Len(resultTopic) + 1
               /\ \A i \in 1..Len(resultTopic) : resultTopic'[i] = resultTopic[i]
    <2>1. [attempt |-> jobTopic[k], status |-> v] \in ResultMessage
      BY LogEntries DEF ResultMessage
    <2> QED
      BY <1>1, <1>4, <2>1, AppendFacts
  <1>5. /\ Len(jobTopic') \in Nat /\ Len(jobTopic) <= Len(jobTopic')
        /\ \A i \in 1..Len(jobTopic) : jobTopic'[i] = jobTopic[i]
    BY <1>2, <1>3, MessageSteps
  <1>6. /\ Len(resultTopic') \in Nat /\ Len(resultTopic) <= Len(resultTopic')
        /\ \A i \in 1..Len(resultTopic) : resultTopic'[i] = resultTopic[i]
    <2>1. CASE resultTopic' = resultTopic
      BY <1>2, <2>1
    <2>2. CASE resultTopic' # resultTopic
      <3>1. PICK k \in 1..Len(jobTopic), v \in Verdicts :
              resultTopic' = Append(resultTopic, [attempt |-> jobTopic[k], status |-> v])
        BY ZenonT(30), <2>2, MessageSteps
      <3> QED
        BY <1>2, <1>4, <3>1
    <2> QED
      BY <2>1, <2>2
  <1> QED
    BY <1>2, <1>5, <1>6

\* A current attempt has the status of its submission, which is not "NONE".
LEMMA CurrentAttempt ==
    ASSUME TypeInv, TablesInv, NEW s \in Submissions, submission[s].attempt \in Attempts
    PROVE  /\ submission[s].status # "NONE"
           /\ attempt[submission[s].attempt].sub = s
           /\ attempt[submission[s].attempt].status = submission[s].status
  <1>1. submission[s].status # "NONE"
    BY PipelineAssumption DEF TablesInv, Links
  <1>2. attempt[submission[s].attempt] = [sub |-> s, status |-> submission[s].status]
    BY <1>1 DEF TablesInv, TablesAgree
  <1> QED
    BY <1>1, <1>2

\* A stored verdict was published for its attempt.
LEMMA NextVerdictPublished ==
    TypeInv /\ TablesInv /\ VerdictPublished /\ [Next]_vars => VerdictPublished'
  <1> SUFFICES ASSUME TypeInv, TablesInv, VerdictPublished, [Next]_vars,
                      NEW a \in Attempts, attempt'[a].status \in TerminalStatuses
               PROVE  \E i \in 1..Len(resultTopic') :
                        resultTopic'[i] = [attempt |-> a, status |-> attempt'[a].status]
    BY ZenonT(30) DEF VerdictPublished
  <1>1. Links
    BY DEF TablesInv
  <1>2. ASSUME NEW i \in 1..Len(resultTopic),
               resultTopic[i] = [attempt |-> a, status |-> attempt'[a].status]
        PROVE  \E j \in 1..Len(resultTopic') :
                 resultTopic'[j] = [attempt |-> a, status |-> attempt'[a].status]
    <2>1. i \in 1..Len(resultTopic') /\ resultTopic'[i] = resultTopic[i]
      BY <1>1, LogsGrow
    <2> QED
      BY <1>2, <2>1
  <1>3. CASE attempt'[a] = attempt[a]
    BY <1>2, <1>3 DEF VerdictPublished
  <1>4. ASSUME NEW s \in Submissions, NEW b \in Attempts, Opening(s, b), attempt'[a] # attempt[a]
        PROVE  FALSE
    BY <1>4 DEF Opening, OpenAttempt, TerminalStatuses, TypeInv, TypeOK
  <1>5. ASSUME NEW i \in 1..Len(resultTopic), NEW b \in Attempts, NEW v \in Verdicts,
               NEW s \in Submissions, Judging(i, b, v, s), attempt'[a] # attempt[a]
        PROVE  resultTopic[i] = [attempt |-> a, status |-> attempt'[a].status]
    <2>1. a = b /\ attempt'[a].status = v
      BY SMTT(30), <1>5 DEF Judging, TypeInv, TypeOK
    <2> QED
      BY SMTT(30), <1>5, <2>1 DEF Judging
  <1>6. CASE attempt'[a] # attempt[a]
    <2>1. ~UNCHANGED dbVars
      BY <1>6 DEF dbVars
    <2>2. PICK i \in 1..Len(resultTopic) : ApplyJudgeResult(resultTopic[i])
      BY ZenonT(30), <1>4, <1>6, <2>1, DatabaseSteps
    <2> QED
      BY ZenonT(30), <1>1, <1>2, <1>5, <1>6, <2>1, <2>2, ApplyEffect
  <1> QED
    BY <1>3, <1>6

LEMMA PublishedInvariant == Spec => []VerdictPublished
  <1>1. Init => VerdictPublished
    BY DEF Init, VerdictPublished, TerminalStatuses
  <1> QED
    BY <1>1, TypeInvariant, TablesInvariant, NextVerdictPublished, PTL DEF Spec

\* Every stored verdict is one that a worker published for that attempt.
THEOREM VerdictsPublished == Spec => []VerdictPublished
  BY PublishedInvariant

\* No step changes a stored verdict or its result rows.
LEMMA StableStep ==
    ASSUME TypeInv, TablesInv, [Next]_vars, NEW a \in Attempts,
           attempt[a].status \in TerminalStatuses
    PROVE  attempt'[a] = attempt[a] /\ caseRows'[a] = caseRows[a]
  <1>1. ASSUME NEW s \in Submissions, NEW b \in Attempts, Opening(s, b)
        PROVE  attempt'[a] = attempt[a] /\ caseRows'[a] = caseRows[a]
    <2>1. a # b
      BY <1>1 DEF Opening, FreshAttempt, TerminalStatuses
    <2> QED
      BY SMTT(30), <1>1, <2>1 DEF Opening, OpenAttempt, TypeInv, TypeOK
  <1>2. ASSUME NEW i \in 1..Len(resultTopic), NEW b \in Attempts, NEW v \in Verdicts,
               NEW s \in Submissions, Judging(i, b, v, s)
        PROVE  attempt'[a] = attempt[a] /\ caseRows'[a] = caseRows[a]
    <2>1. submission[s].attempt = b /\ submission[s].status \notin TerminalStatuses
      BY <1>2 DEF Judging
    <2>2. a # b
      BY <2>1, CurrentAttempt
    <2> QED
      BY ZenonT(30), <1>2, <2>2 DEF Judging, TypeInv, TypeOK
  <1>3. CASE UNCHANGED dbVars
    BY <1>3 DEF dbVars
  <1>4. Links
    BY DEF TablesInv
  <1> QED
    BY ZenonT(30), <1>1, <1>2, <1>3, <1>4, DatabaseSteps, ApplyEffect

\* A stored verdict never changes.
THEOREM VerdictsStable == Spec => VerdictStable
  <1>1. TypeInv /\ TablesInv /\ [Next]_vars =>
          [\A a \in Attempts : attempt[a].status \in TerminalStatuses =>
             attempt'[a] = attempt[a] /\ caseRows'[a] = caseRows[a]]_vars
    BY StableStep
  <1> QED
    BY <1>1, TypeInvariant, TablesInvariant, PTL DEF Spec, VerdictStable

-----------------------------------------------------------------------------
\* The ledger

LEMMA LedgerInit == Init => Ledger!Init
  BY DEF Init, Ledger!Init

\* Every step of the pipeline is a step of the ledger or leaves it alone.
LEMMA LedgerStep ==
    ASSUME TypeInv, TablesInv, VerdictPublished, [Next]_vars
    PROVE  [Ledger!Next]_(Ledger!vars)
  <1>1. ASSUME NEW s \in Submissions, NEW a \in Attempts, Opening(s, a)
        PROVE  Ledger!Submit(s, a) \/ Ledger!Rejudge(s, a)
    <2>1. /\ submission' = [submission EXCEPT ![s] = [status |-> "PENDING", attempt |-> a]]
          /\ attempt' = [attempt EXCEPT ![a] = [sub |-> s, status |-> "PENDING"]]
          /\ attempt[a].status = "NONE"
      BY <1>1 DEF Opening, OpenAttempt, FreshAttempt
    <2>2. /\ [t \in Submissions |-> submission'[t].attempt]
               = [[t \in Submissions |-> submission[t].attempt] EXCEPT ![s] = a]
          /\ [b \in Attempts |-> attempt'[b].status]
               = [[b \in Attempts |-> attempt[b].status] EXCEPT ![a] = "PENDING"]
      BY ZenonT(30), <2>1 DEF TypeInv, TypeOK
    <2>3. CASE submission[s].status = "NONE"
      <3>1. submission[s].attempt = NoAttempt
        BY SMTT(30), <2>3 DEF TablesInv, Links
      <3> QED
        BY <2>1, <2>2, <3>1 DEF Ledger!Submit
    <2>4. CASE submission[s].status # "NONE"
      <3>1. submission[s].attempt \in Attempts
        BY ZenonT(30), <2>4 DEF TablesInv, TablesAgree
      <3>2. attempt[submission[s].attempt].status \in TerminalStatuses
        BY <1>1, <2>4, <3>1, CurrentAttempt DEF Opening, IsTerminal
      <3>3. attempt[submission[s].attempt].status \in Verdicts
        <4> DEFINE c == submission[s].attempt
        <4>1. PICK i \in 1..Len(resultTopic) :
                resultTopic[i] = [attempt |-> c, status |-> attempt[c].status]
          BY <3>1, <3>2 DEF VerdictPublished
        <4>2. resultTopic[i].status = attempt[c].status
          BY <4>1
        <4> QED
          BY <4>2, LogEntries
      <3> QED
        BY <2>1, <2>2, <3>1, <3>3 DEF Ledger!Rejudge
    <2> QED
      BY <2>3, <2>4
  <1>2. ASSUME NEW i \in 1..Len(resultTopic), NEW a \in Attempts, NEW v \in Verdicts,
               NEW s \in Submissions, Judging(i, a, v, s)
        PROVE  Ledger!Judge(a, v)
    <2>1. submission[s].attempt = a /\ submission[s].status \notin TerminalStatuses
      BY <1>2 DEF Judging
    <2>2. attempt[a].status = "PENDING"
      <3>1. attempt[a].status = submission[s].status /\ submission[s].status # "NONE"
        BY <2>1, CurrentAttempt
      <3>2. submission[s].status \in Status
        BY DEF TypeInv, TypeOK
      <3> QED
        BY <2>1, <3>1, <3>2 DEF Status
    <2>3. /\ submission' = [submission EXCEPT ![s] = [status |-> v, attempt |-> a]]
          /\ attempt' = [attempt EXCEPT ![a] = [sub |-> s, status |-> v]]
      BY <1>2 DEF Judging
    <2>4. /\ [t \in Submissions |-> submission'[t].attempt]
               = [t \in Submissions |-> submission[t].attempt]
          /\ [b \in Attempts |-> attempt'[b].status]
               = [[b \in Attempts |-> attempt[b].status] EXCEPT ![a] = v]
      BY ZenonT(30), <2>1, <2>3 DEF TypeInv, TypeOK
    <2> QED
      BY SMTT(30), <2>1, <2>2, <2>4 DEF Ledger!Judge
  <1>3. UNCHANGED dbVars => UNCHANGED Ledger!vars
    BY DEF dbVars, Ledger!vars
  <1>4. Links
    BY DEF TablesInv
  <1>5. ASSUME NEW i \in 1..Len(resultTopic), ApplyJudgeResult(resultTopic[i])
        PROVE  [Ledger!Next]_(Ledger!vars)
    BY <1>2, <1>3, <1>4, <1>5, ApplyEffect DEF Ledger!Next
  <1>6. ASSUME NEW s \in Submissions, NEW a \in Attempts, Opening(s, a)
        PROVE  [Ledger!Next]_(Ledger!vars)
    BY <1>1, <1>6 DEF Ledger!Next
  <1> QED
    BY <1>3, <1>5, <1>6, DatabaseSteps

\* The pipeline implements the ledger for any number of workers and faults.
THEOREM PipelineImplementsLedger == Spec => ImplementsLedger
  <1>1. TypeInv /\ TablesInv /\ VerdictPublished /\ [Next]_vars => [Ledger!Next]_(Ledger!vars)
    BY LedgerStep
  <1> QED
    BY <1>1, LedgerInit, TypeInvariant, TablesInvariant, PublishedInvariant, PTL
       DEF Spec, ImplementsLedger, Ledger!Spec

-----------------------------------------------------------------------------
\* No attempt is lost

InJobTopic(a) == \E i \in 1..Len(jobTopic) : jobTopic[i] = a

Answered(a) == a \in dlt \/ \E i \in 1..Len(resultTopic) : resultTopic[i].attempt = a

Settled(a) == a \in dlt \/ attempt[a].status \in TerminalStatuses

\* A row is PUBLISHED, or about to be, only when its message is in the topic.
OutboxConveyed ==
    /\ \A a \in Attempts : outbox[a].status = "PUBLISHED" => InJobTopic(a)
    /\ sent # NoAttempt => InJobTopic(sent)

\* Every job below the mark has a result or was dead-lettered.  With one
\* goroutine the mark never runs ahead of the message in hand.
JobsAnswered ==
    /\ \A i \in 1..marked : Answered(jobTopic[i])
    /\ \A w \in Workers :
          \/ inHand[w] = 0 /\ tries[w] = 0 /\ marked = fetched
          \/ /\ inHand[w] = fetched /\ inHand[w] > 0
             /\ marked = fetched - 1
             /\ tries[w] = MaxRetries => Answered(jobTopic[inHand[w]])

\* Every result below the mark led to a verdict or was dead-lettered.
ResultsSettled ==
    /\ \A i \in 1..resMarked : Settled(resultTopic[i].attempt)
    /\ resMarked < Len(resultTopic) /\ resTries = MaxRetries =>
          Settled(resultTopic[resMarked + 1].attempt)
    /\ resMarked = Len(resultTopic) => resTries = 0

LossInv == OutboxConveyed /\ JobsAnswered /\ ResultsSettled

OneWorker == \A v, w \in Workers : v = w

\* The dead-letter topic only grows.
LEMMA DLTGrows == ASSUME [Next]_vars PROVE dlt \subseteq dlt'
  <1>1. CASE UNCHANGED dlt
    BY <1>1
  <1>2. CASE ApplyResultFails \/ \E w \in Workers : ProcessJobFails(w)
    BY <1>2 DEF ApplyResultFails, ProcessJobFails, SendToDLT
  <1> QED
    BY ZenonT(30), <1>1, <1>2
       DEF Next, vars, CreateSubmission, RejudgeCheck, RejudgeCommit, RejudgeAbort, RelayPoll,
           RelaySkip, RelaySend, RelaySendFails, RelayMarkPublished, RelayMarkPublishedFails,
           DispatchJob, ProcessJob, MarkJob, CommitJobs, EndJobSession, CrashWorker,
           JobSessionFrom, ApplyResult, MarkResult, CommitResults, EndResultSession,
           CrashSubmissionService

\* What was in a topic, answered or settled stays so.
LEMMA ConveyedStays ==
    ASSUME TypeInv, TablesInv, [Next]_vars, NEW a \in Attempts
    PROVE  /\ InJobTopic(a) => InJobTopic(a)'
           /\ Answered(a) => Answered(a)'
           /\ Settled(a) => Settled(a)'
  <1>1. Links
    BY DEF TablesInv
  <1>2. InJobTopic(a) => InJobTopic(a)'
    <2> SUFFICES ASSUME NEW i \in 1..Len(jobTopic), jobTopic[i] = a
                 PROVE  \E j \in 1..Len(jobTopic') : jobTopic'[j] = a
      BY DEF InJobTopic
    <2>1. i \in 1..Len(jobTopic') /\ jobTopic'[i] = a
      BY <1>1, LogsGrow
    <2> QED
      BY SMTT(30), <2>1
  <1>3. ASSUME NEW i \in 1..Len(resultTopic), resultTopic[i].attempt = a
        PROVE  \E j \in 1..Len(resultTopic') : resultTopic'[j].attempt = a
    <2>1. i \in 1..Len(resultTopic') /\ resultTopic'[i].attempt = a
      BY <1>1, <1>3, LogsGrow
    <2> QED
      BY <2>1
  <1>4. Settled(a) => Settled(a)'
    BY DLTGrows, StableStep DEF Settled
  <1> QED
    BY ZenonT(30), <1>2, <1>3, <1>4, DLTGrows DEF Answered

LEMMA NextOutboxConveyed ==
    ASSUME TypeInv, TypeInv', TablesInv, OutboxConveyed, [Next]_vars
    PROVE  OutboxConveyed'
  <1>1. \A a \in Attempts : InJobTopic(a) => InJobTopic(a)'
    BY ConveyedStays
  <1>2. ASSUME sent' # NoAttempt PROVE InJobTopic(sent)'
    <2>1. CASE sent' = sent
      <3>1. sent \in Attempts /\ InJobTopic(sent)
        BY <1>2, <2>1 DEF OutboxConveyed, TypeInv, TypeOK
      <3>2. \E i \in 1..Len(jobTopic') : jobTopic'[i] = sent
        BY <1>1, <3>1 DEF InJobTopic
      <3> QED
        BY <2>1, <3>2 DEF InJobTopic
    <2>2. ASSUME NEW a \in Attempts, RelaySend(a)
          PROVE  InJobTopic(sent)'
      <3>1. sent' = a /\ jobTopic' = Append(jobTopic, a) /\ jobTopic \in Seq(Attempts)
        BY <2>2 DEF RelaySend, TypeInv, TypeOK
      <3>2. Len(jobTopic) + 1 \in 1..Len(jobTopic') /\ jobTopic'[Len(jobTopic) + 1] = a
        BY <3>1, AppendFacts
      <3> QED
        BY <3>1, <3>2 DEF InJobTopic
    <2>3. sent' = sent \/ \E a \in Attempts : RelaySend(a)
      BY ZenonT(30), <1>2 DEF Next, vars, relayVars, CreateSubmission, RejudgeCheck, RejudgeCommit,
           RejudgeAbort, RelayPoll,
           RelaySkip, RelaySendFails, RelayMarkPublished, RelayMarkPublishedFails,
           DispatchJob, ProcessJob, ProcessJobFails, MarkJob, CommitJobs, EndJobSession,
           CrashWorker, JobSessionFrom, ApplyResult, ApplyResultFails, MarkResult,
           CommitResults, EndResultSession, CrashSubmissionService
    <2> QED
      BY <2>1, <2>2, <2>3
  <1>3. ASSUME NEW a \in Attempts, outbox'[a].status = "PUBLISHED"
        PROVE  InJobTopic(a)
    <2>1. CASE outbox'[a] = outbox[a]
      BY <1>3, <2>1 DEF OutboxConveyed
    <2>2. CASE RelayMarkPublished /\ outbox'[a] # outbox[a]
      <3>1. a = sent /\ sent # NoAttempt
        BY SMTT(30), <2>2 DEF RelayMarkPublished, TypeInv, TypeOK
      <3> QED
        BY SMTT(30), <3>1 DEF OutboxConveyed
    <2>3. ASSUME NEW s \in Submissions, NEW b \in Attempts, OpenAttempt(s, b)
          PROVE  outbox'[a] = outbox[a]
      BY ZenonT(30), <1>3, <2>3 DEF OpenAttempt, TypeInv, TypeOK
    <2>4. ASSUME NEW b \in Attempts, RelaySendFails(b)
          PROVE  outbox'[a] = outbox[a]
      <3>1. \/ outbox' = outbox
            \/ outbox' = [outbox EXCEPT ![b] =
                            [status |-> "PENDING", retries |-> outbox[b].retries + 1]]
        BY <2>4 DEF RelaySendFails
      <3>2. DOMAIN outbox = Attempts
        BY DEF TypeInv, TypeOK
      <3> QED
        BY SMTT(30), <1>3, <3>1, <3>2
    <2>5. ASSUME NEW x \in Admins, NEW b \in Attempts, RejudgeCommit(x, b)
          PROVE  admin[x] \in Submissions /\ OpenAttempt(admin[x], b)
      BY SMTT(30), <2>5 DEF RejudgeCommit, TypeInv, TypeOK
    <2>6. \/ UNCHANGED outbox \/ RelayMarkPublished
          \/ \E s \in Submissions, b \in Attempts : CreateSubmission(s, b)
          \/ \E x \in Admins, b \in Attempts : RejudgeCommit(x, b)
          \/ \E b \in Attempts : RelaySendFails(b)
      BY ZenonT(30) DEF Next, vars, RejudgeCheck, RejudgeAbort, RelayPoll,
           RelaySkip, RelaySend, RelayMarkPublishedFails,
           DispatchJob, ProcessJob, ProcessJobFails, MarkJob, CommitJobs, EndJobSession,
           CrashWorker, JobSessionFrom, ApplyResult, ApplyResultFails, MarkResult,
           CommitResults, EndResultSession, CrashSubmissionService
    <2>7. ASSUME NEW s \in Submissions, NEW b \in Attempts, CreateSubmission(s, b)
          PROVE  OpenAttempt(s, b)
      BY ZenonT(30), <2>7 DEF CreateSubmission
    <2> QED
      BY <2>1, <2>2, <2>3, <2>4, <2>5, <2>6, <2>7
  <1> QED
    BY <1>1, <1>2, <1>3 DEF OutboxConveyed

\* With one goroutine and a dead-letter topic that accepts what it is sent,
\* a mark only ever covers answered jobs.
LEMMA NextJobsAnswered ==
    ASSUME OneWorker, DLTReliable,
           TypeInv, TypeInv', TablesInv, JobsAnswered, [Next]_vars
    PROVE  JobsAnswered'
  <1>0. Links
    BY DEF TablesInv
  <1>1. \A i \in 1..Len(jobTopic) : jobTopic'[i] = jobTopic[i] /\ jobTopic[i] \in Attempts
    BY <1>0, LogsGrow, LogEntries
  <1>2. \A a \in Attempts : Answered(a) => Answered(a)'
    BY ConveyedStays
  <1>3. /\ marked \in Nat /\ committed \in Nat /\ fetched \in Nat /\ Len(jobTopic) \in Nat
        /\ committed <= marked /\ marked <= fetched /\ fetched <= Len(jobTopic)
        /\ inHand \in [Workers -> Nat] /\ tries \in [Workers -> 0..MaxRetries]
    BY ZenonT(30), <1>0, LogsGrow DEF TypeInv, TypeOK, Offsets
  <1>4. \A i \in 1..marked : Answered(jobTopic[i])'
    <2>1. ASSUME NEW i \in 1..marked PROVE Answered(jobTopic[i])'
      <3>1. i \in 1..Len(jobTopic) /\ Answered(jobTopic[i])
        BY <1>3 DEF JobsAnswered
      <3>2. jobTopic'[i] = jobTopic[i] /\ jobTopic[i] \in Attempts
        BY ZenonT(30), <1>1, <3>1
      <3>3. \/ jobTopic[i] \in dlt'
            \/ \E j \in 1..Len(resultTopic') : resultTopic'[j].attempt = jobTopic[i]
        BY <1>2, <3>1, <3>2 DEF Answered
      <3> QED
        BY <3>2, <3>3 DEF Answered
    <2> QED
      BY <2>1
  <1>5. ASSUME NEW w \in Workers, inHand[w] > 0, Answered(jobTopic[inHand[w]])
        PROVE  Answered(jobTopic[inHand[w]])' \/ inHand'[w] # inHand[w]
    <2> SUFFICES ASSUME inHand'[w] = inHand[w] PROVE Answered(jobTopic[inHand[w]])'
      OBVIOUS
    <2>1. inHand[w] \in 1..Len(jobTopic)
      BY <1>3, <1>5 DEF TypeInv, Offsets
    <2>2. jobTopic'[inHand[w]] = jobTopic[inHand[w]] /\ jobTopic[inHand[w]] \in Attempts
      BY <1>1, <2>1
    <2>3. \/ jobTopic[inHand[w]] \in dlt'
          \/ \E j \in 1..Len(resultTopic') : resultTopic'[j].attempt = jobTopic[inHand[w]]
      BY SMTT(30), <1>2, <1>5, <2>2 DEF Answered
    <2> QED
      BY <2>2, <2>3 DEF Answered
  <1>6. CASE UNCHANGED <<fetched, marked, inHand, tries>>
    <2>1. ASSUME NEW w \in Workers
          PROVE  \/ inHand'[w] = 0 /\ tries'[w] = 0 /\ marked' = fetched'
                 \/ /\ inHand'[w] = fetched' /\ inHand'[w] > 0
                    /\ marked' = fetched' - 1
                    /\ tries'[w] = MaxRetries => Answered(jobTopic[inHand[w]])'
      BY SMTT(30), <1>5, <1>6 DEF JobsAnswered
    <2> QED
      BY SMTT(30), <1>4, <1>6, <2>1 DEF JobsAnswered
  <1>7. ASSUME NEW w \in Workers, DispatchJob(w)
        PROVE  JobsAnswered'
    <2>1. \A v \in Workers : v = w
      BY DEF OneWorker
    <2>2. /\ inHand[w] = 0 /\ tries[w] = 0 /\ marked = fetched
          /\ inHand' = [inHand EXCEPT ![w] = fetched + 1]
          /\ fetched' = fetched + 1 /\ marked' = marked /\ tries' = tries
      BY <1>7 DEF DispatchJob, JobsAnswered
    <2>3. inHand'[w] = fetched' /\ inHand'[w] > 0 /\ marked' = fetched' - 1 /\ tries'[w] # MaxRetries
      BY SMTT(30), <1>3, <2>2, PipelineAssumption
    <2> QED
      BY <1>4, <2>1, <2>2, <2>3 DEF JobsAnswered
  <1>8. ASSUME NEW w \in Workers, \/ \E v \in Verdicts : ProcessJob(w, v)
                                  \/ ProcessJobFails(w)
        PROVE  JobsAnswered'
    <2>1. \A v \in Workers : v = w
      BY DEF OneWorker
    <2>2. /\ inHand[w] > 0 /\ tries[w] < MaxRetries
          /\ UNCHANGED <<fetched, marked, inHand, jobTopic>>
      BY ZenonT(30), <1>8 DEF ProcessJob, ProcessJobFails, Trying
    <2>3. inHand[w] = fetched /\ marked = fetched - 1
      BY SMTT(30), <2>2 DEF JobsAnswered
    <2>4. JobOf(w) \in Attempts
      BY SMTT(30), <2>2, InHandTypes
    <2>5. ASSUME NEW v \in Verdicts, ProcessJob(w, v)
          PROVE  Answered(jobTopic[inHand[w]])'
      <3>1. resultTopic' = Append(resultTopic, [attempt |-> JobOf(w), status |-> v])
        BY <2>5 DEF ProcessJob
      <3>2. resultTopic \in Seq(ResultMessage)
            /\ [attempt |-> JobOf(w), status |-> v] \in ResultMessage
        BY SMTT(30), <2>4 DEF TypeInv, TypeOK, ResultMessage
      <3>3. /\ Len(resultTopic) + 1 \in 1..Len(resultTopic')
            /\ resultTopic'[Len(resultTopic) + 1] = [attempt |-> JobOf(w), status |-> v]
        BY <3>1, <3>2, AppendFacts
      <3>4. resultTopic'[Len(resultTopic) + 1].attempt = JobOf(w)
        BY <3>3
      <3>5. jobTopic'[inHand'[w]] = JobOf(w)
        BY <2>2 DEF JobOf
      <3> QED
        BY <3>3, <3>4, <3>5 DEF Answered
    <2>6. ASSUME ProcessJobFails(w), tries'[w] = MaxRetries
          PROVE  Answered(jobTopic[inHand[w]])'
      <3>1. tries'[w] = tries[w] + 1
        BY <1>3, <2>6 DEF ProcessJobFails
      <3>2. SendToDLT(JobOf(w))
        BY <2>6, <3>1 DEF ProcessJobFails
      <3>3. JobOf(w) \in dlt'
        BY <3>2 DEF SendToDLT
      <3>4. jobTopic'[inHand'[w]] = JobOf(w)
        BY <2>2 DEF JobOf
      <3> QED
        BY <3>3, <3>4 DEF Answered
    <2>7. tries'[w] = MaxRetries => Answered(jobTopic[inHand[w]])'
      BY SMTT(30), <1>8, <2>5, <2>6
    <2>8. inHand'[w] = fetched' /\ inHand'[w] > 0 /\ marked' = fetched' - 1
      BY <2>2, <2>3
    <2>9. \A i \in 1..marked' : Answered(jobTopic[i])'
      BY <1>4, <2>2
    <2> QED
      BY ZenonT(30), <2>1, <2>7, <2>8, <2>9 DEF JobsAnswered
  <1>9. ASSUME NEW w \in Workers, MarkJob(w)
        PROVE  JobsAnswered'
    <2>1. \A v \in Workers : v = w
      BY DEF OneWorker
    <2>2. /\ inHand[w] > 0 /\ tries[w] = MaxRetries
          /\ inHand' = [inHand EXCEPT ![w] = 0] /\ tries' = [tries EXCEPT ![w] = 0]
          /\ fetched' = fetched
          /\ marked' = Later(marked, inHand[w])
          /\ UNCHANGED <<jobTopic, resultTopic, dlt>>
      BY <1>9 DEF MarkJob
    <2>3. inHand[w] = fetched /\ marked = fetched - 1 /\ Answered(jobTopic[inHand[w]])
      BY <2>2 DEF JobsAnswered
    <2>4. marked' = fetched /\ marked' = marked + 1
      BY <1>3, <2>2, <2>3 DEF Later
    <2>5. inHand'[w] = 0 /\ tries'[w] = 0
      BY <1>3, <2>2
    <2>6. ASSUME NEW i \in 1..marked' PROVE Answered(jobTopic[i])'
      <3>1. Answered(jobTopic[i])
        <4>1. CASE i \in 1..marked
          BY <4>1 DEF JobsAnswered
        <4>2. CASE i = inHand[w]
          BY <2>3, <4>2
        <4> QED
          BY <1>3, <2>3, <2>4, <4>1, <4>2
      <3> QED
        BY <2>2, <3>1 DEF Answered
    <2> QED
      BY <2>1, <2>2, <2>4, <2>5, <2>6 DEF JobsAnswered
  <1>10. ASSUME NEW c \in Nat, c <= marked, JobSessionFrom(c)
         PROVE  JobsAnswered'
    <2>1. /\ fetched' = c /\ marked' = c
          /\ inHand' = [w \in Workers |-> 0] /\ tries' = [w \in Workers |-> 0]
      BY <1>10 DEF JobSessionFrom
    <2>2. \A i \in 1..marked' : Answered(jobTopic[i])'
      BY <1>3, <1>4, <1>10, <2>1
    <2> QED
      BY <2>1, <2>2 DEF JobsAnswered
  <1>11. CASE EndJobSession \/ CrashWorker
    BY <1>3, <1>10, <1>11 DEF EndJobSession, CrashWorker
  <1>12. \/ UNCHANGED <<fetched, marked, inHand, tries>>
         \/ EndJobSession \/ CrashWorker
         \/ \E w \in Workers : \/ DispatchJob(w) \/ MarkJob(w)
                               \/ (\E v \in Verdicts : ProcessJob(w, v)) \/ ProcessJobFails(w)
    BY ZenonT(30) DEF Next, vars, jobConsumer, CreateSubmission, RejudgeCheck, RejudgeCommit, RejudgeAbort,
           RelayPoll, RelaySkip, RelaySend, RelaySendFails, RelayMarkPublished,
           RelayMarkPublishedFails, CommitJobs, ApplyResult, ApplyResultFails, MarkResult,
           CommitResults, EndResultSession, CrashSubmissionService
  <1> QED
    BY <1>6, <1>7, <1>8, <1>9, <1>11, <1>12

\* The attempt of an applied result has its verdict, whether this result or
\* an earlier one gave it.
LEMMA ApplySettles ==
    ASSUME TypeInv, TablesInv, NEW i \in 1..Len(resultTopic),
           ApplyJudgeResult(resultTopic[i])
    PROVE  attempt'[resultTopic[i].attempt].status \in TerminalStatuses
  <1> DEFINE a == resultTopic[i].attempt
             s == attempt[a].sub
  <1>1. a \in Attempts /\ Known(a) /\ s \in Submissions
    BY SMTT(30), LogEntries DEF TablesInv, Links
  <1>2. attempt[a].status \in Status
    BY <1>1 DEF TypeInv, TypeOK
  <1>3. CASE ~UNCHANGED dbVars
    <2>1. PICK b \in Attempts, v \in Verdicts, t \in Submissions : Judging(i, b, v, t)
      BY <1>3, ApplyEffect DEF TablesInv
    <2>2. a = b /\ attempt' = [attempt EXCEPT ![b] = [sub |-> t, status |-> v]]
      BY <2>1 DEF Judging
    <2>3. attempt'[a].status = v
      BY SMTT(30), <2>2 DEF TypeInv, TypeOK
    <2> QED
      BY <2>3, PipelineAssumption
  <1>4. CASE UNCHANGED dbVars
    <2>1. CASE submission[s].attempt # a
      <3>1. attempt[a].status # "PENDING"
        BY ZenonT(30), <1>1, <2>1 DEF TablesInv, TablesAgree
      <3> QED
        BY SMTT(30), <1>1, <1>2, <1>4, <3>1 DEF Known, Status, dbVars
    <2>2. CASE submission[s].attempt = a
      <3>a. submission[s].attempt \in Attempts
        BY ZenonT(30), <1>1, <2>2
      <3>b. attempt[submission[s].attempt].status = submission[s].status
        BY ZenonT(30), <1>1, <3>a, CurrentAttempt
      <3>1. attempt[a].status = submission[s].status
        BY ZenonT(30), <2>2, <3>b
      <3>2. CASE IsTerminal(s)
        BY <1>4, <3>1, <3>2 DEF IsTerminal, dbVars
      <3>3. CASE ~IsTerminal(s)
        <4>1. attempt' = [attempt EXCEPT ![a] = [sub |-> s, status |-> resultTopic[i].status]]
          BY SMTT(30), <2>2, <3>3 DEF ApplyJudgeResult
        <4>2. attempt'[a].status = resultTopic[i].status
          BY <1>1, <4>1 DEF TypeInv, TypeOK
        <4> QED
          BY SMTT(30), <4>2, LogEntries, PipelineAssumption
      <3> QED
        BY ZenonT(30), <3>2, <3>3
    <2> QED
      BY SMTT(30), <2>1, <2>2
  <1> QED
    BY SMTT(30), <1>3, <1>4

\* The result consumer's mark only ever covers settled results.
LEMMA NextResultsSettled ==
    ASSUME DLTReliable, TypeInv, TypeInv', TablesInv, ResultsSettled, [Next]_vars
    PROVE  ResultsSettled'
  <1>0. Links
    BY DEF TablesInv
  <1>1. /\ \A i \in 1..Len(resultTopic) : resultTopic'[i] = resultTopic[i]
        /\ Len(resultTopic) \in Nat /\ Len(resultTopic') \in Nat
        /\ Len(resultTopic) <= Len(resultTopic')
    BY <1>0, LogsGrow
  <1>2. /\ resMarked \in Nat /\ resCommitted \in Nat /\ resTries \in 0..MaxRetries
        /\ resCommitted <= resMarked /\ resMarked <= Len(resultTopic)
        /\ MaxRetries \in Nat /\ MaxRetries > 0
    BY SMTT(30), PipelineAssumption DEF TypeInv, TypeOK, Offsets
  <1>3. ASSUME NEW i \in 1..Len(resultTopic), Settled(resultTopic[i].attempt)
        PROVE  Settled(resultTopic[i].attempt)'
    <2>1. resultTopic[i].attempt \in Attempts /\ resultTopic'[i] = resultTopic[i]
      BY SMTT(30), <1>1, LogEntries
    <2>2. \/ resultTopic[i].attempt \in dlt'
          \/ attempt'[resultTopic[i].attempt].status \in TerminalStatuses
      BY SMTT(30), <1>3, <2>1, ConveyedStays DEF Settled
    <2> QED
      BY <2>1, <2>2 DEF Settled
  <1>4. \A i \in 1..resMarked : Settled(resultTopic[i].attempt)'
    BY <1>2, <1>3 DEF ResultsSettled
  <1>5. CASE UNCHANGED <<resMarked, resTries>>
    <2>1. ASSUME resMarked < Len(resultTopic'), resTries = MaxRetries
          PROVE  Settled(resultTopic[resMarked + 1].attempt)'
      <3>1. resMarked < Len(resultTopic)
        BY <1>2, <2>1 DEF ResultsSettled
      <3>2. resMarked + 1 \in 1..Len(resultTopic)
        BY <1>1, <1>2, <3>1
      <3>3. Settled(resultTopic[resMarked + 1].attempt)
        BY <2>1, <3>1 DEF ResultsSettled
      <3>4. \A i \in 1..Len(resultTopic) :
              Settled(resultTopic[i].attempt) => Settled(resultTopic[i].attempt)'
        BY <1>3
      <3> QED
        BY <1>5, <3>2, <3>3, <3>4
    <2>2. resMarked = Len(resultTopic') => resTries = 0
      BY <1>1, <1>2 DEF ResultsSettled
    <2> QED
      BY <1>4, <1>5, <2>1, <2>2 DEF ResultsSettled
  <1>6. CASE ApplyResult \/ ApplyResultFails
    <2>1. /\ resMarked < Len(resultTopic) /\ resTries < MaxRetries
          /\ UNCHANGED <<resultTopic, resMarked>>
      BY <1>6 DEF ApplyResult, ApplyResultFails, TryingResult
    <2>2. resMarked + 1 \in 1..Len(resultTopic)
      BY <1>1, <1>2, <2>1
    <2>3. ASSUME resTries' = MaxRetries
          PROVE  Settled(resultTopic[resMarked + 1].attempt)'
      <3>1. CASE ApplyResult
        <4>1. ApplyJudgeResult(resultTopic[resMarked + 1])
          BY <3>1 DEF ApplyResult, NextResult
        <4>2. attempt'[resultTopic[resMarked + 1].attempt].status \in TerminalStatuses
          BY <2>2, <4>1, ApplySettles
        <4> QED
          BY <2>1, <4>2 DEF Settled
      <3>2. CASE ApplyResultFails
        <4>1. SendToDLT(resultTopic[resMarked + 1].attempt)
          BY <2>3, <3>2 DEF ApplyResultFails, NextResult
        <4> QED
          BY <2>1, <4>1 DEF SendToDLT, Settled
      <3> QED
        BY <1>6, <3>1, <3>2
    <2> QED
      BY <1>1, <1>2, <1>4, <2>1, <2>3 DEF ResultsSettled
  <1>7. CASE MarkResult
    <2>1. /\ resMarked < Len(resultTopic) /\ resTries = MaxRetries
          /\ resMarked' = resMarked + 1 /\ resTries' = 0
      BY <1>7 DEF MarkResult
    <2>2. resMarked + 1 \in 1..Len(resultTopic) /\ Settled(resultTopic[resMarked + 1].attempt)
      BY <1>1, <1>2, <2>1 DEF ResultsSettled
    <2>3. \A i \in 1..Len(resultTopic) :
            Settled(resultTopic[i].attempt) => Settled(resultTopic[i].attempt)'
      BY <1>3
    <2>4. \A i \in 1..resMarked' : Settled(resultTopic[i].attempt)'
      BY <1>2, <1>4, <2>1, <2>2, <2>3
    <2> QED
      BY <1>2, <2>1, <2>4 DEF ResultsSettled
  <1>8. ASSUME NEW c \in Nat, c <= resMarked, ResultSessionFrom(c)
        PROVE  ResultsSettled'
    <2>1. resMarked' = c /\ resTries' = 0
      BY <1>8 DEF ResultSessionFrom
    <2>2. \A i \in 1..resMarked' : Settled(resultTopic[i].attempt)'
      BY <1>2, <1>4, <1>8, <2>1
    <2> QED
      BY <1>2, <2>1, <2>2 DEF ResultsSettled
  <1>9. CASE EndResultSession \/ CrashSubmissionService
    BY <1>2, <1>8, <1>9 DEF EndResultSession, CrashSubmissionService
  <1>10. \/ UNCHANGED <<resMarked, resTries>>
         \/ ApplyResult \/ ApplyResultFails \/ MarkResult
         \/ EndResultSession \/ CrashSubmissionService
    BY ZenonT(30) DEF Next, vars, resultConsumer, CreateSubmission, RejudgeCheck, RejudgeCommit,
           RejudgeAbort, RelayPoll, RelaySkip, RelaySend, RelaySendFails, RelayMarkPublished,
           RelayMarkPublishedFails, DispatchJob, ProcessJob, ProcessJobFails, MarkJob,
           CommitJobs, EndJobSession, CrashWorker, JobSessionFrom, CommitResults
  <1> QED
    BY <1>5, <1>6, <1>7, <1>9, <1>10

\* An attempt without a verdict is in the outbox, or has a message that no
\* consumer has committed, or was dead-lettered.
LEMMA LossInvSuffices ==
    TypeInv /\ TablesInv /\ LossInv => NoAttemptLost
  <1> SUFFICES ASSUME TypeInv, TablesInv, LossInv, NEW a \in Attempts,
                      attempt[a].status = "PENDING",
                      outbox[a].status # "PENDING", a \notin dlt
               PROVE  Recoverable(a)
    BY DEF NoAttemptLost, Recoverable
  <1>1. outbox[a].status = "PUBLISHED"
    BY ZenonT(30) DEF TablesInv, Links, Known, TypeInv, TypeOK
  <1>2. PICK i \in 1..Len(jobTopic) : jobTopic[i] = a
    BY <1>1 DEF LossInv, OutboxConveyed, InJobTopic
  <1>3. /\ marked \in Nat /\ committed \in Nat /\ committed <= marked
        /\ resMarked \in Nat /\ resCommitted \in Nat /\ resCommitted <= resMarked
        /\ Len(jobTopic) \in Nat /\ Len(resultTopic) \in Nat
    BY LenProperties DEF TypeInv, TypeOK, Offsets
  <1>4. CASE i > committed
    <2>1. i \in (committed + 1)..Len(jobTopic)
      BY <1>3, <1>4
    <2> QED
      BY <1>2, <2>1 DEF Recoverable
  <1>5. CASE i <= committed
    <2>1. Answered(a)
      BY <1>2, <1>3, <1>5 DEF LossInv, JobsAnswered
    <2>2. PICK j \in 1..Len(resultTopic) : resultTopic[j].attempt = a
      BY <2>1 DEF Answered
    <2>3. j > resCommitted
      <3>1. ASSUME j \in 1..resMarked PROVE FALSE
        BY <2>2, <3>1 DEF LossInv, ResultsSettled, Settled, TerminalStatuses
      <3> QED
        BY <1>3, <3>1
    <2>4. j \in (resCommitted + 1)..Len(resultTopic)
      BY <1>3, <2>3
    <2> QED
      BY <2>2, <2>4 DEF Recoverable
  <1> QED
    BY <1>3, <1>4, <1>5

\* With one dispatch goroutine per claim and a dead-letter topic that accepts
\* what it is sent, no failure, crash, rebalance, duplicate or rejudge makes
\* the pipeline lose an attempt.
THEOREM NothingLost ==
    ASSUME OneWorker, DLTReliable
    PROVE  Spec => []NoAttemptLost
  <1>1. Init => LossInv
    <2> SUFFICES ASSUME Init PROVE LossInv
      OBVIOUS
    <2>1. OutboxConveyed
      BY DEF Init, OutboxConveyed
    <2>2. JobsAnswered
      <3>1. marked = 0 /\ fetched = 0 /\ \A w \in Workers : inHand[w] = 0 /\ tries[w] = 0
        BY DEF Init
      <3> QED
        BY <3>1 DEF JobsAnswered
    <2>3. ResultsSettled
      <3>1. resMarked = 0 /\ Len(resultTopic) = 0 /\ resTries = 0
        BY EmptySeq DEF Init
      <3>2. \A i \in 1..resMarked : Settled(resultTopic[i].attempt)
        BY <3>1
      <3>3. resMarked < Len(resultTopic) /\ resTries = MaxRetries =>
               Settled(resultTopic[resMarked + 1].attempt)
        BY <3>1
      <3> QED
        BY <3>1, <3>2, <3>3 DEF ResultsSettled
    <2> QED
      BY <2>1, <2>2, <2>3 DEF LossInv
  <1>2. TypeInv /\ TypeInv' /\ TablesInv /\ LossInv /\ [Next]_vars => LossInv'
    BY NextOutboxConveyed, NextJobsAnswered, NextResultsSettled DEF LossInv
  <1>3. Spec => []LossInv
    BY <1>1, <1>2, TypeInvariant, TablesInvariant, PTL DEF Spec
  <1> QED
    BY <1>3, TypeInvariant, TablesInvariant, LossInvSuffices, PTL

=============================================================================
