------------------------------ MODULE Execution -----------------------------
(***************************************************************************)
(* One execution by the judge worker, of a submission against the official *)
(* testcases or of a user's own run: compilation, batches of testcases in  *)
(* the sandbox, the verdict, and its way as a message into the tables of   *)
(* the submission service; a run's way back is the answer to its user.     *)
(*                                                                         *)
(* What a program does is a function of its testcases, chosen initially.   *)
(* What it writes to stderr is a sequence of kinds of lines: "header" of a *)
(* trace, "frame" that names a line of the source, or "text".              *)
(* Which inputs are sandbox files is up to TestcaseCache: any of them.  No *)
(* other execution uses the same files.                                    *)
(***************************************************************************)
EXTENDS Integers, Sequences, SequencesExt, FiniteSets, FiniteSetsExt

CONSTANTS
    TestCount,                \* testcases
    RawResults,               \* what the sandbox may report of a testcase
    Sizes,                    \* sizes of the inputs
    Wants,                    \* sizes of the expected outputs, 0 for none
    OutputLimit, Headroom,    \* bytes a program may print, at least and beyond
    ProblemLimits,            \* time limits of problems, 0 for none
    DefaultTime,              \* milliseconds
    CompilerOutput,           \* its lines
    Texts, MaxErrorBytes,     \* messages of programs, bytes kept of one
    OfficialBatch, RunBatch,  \* testcases per batch
    Budget,                   \* input bytes that a request may carry
    MaxFaults, MaxRestarts    \* failed calls, restarts of the sandbox

ASSUME ExecutionAssumption ==
    /\ {TestCount, OfficialBatch, RunBatch} \subseteq Nat \ {0}
    /\ {Budget, OutputLimit, Headroom, DefaultTime, MaxErrorBytes} \subseteq Nat
    /\ {MaxFaults, MaxRestarts} \subseteq Nat
    /\ Sizes \cup Wants \subseteq [1..TestCount -> Nat] /\ ProblemLimits \subseteq Nat
    /\ \A r \in RawResults :
          /\ DOMAIN r = {"status", "exit", "equal", "extra", "time", "stderr"}
          /\ r.extra <= Headroom

VARIABLES
    official,         \* a submission, or a user's run
    program,          \* "interpreted", "compiled", or "broken": does not compile
    cases,            \* testcases: what the program does, size, output, path or not
    limit,            \* time limit of the request, 0 for none
    pc,
    exe,              \* sandbox file of the executable, 0 for none
    start,            \* testcases done
    request,          \* inputs of the batch: "memory", "cached" or "local"
    settled,          \* the batch is not rebuilt again
    results, status, error,  \* ExecutionResult
    files,            \* executables in the sandbox
    stale,            \* testcases that the cache holds and the sandbox lost
    orphan,           \* the executable was lost with them
    blind,            \* whether inputs were lost could not be found out
    message, stored,  \* result message, and what the tables hold
    answer,           \* to the user of a run
    faults, restarts

job == <<official, program, cases, limit>>
batch == <<start, request, settled>>
result == <<results, status, error>>
sandbox == <<files, stale, orphan, blind>>
out == <<message, stored, answer>>
bounds == <<faults, restarts>>
vars == <<job, pc, exe, batch, result, sandbox, out, bounds>>

NoError == [kind |-> "none", of |-> 0, line |-> 0, text |-> <<>>]

None == [status |-> "none", results |-> <<>>, error |-> NoError]

Reply(s) == [status |-> s, tests |-> <<>>, diagnostics |-> <<>>]

Init ==
    /\ official \in BOOLEAN
    /\ program \in {"interpreted", "compiled", "broken"}
    /\ \E raw \in [1..TestCount -> RawResults], size \in Sizes, want \in Wants,
          path \in BOOLEAN :
          /\ IF official THEN \A i \in 1..TestCount : want[i] > 0 ELSE ~path
          /\ cases = [i \in 1..TestCount |->
                [raw |-> raw[i], size |-> size[i], want |-> want[i], path |-> path]]
    /\ limit = 0
    /\ pc = IF official THEN "compile" ELSE "request"
    /\ exe = 0
    /\ start = 0 /\ request = <<>> /\ settled = FALSE
    /\ results = <<>> /\ status = "ACCEPTED" /\ error = NoError
    /\ files = {} /\ stale = {} /\ orphan = FALSE /\ blind = FALSE
    /\ message = None /\ stored = None /\ answer = Reply("none")
    /\ faults = 0 /\ restarts = 0

Fault == faults < MaxFaults /\ faults' = faults + 1 /\ UNCHANGED restarts

\* The user's request is over; so is, for every call, the worker's context.
Expired == answer.status = "timeout"

CallFails == Fault \/ (Expired /\ UNCHANGED bounds)

-----------------------------------------------------------------------------
\* A user's request to run code

\* problemTimeLimitMS: seconds, or from 50 on milliseconds.
ProblemTimeLimitMS(value) ==
    IF value <= 0 THEN DefaultTime ELSE IF value >= 50 THEN value ELSE value * 1000

\* Of a testcase of kind "sample" the output must be expected; a problem that
\* the user may not see, or does not exist, ends the request as well.
RunCode ==
    /\ pc = "request"
    /\ \/ \E kind \in [1..TestCount -> {"sample", "custom"}], value \in ProblemLimits :
             /\ \A i \in 1..TestCount : kind[i] = "sample" => cases[i].want > 0
             /\ limit' = ProblemTimeLimitMS(value)
             /\ pc' = "compile"
             /\ UNCHANGED answer
       \/ answer' = Reply("refused") /\ pc' = "done" /\ UNCHANGED limit
    /\ UNCHANGED <<official, program, cases, exe, batch, result, sandbox, message, stored,
                   bounds>>

\* RequestTimeout of the caller passes, or the user goes away.
RequestTimeout ==
    /\ pc \in {"compile", "build", "run", "cleanup", "failed", "respond"}
    /\ ~official /\ ~Expired
    /\ answer' = Reply("timeout")
    /\ UNCHANGED <<job, pc, exe, batch, result, sandbox, message, stored, bounds>>

-----------------------------------------------------------------------------
\* Verdict of a testcase

\* mapJudgeStatus.
MapJudgeStatus(raw) ==
    CASE raw.status = "Accepted" -> IF raw.exit # 0 THEN "RUNTIME_ERROR" ELSE "ACCEPTED"
      [] raw.status = "MemoryLimitExceeded" -> "MEMORY_LIMIT_EXCEEDED"
      [] raw.status = "TimeLimitExceeded" -> "TIME_LIMIT_EXCEEDED"
      [] raw.status = "OutputLimitExceeded" -> "OUTPUT_LIMIT_EXCEEDED"
      [] raw.status \in {"FileError", "NonZeroExitStatus", "Signalled"} -> "RUNTIME_ERROR"
      [] OTHER -> "SYSTEM_ERROR"

\* normalizeLimits: a submission sends none.
TimeLimitMS == IF limit <= 0 THEN DefaultTime ELSE limit

\* ensureOutputLimitForExpected: one limit, by the longest expected output.
OutputLimitBytes ==
    Max({OutputLimit} \cup
        {cases[i].want + Headroom : i \in {j \in 1..TestCount : cases[j].want > 0}})

\* What the sandbox makes of testcase i under the two limits.
Observed(i) ==
    LET c == cases[i]
    IN  IF c.raw.time > TimeLimitMS THEN [c.raw EXCEPT !.status = "TimeLimitExceeded"]
        ELSE IF c.raw.equal /\ c.want + c.raw.extra > OutputLimitBytes
          THEN [c.raw EXCEPT !.status = "OutputLimitExceeded"]
        ELSE c.raw

\* mapTestCaseResult: an accepted run still has to have the expected output.
MapTestCaseResult(i, raw) ==
    LET s == MapJudgeStatus(raw)
    IN  IF s = "ACCEPTED" /\ cases[i].want > 0 /\ ~raw.equal THEN "WRONG_ANSWER" ELSE s

FileError ==
    [status |-> "FileError", exit |-> 0, equal |-> FALSE, extra |-> 0, time |-> 0,
     stderr |-> <<>>]

\* runtimeHeadline: the first line that is not of a trace, 0 for all of them.
RuntimeHeadline(stderr) ==
    LET text == {k \in DOMAIN stderr : stderr[k] = "text"}
    IN  IF text = {} THEN 0 ELSE Min(text)

\* parseRuntimeDiagnostics: where the first frame of the source is, or 0.
ParseRuntimeDiagnostics(stderr) ==
    LET frames == {k \in DOMAIN stderr : stderr[k] = "frame"}
    IN  IF frames = {} THEN 0 ELSE Min(frames)

\* errorMessageForTestCase; the text of a program's message is told apart when
\* it is published.
ErrorMessageForTestCase(i, s, raw) ==
    CASE s = "RUNTIME_ERROR" /\ raw.stderr # <<>> ->
           [NoError EXCEPT !.kind = "program", !.of = i,
                           !.line = RuntimeHeadline(raw.stderr)]
      [] s \in {"TIME_LIMIT_EXCEEDED", "MEMORY_LIMIT_EXCEEDED", "SYSTEM_ERROR"} ->
           [NoError EXCEPT !.kind = s]
      [] OTHER -> NoError

-----------------------------------------------------------------------------
\* newRunBatchRequest

BatchSize == IF official THEN OfficialBatch ELSE RunBatch

BatchEnd == IF start + BatchSize > TestCount THEN TestCount ELSE start + BatchSize

\* Mutant of AddInput: inputs are held against the budget one by one.
AddInputAlone(r, i, cached) ==
    LET c == cases[i]
    IN  IF ~r.ok \/ (c.size > Budget /\ ~c.path) THEN [r EXCEPT !.ok = FALSE]
        ELSE IF c.size > Budget THEN [r EXCEPT !.inputs = Append(@, "local")]
        ELSE IF i \in cached THEN [r EXCEPT !.inputs = Append(@, "cached")]
        ELSE [r EXCEPT !.inputs = Append(@, "memory"), !.memory = @ + c.size]

\* How the input of testcase i goes into the request r.
AddInput(r, i, cached) ==
    LET c == cases[i]
        fits == r.memory + c.size <= Budget
    IN  IF ~r.ok \/ (c.size > Budget /\ ~c.path) THEN [r EXCEPT !.ok = FALSE]
        ELSE IF c.size > Budget THEN [r EXCEPT !.inputs = Append(@, "local")]
        ELSE IF i \in cached THEN [r EXCEPT !.inputs = Append(@, "cached")]
        ELSE IF fits THEN [r EXCEPT !.inputs = Append(@, "memory"), !.memory = @ + c.size]
        ELSE IF c.path THEN [r EXCEPT !.inputs = Append(@, "local")]
        ELSE [r EXCEPT !.ok = FALSE]

NewRequest(cached) ==
    FoldLeft(LAMBDA r, i : AddInput(r, i, cached),
             [ok |-> TRUE, inputs |-> <<>>, memory |-> 0],
             [k \in 1..(BatchEnd - start) |-> start + k])

\* Only official testcases are cached.  What the cache holds it uses, stale or
\* not; what it does not hold it adds, or not for want of room.  An input that
\* finds no room cannot be retried: a submission gets a system error, a user's
\* run fails.
NewRunBatchRequest ==
    /\ pc = "build"
    /\ \E added \in SUBSET (IF official THEN start + 1 .. BatchEnd ELSE {}) :
          LET r == NewRequest(stale \cup added)
          IN  IF r.ok
                THEN request' = r.inputs /\ pc' = "run" /\ UNCHANGED result
                ELSE /\ results' = <<>> /\ status' = "SYSTEM_ERROR"
                     /\ error' = [NoError EXCEPT !.kind = "SYSTEM_ERROR"]
                     /\ pc' = (IF official THEN "cleanup" ELSE "failed")
                     /\ UNCHANGED request
    /\ UNCHANGED <<job, exe, start, settled, sandbox, out, bounds>>

-----------------------------------------------------------------------------
\* Execute

Compile ==
    /\ pc = "compile"
    /\ CASE program = "interpreted" -> pc' = "build" /\ UNCHANGED <<exe, files, status>>
         [] program = "broken" ->
              pc' = "cleanup" /\ status' = "COMPILATION_ERROR" /\ UNCHANGED <<exe, files>>
         [] program = "compiled" ->
              /\ exe' = faults + 1
              /\ files' = files \cup {exe'}
              /\ pc' = "build"
              /\ UNCHANGED status
    /\ UNCHANGED <<job, batch, results, error, stale, orphan, blind, out, bounds>>

Cached == {start + k : k \in {i \in DOMAIN request : request[i] = "cached"}}

Missing == Cached \cap stale

\* What the sandbox answers for the k-th command of the batch.
Answer(k) == IF orphan \/ start + k \in Missing THEN FileError ELSE Observed(start + k)

\* Mutant of Collect: a later failure replaces the verdict.
CollectLast(r, raw) ==
    LET i == Len(r.results) + 1
        s == MapTestCaseResult(i, raw)
        tc == [status |-> s, frame |-> ParseRuntimeDiagnostics(raw.stderr)]
        failed == s # "ACCEPTED"
    IN  [results |-> Append(r.results, tc),
         status |-> IF failed THEN s ELSE r.status,
         error |-> IF failed THEN ErrorMessageForTestCase(i, s, raw) ELSE r.error]

\* The first failure is the verdict; a submission has no results after it.
Collect(r, raw) ==
    LET i == Len(r.results) + 1
        s == MapTestCaseResult(i, raw)
        tc == [status |-> s, frame |-> ParseRuntimeDiagnostics(raw.stderr)]
        first == r.status = "ACCEPTED" /\ s # "ACCEPTED"
    IN  IF official /\ r.status # "ACCEPTED" THEN r
        ELSE [results |-> Append(r.results, tc),
              status |-> IF first THEN s ELSE r.status,
              error |-> IF first THEN ErrorMessageForTestCase(i, s, raw) ELSE r.error]

\* File errors, and invalidateMissing finds inputs gone: the batch is rebuilt,
\* once.
Rebuild ==
    /\ pc = "run"
    /\ Missing # {} /\ ~settled
    /\ stale' = stale \ Missing
    /\ pc' = "build"
    /\ settled' = TRUE
    /\ UNCHANGED <<job, exe, start, request, result, files, orphan, blind, out, bounds>>

\* The list of the sandbox's files fails: the file errors count.
InvalidateMissingFails ==
    /\ pc = "run"
    /\ Missing # {} /\ ~settled
    /\ Fault
    /\ settled' = TRUE
    /\ blind' = TRUE
    /\ UNCHANGED <<job, pc, exe, start, request, result, files, stale, orphan, out>>

Run ==
    /\ pc = "run"
    /\ Missing = {} \/ settled
    /\ LET r == FoldLeft(Collect,
                         [results |-> results, status |-> status, error |-> error],
                         [k \in DOMAIN request |-> Answer(k)])
           stop == official /\ r.status # "ACCEPTED"
       IN  /\ results' = r.results
           /\ status' = r.status
           /\ error' = r.error
           /\ pc' = IF stop \/ BatchEnd = TestCount THEN "cleanup" ELSE "build"
    /\ start' = BatchEnd
    /\ request' = <<>>
    /\ settled' = FALSE
    /\ UNCHANGED <<job, exe, sandbox, out, bounds>>

\* A call fails.  The error is retried, from the start, by the job consumer;
\* a user's run ends with it.
ExecFails ==
    /\ pc \in {"build", "run", "publish"}
    /\ CallFails
    /\ pc' = "failed"
    /\ UNCHANGED <<job, exe, batch, result, sandbox, out>>

\* The executable may have been written all the same.
CompileFails ==
    /\ pc = "compile" /\ program # "interpreted"
    /\ CallFails
    /\ pc' = "failed"
    /\ \/ UNCHANGED files
       \/ program = "compiled" /\ files' = files \cup {faults + 1}
    /\ UNCHANGED <<job, exe, batch, result, stale, orphan, blind, out>>

\* A submission's error is that of the job, which starts anew.
AfterCleanup ==
    IF pc = "cleanup"
      THEN /\ pc' = (IF official THEN "publish" ELSE "respond")
           /\ UNCHANGED <<batch, result, orphan, blind>>
    ELSE IF official
      THEN /\ pc' = "compile"
           /\ start' = 0 /\ request' = <<>> /\ settled' = FALSE
           /\ results' = <<>> /\ status' = "ACCEPTED" /\ error' = NoError
           /\ orphan' = FALSE /\ blind' = FALSE
      ELSE /\ pc' = "respond" /\ status' = "failed"
           /\ UNCHANGED <<batch, results, error, orphan, blind>>

\* Mutant of CleanupExecutableFile: not on the way of an error.
CleanupOnSuccess ==
    /\ pc \in {"cleanup", "failed"}
    /\ files' = IF pc = "cleanup" THEN files \ {exe} ELSE files
    /\ exe' = 0
    /\ AfterCleanup
    /\ UNCHANGED <<job, stale, out, bounds>>

\* cleanupExecutableFile, deferred: on every way out of Execute.
CleanupExecutableFile ==
    /\ pc \in {"cleanup", "failed"}
    /\ files' = files \ {exe}
    /\ exe' = 0
    /\ AfterCleanup
    /\ UNCHANGED <<job, stale, out, bounds>>

\* A failed deletion changes nothing else.
CleanupFails ==
    /\ pc \in {"cleanup", "failed"} /\ exe # 0
    /\ Fault
    /\ exe' = 0
    /\ AfterCleanup
    /\ UNCHANGED <<job, files, stale, out>>

\* The sandbox loses its files; the cache holds some of them still, but none
\* for an input that the batch carries itself.
SandboxRestart ==
    /\ restarts < MaxRestarts /\ pc \in {"compile", "build", "run"}
    /\ restarts' = restarts + 1
    /\ files' = {}
    /\ \E held \in SUBSET (IF official THEN 1..TestCount ELSE {}) :
          stale' = Cached \cup (held \ {start + k : k \in DOMAIN request})
    /\ orphan' = (exe # 0)
    /\ UNCHANGED <<job, pc, exe, batch, result, blind, out, faults>>

-----------------------------------------------------------------------------
\* The message, and what the submission service does with it

Ellipsis == [bytes |-> 3, kind |-> "char"]

Bytes(text) == FoldLeft(LAMBDA n, r : n + r.bytes, 0, text)

\* strings.TrimSpace, at the end.
Trimmed(text) ==
    SubSeq(text, 1, Max({0} \cup {k \in DOMAIN text : text[k].kind # "space"}))

\* The first bytes, and no part of a character.
Cut(text) ==
    LET n == Max({k \in 0..Len(text) : Bytes(SubSeq(text, 1, k)) <= MaxErrorBytes})
    IN  SubSeq(text, 1, n)

\* publicErrorMessage, of the worker and again of the service.
PublicErrorMessage(text) ==
    LET valid == Trimmed(SelectSeq(text, LAMBDA r : r.kind # "bad"))
    IN  IF Bytes(valid) <= MaxErrorBytes THEN valid
        ELSE Append(Trimmed(Cut(valid)), Ellipsis)

\* A message without a visible character is none.
ProgramError(e, text) == IF text = <<>> THEN NoError ELSE [e EXCEPT !.text = text]

PublishResult ==
    /\ pc = "publish"
    /\ \E text \in IF error.kind = "program" THEN Texts ELSE {<<>>} :
          message' = [status |-> status,
                      results |-> [k \in DOMAIN results |-> results[k].status],
                      error |-> IF error.kind # "program" THEN error
                                ELSE ProgramError(error, PublicErrorMessage(text))]
    /\ pc' = "apply"
    /\ UNCHANGED <<job, exe, batch, result, sandbox, stored, answer, bounds>>

TerminalStatuses ==
    {"ACCEPTED", "WRONG_ANSWER", "TIME_LIMIT_EXCEEDED", "MEMORY_LIMIT_EXCEEDED",
     "OUTPUT_LIMIT_EXCEEDED", "RUNTIME_ERROR", "COMPILATION_ERROR", "SYSTEM_ERROR"}

ResultStatuses == TerminalStatuses \ {"COMPILATION_ERROR"}

\* judgeOutputFields: the message of a program, or one for the status.
JudgeOutputFields(msg) ==
    CASE msg.status = "RUNTIME_ERROR" ->
           ProgramError(msg.error, PublicErrorMessage(msg.error.text))
      [] msg.status \in {"TIME_LIMIT_EXCEEDED", "MEMORY_LIMIT_EXCEEDED",
                         "OUTPUT_LIMIT_EXCEEDED", "SYSTEM_ERROR"} ->
           [NoError EXCEPT !.kind = msg.status]
      [] OTHER -> NoError

\* applyJudgeResult; an invalid message is dead-lettered.
ApplyJudgeResult ==
    /\ pc = "apply"
    /\ IF /\ message.status \in TerminalStatuses
          /\ \A k \in DOMAIN message.results : message.results[k] \in ResultStatuses
         THEN /\ stored' = [message EXCEPT !.error = JudgeOutputFields(message)]
              /\ pc' = "done"
         ELSE pc' = "rejected" /\ UNCHANGED stored
    /\ UNCHANGED <<job, exe, batch, result, sandbox, message, answer, bounds>>

-----------------------------------------------------------------------------
\* The answer to a run

\* Mutant of MapExecutionStatusToRunStatus: accepted, whatever was expected.
RunStatusPlain(i, s) == IF s = "ACCEPTED" THEN "accepted" ELSE s

\* mapExecutionStatusToRunStatus: with no output to compare, a run is "executed".
MapExecutionStatusToRunStatus(i, s) ==
    IF s # "ACCEPTED" THEN s ELSE IF cases[i].want = 0 THEN "executed" ELSE "accepted"

\* parseCompileDiagnostics: one for every line of the source that is named.
ParseCompileDiagnostics ==
    SelectSeq([k \in DOMAIN CompilerOutput |-> [test |-> 0, line |-> k]],
              LAMBDA d : CompilerOutput[d.line] = "frame")

\* mapExecutionResultToRunResult: the diagnostics of all testcases, in order.
MapExecutionResultToRunResult ==
    [status |-> IF status = "COMPILATION_ERROR" THEN "compile_error" ELSE "completed",
     tests |->
       [i \in DOMAIN results |-> MapExecutionStatusToRunStatus(i, results[i].status)],
     diagnostics |->
       (IF status = "COMPILATION_ERROR" THEN ParseCompileDiagnostics ELSE <<>>)
       \o SelectSeq([i \in DOMAIN results |-> [test |-> i, line |-> results[i].frame]],
                    LAMBDA d : d.line > 0)]

\* Handle of the worker, and RunCode of the caller's runner: any error but a
\* timeout is an unavailable worker.
Respond ==
    /\ pc = "respond"
    /\ answer' = IF Expired THEN answer
                 ELSE IF status = "failed" THEN Reply("unavailable")
                 ELSE MapExecutionResultToRunResult
    /\ pc' = "done"
    /\ UNCHANGED <<job, exe, batch, result, sandbox, message, stored, bounds>>

\* The connection to the worker breaks: its answer is lost.
RespondFails ==
    /\ pc = "respond"
    /\ Fault
    /\ answer' = IF Expired THEN answer ELSE Reply("unavailable")
    /\ pc' = "done"
    /\ UNCHANGED <<job, exe, batch, result, sandbox, message, stored>>

Next ==
    \/ RunCode \/ RequestTimeout \/ Respond \/ RespondFails
    \/ Compile \/ CompileFails
    \/ NewRunBatchRequest \/ Run \/ Rebuild \/ InvalidateMissingFails \/ ExecFails
    \/ CleanupExecutableFile \/ CleanupFails
    \/ SandboxRestart
    \/ PublishResult \/ ApplyJudgeResult

Spec == Init /\ [][Next]_vars

-----------------------------------------------------------------------------
\* Properties

\* What testcase i deserves: its time, its crash, or its output.
Deserved(i) ==
    LET c == cases[i]
    IN  IF c.raw.time > TimeLimitMS THEN "TIME_LIMIT_EXCEEDED"
        ELSE IF MapJudgeStatus(c.raw) # "ACCEPTED" THEN MapJudgeStatus(c.raw)
        ELSE IF c.raw.equal \/ c.want = 0 THEN "ACCEPTED" ELSE "WRONG_ANSWER"

Verdicts == [i \in 1..TestCount |-> Deserved(i)]

Failing == {i \in 1..TestCount : Verdicts[i] # "ACCEPTED"}

FirstFailure == CHOOSE i \in Failing : \A j \in Failing : i <= j

\* What the result should be, from all testcases at once.
Reference ==
    IF program = "broken" THEN [status |-> "COMPILATION_ERROR", results |-> <<>>]
    ELSE IF Failing = {} THEN [status |-> "ACCEPTED", results |-> Verdicts]
    ELSE [status |-> Verdicts[FirstFailure],
          results |-> SubSeq(Verdicts, 1, FirstFailure)]

Refused == results = <<>> /\ status = "SYSTEM_ERROR"

Misled == orphan \/ blind

\* However the testcases fall into batches, and through failed calls, retries
\* and a restart of the sandbox with stale files in the cache, the result of a
\* submission is that of the first failing testcase in the order of the bundle,
\* and a program that prints what is expected is never stopped for its output.
\* Excepted are executions whose executable the sandbox lost, which Execute does
\* not compile again, and those that could not find out which inputs it lost:
\* they report the file error as the program's.
VerdictRight ==
    pc = "done" /\ official /\ ~Refused /\ ~Misled
    => Reference = [status |-> stored.status, results |-> stored.results]

\* What is stored as the reason of a verdict is the message of that testcase, as
\* the worker published it: the service's own cut of a message that the worker
\* has cut already, and made longer by the ellipsis, changes nothing.
ErrorRight ==
    pc = "done" /\ official
    => LET e == stored.error
       IN  /\ e.kind = "program"
              => /\ stored.status = "RUNTIME_ERROR" /\ e = message.error
                 /\ e.of = Len(stored.results)
                 /\ "text" \in ToSet(cases[e.of].raw.stderr)
                    => cases[e.of].raw.stderr[e.line] = "text"
           /\ e.kind = "none"
              => stored.status \in {"ACCEPTED", "WRONG_ANSWER", "COMPILATION_ERROR",
                                   "RUNTIME_ERROR"}

\* The result of a submission is right: its verdict, the reason given for it, and
\* that the service can apply whatever the worker publishes.
ResultRight == VerdictRight /\ ErrorRight /\ pc # "rejected"

\* A run is answered with every testcase in the order of the request, compared
\* where an output was expected and only executed where not, and with one
\* diagnostic for each testcase whose trace names a line of the source.
AnswerRight ==
    answer.status \in {"completed", "compile_error"} /\ ~Misled
    => /\ answer.status = "compile_error" <=> program = "broken"
       /\ program # "broken"
          => /\ answer.tests = [i \in 1..TestCount |->
                                 IF Verdicts[i] # "ACCEPTED" THEN Verdicts[i]
                                 ELSE IF cases[i].want = 0 THEN "executed"
                                 ELSE "accepted"]
             /\ \A i \in 1..TestCount :
                   (\E k \in DOMAIN answer.diagnostics : answer.diagnostics[k].test = i)
                   <=> "frame" \in ToSet(cases[i].raw.stderr)
             /\ \A k, l \in DOMAIN answer.diagnostics :
                   k < l => answer.diagnostics[k].test < answer.diagnostics[l].test

MemoryBytes ==
    FoldLeft(LAMBDA n, k : n + IF request[k] = "memory" THEN cases[start + k].size ELSE 0, 0,
             [k \in DOMAIN request |-> k])

\* No request carries more input bytes than the sandbox accepts, and a batch is
\* refused for its size only if its inputs have no path.
RequestBounded ==
    /\ MemoryBytes <= Budget
    /\ Refused => ~cases[1].path

\* An execution leaves no executable behind, whatever way it ends, but for
\* those whose call failed: of a run whose user gave up it is released as well,
\* unless it was being compiled.
ExecutableReleased ==
    pc \in {"publish", "respond", "done"}
    => Cardinality(files) <= IF Expired THEN 1 ELSE faults

=============================================================================
