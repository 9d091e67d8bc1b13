----------------------------- MODULE JobConsumer ----------------------------
(***************************************************************************)
(* The judge worker's consumer of the job topic in detail: a Sarama        *)
(* session with one dispatcher and a pool of goroutines per claimed        *)
(* partition, the job slots all claims share, cancellation of the session  *)
(* at any point, and the offsets that are marked, committed and read       *)
(* again.                                                                  *)
(*                                                                         *)
(* A message is its offset.  handled is the history of what the worker     *)
(* achieved: the message was processed or is in the dead-letter topic.  An *)
(* execution that starts under a cancelled context fails, because its      *)
(* first step is a gRPC call with that context; one that was under way may *)
(* still succeed.                                                          *)
(***************************************************************************)
EXTENDS Integers, FiniteSets

CONSTANTS
    Claims,        \* partitions assigned to this worker
    Goroutines,    \* dispatch goroutines of all claims
    ClaimOf,       \* the claim each goroutine was started for
    PoolSize,      \* WORKER_POOL_SIZE: goroutines per claim, and job slots in all
    Length,        \* messages of a partition
    Invalid,       \* messages that are not valid JSON, <<claim, offset>>
    MaxRetries,    \* defaultMaxRetries, 3
    MaxCancels,    \* bound on sessions that are cancelled
    MaxCrashes     \* bound on crashes of the worker

ASSUME ConsumerAssumption ==
    /\ IsFiniteSet(Goroutines)
    /\ ClaimOf \in [Goroutines -> Claims]
    /\ PoolSize \in Nat \ {0}
    /\ Length \in Nat
    /\ Invalid \subseteq Claims \X (1..Length)
    /\ MaxRetries \in Nat \ {0}
    /\ MaxCancels \in Nat
    /\ MaxCrashes \in Nat

\* ConsumeClaim starts PoolSize goroutines for its claim.
ASSUME PoolPerClaim ==
    \A c \in Claims : Cardinality({g \in Goroutines : ClaimOf[g] = c}) = PoolSize

VARIABLES
    cancelled,   \* session.Context() is done
    cancels,     \* sessions cancelled so far
    crashes,     \* crashes so far
    fetched,     \* per claim: offset read from claim.Messages()
    held,        \* per claim: message the dispatcher holds, or 0
    closed,      \* per claim: msgCh is closed
    pc,          \* per goroutine: where it is in handleMessage
    offset,      \* per goroutine: its message
    try,         \* per goroutine: executions of the message that failed
    slots,       \* job slots taken
    marked, committed, handled

session == <<cancelled, cancels, crashes>>
dispatch == <<fetched, held, closed>>
offsets == <<marked, committed>>
vars == <<session, dispatch, pc, offset, try, slots, offsets, handled>>

Pcs == {"idle", "acquire", "run", "doomed", "backoff", "dead", "mark"}

\* Every variable keeps its type: offsets stay within the partition, tries and
\* slots within their limits.
TypeOK ==
    /\ cancelled \in BOOLEAN
    /\ cancels \in 0..MaxCancels
    /\ crashes \in 0..MaxCrashes
    /\ fetched \in [Claims -> 0..Length]
    /\ held \in [Claims -> 0..Length]
    /\ closed \in [Claims -> BOOLEAN]
    /\ pc \in [Goroutines -> Pcs]
    /\ offset \in [Goroutines -> 0..Length]
    /\ try \in [Goroutines -> 0..MaxRetries]
    /\ slots \in Int
    /\ marked \in [Claims -> 0..Length]
    /\ committed \in [Claims -> 0..Length]
    /\ handled \in [Claims -> SUBSET (1..Length)]

Init ==
    /\ cancelled = FALSE
    /\ cancels = 0
    /\ crashes = 0
    /\ fetched = [c \in Claims |-> 0]
    /\ held = [c \in Claims |-> 0]
    /\ closed = [c \in Claims |-> FALSE]
    /\ pc = [g \in Goroutines |-> "idle"]
    /\ offset = [g \in Goroutines |-> 0]
    /\ try = [g \in Goroutines |-> 0]
    /\ slots = 0
    /\ marked = [c \in Claims |-> 0]
    /\ committed = [c \in Claims |-> 0]
    /\ handled = [c \in Claims |-> {}]

-----------------------------------------------------------------------------
\* ConsumeClaim: the dispatcher

Receive(c) ==
    /\ ~closed[c] /\ held[c] = 0
    /\ fetched[c] < Length
    /\ fetched' = [fetched EXCEPT ![c] = fetched[c] + 1]
    /\ held' = [held EXCEPT ![c] = fetched[c] + 1]
    /\ UNCHANGED <<session, closed, pc, offset, try, slots, offsets, handled>>

\* The select may hand the message over even when the context is done.
Dispatch(g) ==
    LET c == ClaimOf[g] IN
    /\ ~closed[c] /\ held[c] # 0
    /\ pc[g] = "idle"
    /\ pc' = [pc EXCEPT ![g] = "acquire"]
    /\ offset' = [offset EXCEPT ![g] = held[c]]
    /\ try' = [try EXCEPT ![g] = 0]
    /\ held' = [held EXCEPT ![c] = 0]
    /\ UNCHANGED <<session, fetched, closed, slots, offsets, handled>>

\* The context is done: the message in hand is dropped, or the channel of
\* messages was closed.
StopDispatching(c) ==
    /\ cancelled /\ ~closed[c]
    /\ closed' = [closed EXCEPT ![c] = TRUE]
    /\ held' = [held EXCEPT ![c] = 0]
    /\ UNCHANGED <<session, fetched, pc, offset, try, slots, offsets, handled>>

-----------------------------------------------------------------------------
\* handleMessage

IsInvalid(g) == <<ClaimOf[g], offset[g]>> \in Invalid

StartExecution == IF cancelled THEN "doomed" ELSE "run"

\* Mutant of AcquireJobSlot: one slot is never given out.
AcquireButOne(g) ==
    /\ pc[g] = "acquire"
    /\ slots < PoolSize - 1
    /\ slots' = slots + 1
    /\ pc' = [pc EXCEPT ![g] = IF IsInvalid(g) THEN "dead" ELSE StartExecution]
    /\ UNCHANGED <<session, dispatch, offset, try, offsets, handled>>

AcquireJobSlot(g) ==
    /\ pc[g] = "acquire"
    /\ slots < PoolSize
    /\ slots' = slots + 1
    /\ pc' = [pc EXCEPT ![g] = IF IsInvalid(g) THEN "dead" ELSE StartExecution]
    /\ UNCHANGED <<session, dispatch, offset, try, offsets, handled>>

SkipCancelled(g) ==
    /\ pc[g] = "acquire"
    /\ cancelled
    /\ pc' = [pc EXCEPT ![g] = "idle"]
    /\ UNCHANGED <<session, dispatch, offset, try, slots, offsets, handled>>

\* The deferred releaseJobSlot, on every way out of handleMessage.
LeaveReleasing(g) ==
    /\ pc' = [pc EXCEPT ![g] = "idle"]
    /\ slots' = slots - 1

\* The message has been processed or dead-lettered; it is marked next.
Handle(g) ==
    /\ handled' = [handled EXCEPT ![ClaimOf[g]] = handled[ClaimOf[g]] \cup {offset[g]}]
    /\ pc' = [pc EXCEPT ![g] = "mark"]
    /\ UNCHANGED <<session, dispatch, offset, try, slots, offsets>>

ExecuteSucceeds(g) == pc[g] = "run" /\ Handle(g)

\* Mutant of ExecuteCancelled: the abandoned message is marked.
ExecuteCancelledMarks(g) ==
    /\ pc[g] \in {"run", "doomed"}
    /\ cancelled
    /\ pc' = [pc EXCEPT ![g] = "mark"]
    /\ UNCHANGED <<session, dispatch, offset, try, slots, offsets, handled>>

\* Mutant of ExecuteCancelled: a cancellation is retried like a transient error
\* that does not count as a try.
ExecuteCancelledRetries(g) ==
    /\ pc[g] \in {"run", "doomed"}
    /\ cancelled
    /\ pc' = [pc EXCEPT ![g] = "backoff"]
    /\ UNCHANGED <<session, dispatch, offset, try, slots, offsets, handled>>

\* An error under a cancelled context returns without a mark.
ExecuteCancelled(g) ==
    /\ pc[g] \in {"run", "doomed"}
    /\ cancelled
    /\ LeaveReleasing(g)
    /\ UNCHANGED <<session, dispatch, offset, try, offsets, handled>>

\* Any other error backs off, or leaves the loop after the last retry.
ExecuteFails(g) ==
    /\ pc[g] = "run"
    /\ ~cancelled
    /\ try' = [try EXCEPT ![g] = try[g] + 1]
    /\ pc' = [pc EXCEPT ![g] = IF try[g] + 1 < MaxRetries THEN "backoff" ELSE "dead"]
    /\ UNCHANGED <<session, dispatch, offset, slots, offsets, handled>>

Retry(g) ==
    /\ pc[g] = "backoff"
    /\ pc' = [pc EXCEPT ![g] = StartExecution]
    /\ UNCHANGED <<session, dispatch, offset, try, slots, offsets, handled>>

BackoffCancelled(g) ==
    /\ pc[g] = "backoff"
    /\ cancelled
    /\ LeaveReleasing(g)
    /\ UNCHANGED <<session, dispatch, offset, try, offsets, handled>>

SendToDLT(g) == pc[g] = "dead" /\ Handle(g)

Later(m, n) == IF m < n THEN n ELSE m

MarkMessage(g) ==
    /\ pc[g] = "mark"
    /\ marked' = [marked EXCEPT ![ClaimOf[g]] = Later(marked[ClaimOf[g]], offset[g])]
    /\ LeaveReleasing(g)
    /\ UNCHANGED <<session, dispatch, offset, try, committed, handled>>

-----------------------------------------------------------------------------
\* Sarama's session

CommitMarks(c) ==
    /\ committed[c] < marked[c]
    /\ committed' = [committed EXCEPT ![c] = marked[c]]
    /\ UNCHANGED <<session, dispatch, pc, offset, try, slots, marked, handled>>

\* A rebalance or a shutdown cancels the session's context.
Cancel ==
    /\ ~cancelled /\ cancels < MaxCancels
    /\ cancelled' = TRUE
    /\ cancels' = cancels + 1
    /\ UNCHANGED <<crashes, dispatch, pc, offset, try, slots, offsets, handled>>

\* A session that starts reading each claim after the given offsets.
SessionFrom(start) ==
    /\ cancelled' = FALSE
    /\ fetched' = start
    /\ held' = [c \in Claims |-> 0]
    /\ closed' = [c \in Claims |-> FALSE]
    /\ pc' = [g \in Goroutines |-> "idle"]
    /\ slots' = 0
    /\ marked' = start
    /\ committed' = start
    /\ UNCHANGED <<cancels, offset, try, handled>>

\* Consume returns when every ConsumeClaim has; the marks are flushed, and
\* Run starts the next session.
NextSession ==
    /\ cancelled
    /\ \A c \in Claims : closed[c]
    /\ \A g \in Goroutines : pc[g] = "idle"
    /\ SessionFrom(marked)
    /\ UNCHANGED crashes

Crash ==
    /\ crashes < MaxCrashes
    /\ crashes' = crashes + 1
    /\ SessionFrom(committed)

Dispatcher(c) ==
    \/ Receive(c)
    \/ StopDispatching(c)
    \/ \E g \in Goroutines : ClaimOf[g] = c /\ Dispatch(g)

HandleMessage(g) ==
    \/ AcquireJobSlot(g) \/ SkipCancelled(g)
    \/ ExecuteSucceeds(g) \/ ExecuteCancelled(g) \/ ExecuteFails(g)
    \/ Retry(g) \/ BackoffCancelled(g)
    \/ SendToDLT(g) \/ MarkMessage(g)

Next ==
    \/ \E c \in Claims : Dispatcher(c) \/ CommitMarks(c)
    \/ \E g \in Goroutines : HandleMessage(g)
    \/ Cancel
    \/ NextSession
    \/ Crash

Spec == Init /\ [][Next]_vars

\* Every goroutine and every dispatcher runs; an execution ends one way or
\* the other.  A goroutine that waits for a slot gets one if slots keep being
\* released: Go's channels serve waiting senders in order.
Fairness ==
    /\ \A c \in Claims : WF_vars(Dispatcher(c))
    /\ \A g \in Goroutines : WF_vars(HandleMessage(g)) /\ SF_vars(AcquireJobSlot(g))
    /\ WF_vars(NextSession)

FairSpec == Spec /\ Fairness

-----------------------------------------------------------------------------
\* Properties

\* The first n messages of a claim are done, or passed by one that is not valid
\* JSON: such a message may still be taken from the dispatcher, and get a slot,
\* after the context is done; sendToDLT does not look at the context, and the
\* mark covers what was skipped before.
Covered(c, done, n) ==
    \A o \in 1..n : o \in done \/ \E p \in done : o < p /\ <<c, p>> \in Invalid

\* The committed offset never passes a message that was neither processed
\* nor dead-lettered: a message that was skipped or abandoned because the
\* session was cancelled is delivered again.  The one exception is a message
\* that an invalid one has passed.
CommittedHandled == \A c \in Claims : Covered(c, handled[c], committed[c])

\* The slots taken are exactly those of the goroutines past acquireJobSlot, on
\* every path out of handleMessage, and bound the jobs in flight over all
\* claims, although every claim starts a pool of its own.
InFlight == {g \in Goroutines : pc[g] \notin {"idle", "acquire"}}

SlotsAccounted == slots = Cardinality(InFlight) /\ slots <= PoolSize

\* A cancelled session drains: every dispatcher and goroutine returns, so
\* that the next session can start.
SessionDrains == cancelled ~> ~cancelled

\* Every message is processed or dead-lettered in the end, however sessions
\* are cancelled or crash, unless an invalid one has passed it.
EventuallyHandled == <>(\A c \in Claims : Covered(c, handled[c], Length))

=============================================================================
