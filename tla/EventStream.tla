----------------------------- MODULE EventStream ----------------------------
(***************************************************************************)
(* Live updates of one submission: the result consumer that commits a      *)
(* verdict and then publishes an event, the in-process SubmissionEventHub  *)
(* with a one-event channel per subscriber, the tickets that open a        *)
(* stream, and the SSE handlers that subscribe, read a snapshot and relay. *)
(*                                                                         *)
(* Attempts of the submission are numbered in the order rejudges open      *)
(* them.  Results of one submission share a partition, so one event is     *)
(* published at a time.  An event is its attempt, 0 is no event.           *)
(***************************************************************************)
EXTENDS Integers, FiniteSets

CONSTANTS
    Streams,       \* SSE requests that may be made
    MaxAttempts,   \* attempts of the submission: rejudges are bounded by it
    MaxLostAcks    \* bound on commits whose answer is lost

ASSUME StreamAssumption == MaxAttempts \in Nat \ {0} /\ MaxLostAcks \in Nat

Attempts == 1..MaxAttempts

VARIABLES
    current,    \* submissions.current_attempt_id
    judged,     \* attempts with a committed verdict
    unannounced,\* attempts whose commit was answered with an error
    event,      \* event being published, or 0
    copied,     \* Publish has copied the subscribers
    targets,    \* subscribers it still has to send to
    ticket,     \* the owner holds a ticket that has not expired
    hub,        \* the hub's subscribers of the submission
    pc,         \* where the handler of a stream is
    attemptOf,  \* the attempt its snapshot showed
    terminal,   \* whether the snapshot showed a verdict
    buffer,     \* what is in the subscriber's channel
    closed,     \* the channel is closed
    told,       \* attempt whose submission.completed was written, or 0
    panicked    \* an event was sent on a closed channel

dbVars == <<current, judged, unannounced>>
publisher == <<event, copied, targets>>
shown == <<attemptOf, terminal>>
vars == <<dbVars, publisher, ticket, hub, pc, shown, buffer, closed, told, panicked>>

Pcs == {"none", "subscribed", "write", "loop", "leave", "removed", "gone"}

\* Every variable keeps its type.
TypeOK ==
    /\ current \in Attempts
    /\ judged \in SUBSET Attempts
    /\ unannounced \in SUBSET judged
    /\ event \in 0..MaxAttempts
    /\ copied \in BOOLEAN
    /\ targets \in SUBSET Streams
    /\ ticket \in BOOLEAN
    /\ hub \in SUBSET Streams
    /\ pc \in [Streams -> Pcs]
    /\ attemptOf \in [Streams -> 0..MaxAttempts]
    /\ terminal \in SUBSET Streams
    /\ buffer \in [Streams -> 0..MaxAttempts]
    /\ closed \in SUBSET Streams
    /\ told \in [Streams -> 0..MaxAttempts]
    /\ panicked \in BOOLEAN

Init ==
    /\ current = 1
    /\ judged = {}
    /\ unannounced = {}
    /\ event = 0 /\ copied = FALSE /\ targets = {}
    /\ ticket = FALSE
    /\ hub = {}
    /\ pc = [c \in Streams |-> "none"]
    /\ attemptOf = [c \in Streams |-> 0]
    /\ terminal = {}
    /\ buffer = [c \in Streams |-> 0]
    /\ closed = {}
    /\ told = [c \in Streams |-> 0]
    /\ panicked = FALSE

-----------------------------------------------------------------------------
\* Result consumer and event hub

Commit == current \notin judged /\ judged' = judged \cup {current}

\* ApplyJudgeResult: the transaction commits, then the event is published.
ApplyResult ==
    /\ event = 0
    /\ Commit
    /\ event' = current
    /\ UNCHANGED <<current, unannounced, copied, targets, ticket, hub, pc, shown,
                   buffer, closed, told, panicked>>

\* The transaction commits and reports an error.  The retry finds a terminal
\* submission and has no event to publish.
ApplyResultAckLost ==
    /\ event = 0
    /\ Cardinality(unannounced) < MaxLostAcks
    /\ Commit
    /\ unannounced' = unannounced \cup {current}
    /\ UNCHANGED <<current, publisher, ticket, hub, pc, shown, buffer, closed, told,
                   panicked>>

\* RejudgeSubmission publishes nothing.
Rejudge ==
    /\ current \in judged
    /\ current < MaxAttempts
    /\ current' = current + 1
    /\ UNCHANGED <<judged, unannounced, publisher, ticket, hub, pc, shown, buffer,
                   closed, told, panicked>>

\* Publish copies the subscribers under the read lock ...
CopySubscribers ==
    /\ event # 0 /\ ~copied
    /\ copied' = TRUE
    /\ targets' = hub
    /\ UNCHANGED <<dbVars, event, ticket, hub, pc, shown, buffer, closed, told,
                   panicked>>

\* Mutant of TrySendLatest: the closed flag is not looked at.
TrySendUnchecked(c) ==
    /\ copied /\ c \in targets
    /\ targets' = targets \ {c}
    /\ buffer' = [buffer EXCEPT ![c] = event]
    /\ panicked' = (panicked \/ c \in closed)
    /\ UNCHANGED <<dbVars, event, copied, ticket, hub, pc, shown, closed, told>>

\* Mutant of TrySendLatest: the event is dropped if the channel is full.
TrySendOrDrop(c) ==
    /\ copied /\ c \in targets
    /\ targets' = targets \ {c}
    /\ buffer' = IF c \in closed \/ buffer[c] # 0 THEN buffer
                                                 ELSE [buffer EXCEPT ![c] = event]
    /\ UNCHANGED <<dbVars, event, copied, ticket, hub, pc, shown, closed, told,
                   panicked>>

\* ... and sends to each of them, replacing an event that was not received.
TrySendLatest(c) ==
    /\ copied /\ c \in targets
    /\ targets' = targets \ {c}
    /\ buffer' = IF c \in closed THEN buffer ELSE [buffer EXCEPT ![c] = event]
    /\ UNCHANGED <<dbVars, event, copied, ticket, hub, pc, shown, closed, told,
                   panicked>>

PublishReturns ==
    /\ copied /\ targets = {}
    /\ event' = 0 /\ copied' = FALSE
    /\ UNCHANGED <<dbVars, targets, ticket, hub, pc, shown, buffer, closed, told,
                   panicked>>

-----------------------------------------------------------------------------
\* SubmissionEventsHandler

\* IssueSubmissionStreamTicket, for the owner of the submission only.
IssueTicket ==
    /\ ~ticket
    /\ ticket' = TRUE
    /\ UNCHANGED <<dbVars, publisher, hub, pc, shown, buffer, closed, told, panicked>>

TicketExpires ==
    /\ ticket
    /\ ticket' = FALSE
    /\ UNCHANGED <<dbVars, publisher, hub, pc, shown, buffer, closed, told, panicked>>

\* Signed here, for a stream, and not expired.  A reconnection presents the
\* same ticket again.
Verify == ticket

Subscribe(c) ==
    /\ pc[c] = "none" /\ Verify
    /\ pc' = [pc EXCEPT ![c] = "subscribed"]
    /\ hub' = hub \cup {c}
    /\ UNCHANGED <<dbVars, publisher, ticket, shown, buffer, closed, told, panicked>>

\* GetStreamSnapshot reads the committed row.
ReadSnapshot(c) ==
    /\ pc[c] = "subscribed"
    /\ pc' = [pc EXCEPT ![c] = "write"]
    /\ attemptOf' = [attemptOf EXCEPT ![c] = current]
    /\ terminal' = IF current \in judged THEN terminal \cup {c} ELSE terminal
    /\ UNCHANGED <<dbVars, publisher, ticket, hub, buffer, closed, told, panicked>>

\* The first event: submission.completed and the end of the stream if the
\* snapshot shows a verdict.
WriteSnapshot(c) ==
    /\ pc[c] = "write"
    /\ pc' = [pc EXCEPT ![c] = IF c \in terminal THEN "leave" ELSE "loop"]
    /\ told' = IF c \in terminal THEN [told EXCEPT ![c] = attemptOf[c]] ELSE told
    /\ UNCHANGED <<dbVars, publisher, ticket, hub, shown, buffer, closed, panicked>>

\* Mutant of RelayEvent: the attempt of the event is not compared.
RelayAnyEvent(c) ==
    /\ pc[c] = "loop" /\ buffer[c] # 0
    /\ buffer' = [buffer EXCEPT ![c] = 0]
    /\ pc' = [pc EXCEPT ![c] = "leave"]
    /\ told' = [told EXCEPT ![c] = buffer[c]]
    /\ UNCHANGED <<dbVars, publisher, ticket, hub, shown, closed, panicked>>

\* Events of another attempt than the snapshot's are ignored.
RelayEvent(c) ==
    /\ pc[c] = "loop" /\ buffer[c] # 0
    /\ buffer' = [buffer EXCEPT ![c] = 0]
    /\ \/ /\ buffer[c] = attemptOf[c]
          /\ pc' = [pc EXCEPT ![c] = "leave"]
          /\ told' = [told EXCEPT ![c] = buffer[c]]
       \/ /\ buffer[c] # attemptOf[c]
          /\ UNCHANGED <<pc, told>>
    /\ UNCHANGED <<dbVars, publisher, ticket, hub, shown, closed, panicked>>

\* The snapshot cannot be read, a write fails, or the client goes away.
Abort(c) ==
    /\ pc[c] \in {"subscribed", "write", "loop"}
    /\ pc' = [pc EXCEPT ![c] = "leave"]
    /\ UNCHANGED <<dbVars, publisher, ticket, hub, shown, buffer, closed, told,
                   panicked>>

\* The deferred unsubscribe: out of the map under the hub's lock ...
RemoveSubscriber(c) ==
    /\ pc[c] = "leave"
    /\ pc' = [pc EXCEPT ![c] = "removed"]
    /\ hub' = hub \ {c}
    /\ UNCHANGED <<dbVars, publisher, ticket, shown, buffer, closed, told, panicked>>

\* ... then the channel is closed under the subscriber's lock.
CloseChannel(c) ==
    /\ pc[c] = "removed"
    /\ pc' = [pc EXCEPT ![c] = "gone"]
    /\ closed' = closed \cup {c}
    /\ UNCHANGED <<dbVars, publisher, ticket, hub, shown, buffer, told, panicked>>

Publisher == CopySubscribers \/ PublishReturns \/ \E c \in Streams : TrySendLatest(c)

\* What a handler does by itself once its request was accepted.
Handler(c) ==
    \/ ReadSnapshot(c) \/ WriteSnapshot(c) \/ RelayEvent(c)
    \/ RemoveSubscriber(c) \/ CloseChannel(c)

Next ==
    \/ ApplyResult
    \/ ApplyResultAckLost
    \/ Rejudge
    \/ IssueTicket
    \/ TicketExpires
    \/ Publisher
    \/ \E c \in Streams : Subscribe(c) \/ Handler(c) \/ Abort(c)

Spec == Init /\ [][Next]_vars

\* The publishing goroutine and the handlers are scheduled.
FairSpec == Spec /\ WF_vars(Publisher) /\ \A c \in Streams : WF_vars(Handler(c))

-----------------------------------------------------------------------------
\* Properties

\* No event is ever sent on a closed channel, which would crash the service,
\* although a handler may unsubscribe between the copy of the subscribers and the
\* send; and the hub holds exactly the streams whose handler has subscribed and
\* not yet unsubscribed: none leaks, however the request ends.
HubSound ==
    /\ ~panicked
    /\ hub = {c \in Streams : pc[c] \in {"subscribed", "write", "loop", "leave"}}

\* A client is told only of the attempt its snapshot showed, and only after
\* the verdict of that attempt was committed.
ToldCommitted ==
    \A c \in Streams : told[c] # 0 => told[c] = attemptOf[c] /\ told[c] \in judged

\* Once the attempt a stream shows has its verdict, the stream ends (by
\* submission.completed, or because its client left), unless a rejudge has
\* opened another attempt or the commit was answered with an error, after which
\* nothing is published: no verdict falls between snapshot and subscription.
StreamCompletes ==
    \A c \in Streams :
        pc[c] = "loop" /\ attemptOf[c] \in judged \ unannounced ~>
            pc[c] # "loop" \/ current # attemptOf[c]

=============================================================================
