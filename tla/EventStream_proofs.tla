------------------------- MODULE EventStream_proofs -------------------------
(***************************************************************************)
(* Safety of EventStream, for every number of streams and attempts.        *)
(***************************************************************************)
EXTENDS EventStream, TLAPS

\* The event of the current attempt's verdict has reached the channel of a
\* stream, or is about to.
OnItsWay(c) == buffer[c] = current \/ (event = current /\ (~copied \/ c \in targets))

Awaiting(c) == pc[c] \in {"write", "loop"} /\ c \notin terminal /\ attemptOf[c] = current

\* What falls between the snapshot of a stream and its subscription is not lost:
\* a stream that waits for the verdict of the current attempt either finds it in
\* its channel or will be sent it, unless the answer of the commit was lost.
NothingMissed ==
    \A c \in Streams :
        Awaiting(c) /\ current \in judged \ unannounced => OnItsWay(c)

\* The results of a submission are published one at a time, and never for an
\* attempt that a later verdict has superseded.
PublisherInv ==
    /\ judged \subseteq 1..current
    /\ event \in judged \cup {0}
    /\ copied => event # 0
    /\ event \notin {0, current} => current \notin judged

StreamInv(c) ==
    /\ pc[c] \in {"none", "subscribed", "loop"} => c \notin terminal
    /\ pc[c] \in {"none", "subscribed", "write", "loop"} => told[c] = 0
    /\ c \in terminal => attemptOf[c] \in judged
    /\ buffer[c] \in judged \cup {0}
    /\ c \in closed => pc[c] = "gone"

Inv ==
    /\ TypeOK /\ PublisherInv
    /\ \A c \in Streams : StreamInv(c)
    /\ HubSound /\ ToldCommitted /\ NothingMissed

-----------------------------------------------------------------------------
\* At first there is one attempt without a verdict and no stream.
LEMMA InvInit ==
    ASSUME Init
    PROVE  Inv
  <1>1. {copied, ticket, panicked} \subseteq BOOLEAN
    BY Zenon DEF Init
  <1>2. TypeOK
    BY <1>1, StreamAssumption DEF Init, TypeOK, Attempts, Pcs
  <1>3. PublisherInv /\ \A c \in Streams : StreamInv(c)
    BY DEF Init, PublisherInv, StreamInv
  <1>4. HubSound /\ ToldCommitted /\ NothingMissed
    BY DEF Init, HubSound, ToldCommitted, NothingMissed
  <1> QED
    BY <1>2, <1>3, <1>4 DEF Inv

\* A verdict, a rejudge and a step of Publish keep the invariant.
LEMMA PublisherStep ==
    ASSUME Inv, ApplyResult \/ ApplyResultAckLost \/ Rejudge \/ Publisher
    PROVE  Inv'
  <1> USE StreamAssumption DEF Attempts, Pcs
  <1>1. CASE ApplyResult \/ ApplyResultAckLost
    <2> USE <1>1 DEF ApplyResult, ApplyResultAckLost, Commit, dbVars, publisher, shown
    <2>1. /\ judged' = judged \cup {current} /\ current' = current
          /\ event = 0 /\ event' \in {0, current}
      OBVIOUS
    <2>2. current \in 1..current
      BY DEF Inv, TypeOK
    <2>3. unannounced' \in SUBSET judged'
      <3>1. unannounced' \in {unannounced, unannounced \cup {current}}
        OBVIOUS
      <3> QED
        BY <2>1, <3>1 DEF Inv, TypeOK
    <2>4. TypeOK'
      BY <2>1, <2>2, <2>3 DEF Inv, TypeOK
    <2>5. PublisherInv'
      BY <2>1, <2>2 DEF Inv, TypeOK, PublisherInv
    <2>6. \A c \in Streams : StreamInv(c)'
      BY DEF Inv, StreamInv
    <2>7. HubSound' /\ ToldCommitted'
      BY DEF Inv, HubSound, ToldCommitted
    <2>8. NothingMissed'
      BY DEF Inv, NothingMissed, Awaiting, OnItsWay, PublisherInv
    <2> QED
      BY <2>4, <2>5, <2>6, <2>7, <2>8 DEF Inv
  <1>2. CASE Rejudge
    <2> USE <1>2 DEF Rejudge, publisher, shown
    <2>1. TypeOK'
      BY DEF Inv, TypeOK
    <2>2. current + 1 \notin judged
      BY DEF Inv, TypeOK, PublisherInv
    <2>3. PublisherInv'
      BY <2>2 DEF Inv, TypeOK, PublisherInv
    <2>4. (\A c \in Streams : StreamInv(c)') /\ HubSound' /\ ToldCommitted'
      BY DEF Inv, StreamInv, HubSound, ToldCommitted
    <2>5. NothingMissed'
      BY <2>2 DEF Inv, NothingMissed
    <2> QED
      BY <2>1, <2>3, <2>4, <2>5 DEF Inv
  <1>3. CASE CopySubscribers
    <2> USE <1>3 DEF CopySubscribers, dbVars, shown
    <2>1. TypeOK' /\ PublisherInv'
      BY DEF Inv, TypeOK, PublisherInv
    <2>2. (\A c \in Streams : StreamInv(c)') /\ HubSound' /\ ToldCommitted'
      BY DEF Inv, StreamInv, HubSound, ToldCommitted
    <2>3. NothingMissed'
      BY DEF Inv, NothingMissed, Awaiting, OnItsWay, HubSound
    <2> QED
      BY <2>1, <2>2, <2>3 DEF Inv
  <1>4. ASSUME NEW d \in Streams, TrySendLatest(d)
        PROVE  Inv'
    <2> USE <1>4 DEF TrySendLatest, dbVars, shown
    <2>1. TypeOK' /\ PublisherInv'
      BY DEF Inv, TypeOK, PublisherInv
    <2>2. \A c \in Streams : StreamInv(c)'
      BY DEF Inv, TypeOK, StreamInv, PublisherInv
    <2>3. HubSound' /\ ToldCommitted'
      BY DEF Inv, HubSound, ToldCommitted
    <2>4. NothingMissed'
      BY DEF Inv, TypeOK, NothingMissed, Awaiting, OnItsWay, PublisherInv, StreamInv
    <2> QED
      BY <2>1, <2>2, <2>3, <2>4 DEF Inv
  <1>5. CASE PublishReturns
    <2> USE <1>5 DEF PublishReturns, dbVars, shown
    <2>1. copied' \in BOOLEAN /\ ~copied'
      BY Zenon
    <2>2. TypeOK' /\ PublisherInv'
      BY <2>1 DEF Inv, TypeOK, PublisherInv
    <2>3. (\A c \in Streams : StreamInv(c)') /\ HubSound' /\ ToldCommitted'
      BY DEF Inv, StreamInv, HubSound, ToldCommitted
    <2>4. NothingMissed'
      BY DEF Inv, NothingMissed, Awaiting, OnItsWay
    <2> QED
      BY <2>2, <2>3, <2>4 DEF Inv
  <1> QED
    BY <1>1, <1>2, <1>3, <1>4, <1>5 DEF Publisher

\* A step of a handler keeps the invariant.
LEMMA HandlerStep ==
    ASSUME Inv, NEW d \in Streams, Subscribe(d) \/ Handler(d) \/ Abort(d)
    PROVE  Inv'
  <1> USE StreamAssumption DEF Attempts, Pcs, dbVars
  <1>1. CASE Subscribe(d)
    <2> USE <1>1 DEF Subscribe, publisher, shown, Verify
    <2>1. TypeOK' /\ PublisherInv'
      BY DEF Inv, TypeOK, PublisherInv
    <2>2. \A c \in Streams : StreamInv(c)'
      BY DEF Inv, TypeOK, StreamInv
    <2>3. HubSound' /\ ToldCommitted'
      BY DEF Inv, TypeOK, HubSound, ToldCommitted, StreamInv
    <2>4. NothingMissed'
      BY DEF Inv, TypeOK, NothingMissed, Awaiting, OnItsWay
    <2> QED
      BY <2>1, <2>2, <2>3, <2>4 DEF Inv
  <1>2. CASE ReadSnapshot(d)
    <2> USE <1>2 DEF ReadSnapshot, publisher
    <2>1. TypeOK' /\ PublisherInv'
      BY DEF Inv, TypeOK, PublisherInv
    <2>2. \A c \in Streams : StreamInv(c)'
      BY DEF Inv, TypeOK, StreamInv
    <2>3. HubSound' /\ ToldCommitted'
      BY DEF Inv, TypeOK, HubSound, ToldCommitted, StreamInv
    <2>4. NothingMissed'
      BY DEF Inv, TypeOK, NothingMissed, Awaiting, OnItsWay
    <2> QED
      BY <2>1, <2>2, <2>3, <2>4 DEF Inv
  <1>3. CASE WriteSnapshot(d)
    <2> USE <1>3 DEF WriteSnapshot, publisher, shown
    <2>1. TypeOK' /\ PublisherInv'
      BY DEF Inv, TypeOK, PublisherInv
    <2>2. \A c \in Streams : StreamInv(c)'
      BY DEF Inv, TypeOK, StreamInv
    <2>3. HubSound' /\ ToldCommitted'
      BY DEF Inv, TypeOK, HubSound, ToldCommitted, StreamInv
    <2>4. NothingMissed'
      BY DEF Inv, TypeOK, NothingMissed, Awaiting, OnItsWay
    <2> QED
      BY <2>1, <2>2, <2>3, <2>4 DEF Inv
  <1>4. CASE RelayEvent(d)
    <2> USE <1>4 DEF RelayEvent, publisher, shown
    <2>1. TypeOK' /\ PublisherInv'
      BY DEF Inv, TypeOK, PublisherInv
    <2>2. \A c \in Streams : StreamInv(c)'
      BY DEF Inv, TypeOK, StreamInv
    <2>3. HubSound' /\ ToldCommitted'
      BY DEF Inv, TypeOK, HubSound, ToldCommitted, StreamInv
    <2>4. NothingMissed'
      BY DEF Inv, TypeOK, NothingMissed, Awaiting, OnItsWay
    <2> QED
      BY <2>1, <2>2, <2>3, <2>4 DEF Inv
  <1>5. CASE Abort(d)
    <2> USE <1>5 DEF Abort, publisher, shown
    <2>1. TypeOK' /\ PublisherInv'
      BY DEF Inv, TypeOK, PublisherInv
    <2>2. \A c \in Streams : StreamInv(c)'
      BY DEF Inv, TypeOK, StreamInv
    <2>3. HubSound' /\ ToldCommitted'
      BY DEF Inv, TypeOK, HubSound, ToldCommitted, StreamInv
    <2>4. NothingMissed'
      BY DEF Inv, TypeOK, NothingMissed, Awaiting, OnItsWay
    <2> QED
      BY <2>1, <2>2, <2>3, <2>4 DEF Inv
  <1>6. CASE RemoveSubscriber(d)
    <2> USE <1>6 DEF RemoveSubscriber, publisher, shown
    <2>1. TypeOK' /\ PublisherInv'
      BY DEF Inv, TypeOK, PublisherInv
    <2>2. \A c \in Streams : StreamInv(c)'
      BY DEF Inv, TypeOK, StreamInv
    <2>3. HubSound' /\ ToldCommitted'
      BY DEF Inv, TypeOK, HubSound, ToldCommitted, StreamInv
    <2>4. NothingMissed'
      BY DEF Inv, TypeOK, NothingMissed, Awaiting, OnItsWay
    <2> QED
      BY <2>1, <2>2, <2>3, <2>4 DEF Inv
  <1>7. CASE CloseChannel(d)
    <2> USE <1>7 DEF CloseChannel, publisher, shown
    <2>1. TypeOK' /\ PublisherInv'
      BY DEF Inv, TypeOK, PublisherInv
    <2>2. \A c \in Streams : StreamInv(c)'
      BY DEF Inv, TypeOK, StreamInv
    <2>3. HubSound' /\ ToldCommitted'
      BY DEF Inv, TypeOK, HubSound, ToldCommitted, StreamInv
    <2>4. NothingMissed'
      BY DEF Inv, TypeOK, NothingMissed, Awaiting, OnItsWay
    <2> QED
      BY <2>1, <2>2, <2>3, <2>4 DEF Inv
  <1> QED
    BY <1>1, <1>2, <1>3, <1>4, <1>5, <1>6, <1>7 DEF Handler

\* The invariant holds in every reachable state.
LEMMA InvHolds == Spec => []Inv
  <1>1. ASSUME Inv, [Next]_vars
        PROVE  Inv'
    <2>1. CASE IssueTicket \/ TicketExpires \/ UNCHANGED vars
      <3>1. /\ UNCHANGED <<dbVars, publisher, hub, pc, shown, buffer, closed, told, panicked>>
            /\ ticket' \in BOOLEAN
        BY <1>1, <2>1, Zenon DEF IssueTicket, TicketExpires, vars, Inv, TypeOK
      <3>2. TypeOK' /\ PublisherInv'
        BY <1>1, <3>1 DEF Inv, TypeOK, PublisherInv, dbVars, publisher, shown
      <3>3. (\A c \in Streams : StreamInv(c)') /\ HubSound' /\ ToldCommitted'
        BY <1>1, <3>1 DEF Inv, StreamInv, HubSound, ToldCommitted, dbVars, shown
      <3>4. NothingMissed'
        BY <1>1, <3>1 DEF Inv, NothingMissed, Awaiting, OnItsWay, dbVars, publisher, shown
      <3> QED
        BY <3>2, <3>3, <3>4 DEF Inv
    <2> QED
      BY <1>1, <2>1, PublisherStep, HandlerStep DEF Next
  <1> QED
    BY <1>1, InvInit, PTL DEF Spec

\* Whatever the interleaving of Publish with handlers that subscribe, leave and
\* close their channels: no event is sent on a closed channel, and the hub holds
\* exactly the streams that are open.
THEOREM HubIsSound == Spec => []HubSound
  <1>1. Inv => HubSound
    BY DEF Inv
  <1> QED
    BY <1>1, InvHolds, PTL

\* A client is told only of the attempt it looks at and of a committed verdict,
\* for every number of streams and rejudges.
THEOREM ToldOnlyCommitted == Spec => []ToldCommitted
  <1>1. Inv => ToldCommitted
    BY DEF Inv
  <1> QED
    BY <1>1, InvHolds, PTL

\* Because the handler subscribes before it reads the snapshot, no verdict falls
\* between the two, and no older event takes the place of the current one's: the
\* safety that StreamCompletes rests on.
THEOREM NoVerdictMissed == Spec => []NothingMissed
  <1>1. Inv => NothingMissed
    BY DEF Inv
  <1> QED
    BY <1>1, InvHolds, PTL

=============================================================================
