------------------------- MODULE JobConsumer_proofs -------------------------
(***************************************************************************)
(* The offsets and the job slots of JobConsumer, for every number of       *)
(* claims, messages, retries, cancellations and crashes.                   *)
(***************************************************************************)
EXTENDS JobConsumer, FiniteSetTheorems, TLAPS

\* WORKER_POOL_SIZE=1, as the worker is deployed.
OneGoroutine == \A g, h \in Goroutines : ClaimOf[g] = ClaimOf[h] => g = h

\* The last message that the dispatcher of a claim has given away.
Given(c) == IF held[c] = 0 THEN fetched[c] ELSE fetched[c] - 1

\* What a claim has marked is covered, and its dispatcher stops only under a
\* cancelled context.
ClaimInv(c) ==
    /\ committed[c] <= marked[c]
    /\ Covered(c, handled[c], marked[c])
    /\ closed[c] => cancelled
    /\ held[c] \in {0, fetched[c]}

\* A goroutine that may still mark its message knows that all before it are
\* covered, or that its own is invalid.
MarkInv(g) ==
    LET c == ClaimOf[g] IN
    /\ pc[g] \in {"run", "backoff"} => Covered(c, handled[c], offset[g] - 1)
    /\ pc[g] = "dead" => IsInvalid(g) \/ Covered(c, handled[c], offset[g] - 1)
    /\ pc[g] = "mark" => Covered(c, handled[c], offset[g])

\* As long as the context is not done, only the message in hand is missing.
StepInv(g) ==
    LET c == ClaimOf[g] IN
    ~cancelled =>
        /\ pc[g] = "idle" => Covered(c, handled[c], Given(c))
        /\ pc[g] = "acquire" => Covered(c, handled[c], offset[g] - 1)
        /\ pc[g] # "idle" => offset[g] = Given(c)

\* A goroutine with a message has one of the partition, and tries left.
TypeInv ==
    /\ TypeOK
    /\ \A g \in Goroutines :
          /\ pc[g] # "idle" => offset[g] # 0
          /\ pc[g] \in {"acquire", "run", "backoff"} => try[g] < MaxRetries

OffsetInv ==
    /\ \A c \in Claims : ClaimInv(c)
    /\ \A g \in Goroutines : MarkInv(g) /\ StepInv(g)

-----------------------------------------------------------------------------
\* Types

\* The first session starts with nothing in hand.
LEMMA TypeInit ==
    ASSUME Init
    PROVE  TypeInv
  <1>1. closed \in [Claims -> BOOLEAN] /\ cancelled \in BOOLEAN
    BY Zenon DEF Init
  <1>2. handled \in [Claims -> SUBSET (1..Length)]
    BY DEF Init
  <1> QED
    BY <1>1, <1>2, ConsumerAssumption DEF Init, TypeInv, TypeOK, Pcs

\* A step of the dispatcher, of a goroutine or of the session keeps the types.
LEMMA TypeStep ==
    ASSUME TypeInv, [Next]_vars
    PROVE  TypeInv'
  <1> USE ConsumerAssumption DEF TypeInv, TypeOK, Pcs
  <1>1. ASSUME NEW c \in Claims, Receive(c) PROVE TypeInv'
    BY <1>1 DEF Receive, session, offsets
  <1>2. ASSUME NEW c \in Claims, StopDispatching(c) PROVE TypeInv'
    BY <1>2 DEF StopDispatching, session, offsets
  <1>3. ASSUME NEW g \in Goroutines, Dispatch(g) PROVE TypeInv'
    BY <1>3 DEF Dispatch, session, offsets
  <1>4. ASSUME NEW c \in Claims, CommitMarks(c) PROVE TypeInv'
    BY <1>4 DEF CommitMarks, session, dispatch
  <1>5. ASSUME NEW g \in Goroutines, AcquireJobSlot(g) PROVE TypeInv'
    BY <1>5 DEF AcquireJobSlot, StartExecution, session, dispatch, offsets
  <1>6. ASSUME NEW g \in Goroutines, SkipCancelled(g) PROVE TypeInv'
    BY <1>6 DEF SkipCancelled, session, dispatch, offsets
  <1>7. ASSUME NEW g \in Goroutines, ExecuteSucceeds(g) \/ SendToDLT(g) PROVE TypeInv'
    BY <1>7 DEF ExecuteSucceeds, SendToDLT, Handle, session, dispatch, offsets
  <1>8. ASSUME NEW g \in Goroutines, ExecuteCancelled(g) \/ BackoffCancelled(g)
        PROVE  TypeInv'
    BY <1>8 DEF ExecuteCancelled, BackoffCancelled, LeaveReleasing, session, dispatch,
                offsets
  <1>9. ASSUME NEW g \in Goroutines, ExecuteFails(g) PROVE TypeInv'
    BY <1>9 DEF ExecuteFails, session, dispatch, offsets
  <1>10. ASSUME NEW g \in Goroutines, Retry(g) PROVE TypeInv'
    BY <1>10 DEF Retry, StartExecution, session, dispatch, offsets
  <1>11. ASSUME NEW g \in Goroutines, MarkMessage(g) PROVE TypeInv'
    BY <1>11 DEF MarkMessage, LeaveReleasing, Later, session, dispatch
  <1>12. CASE Cancel
    BY <1>12 DEF Cancel, dispatch, offsets
  <1>13. CASE NextSession \/ Crash
    <2>1. crashes' \in 0..MaxCrashes
      BY <1>13 DEF NextSession, Crash
    <2>2. PICK start \in [Claims -> 0..Length] : SessionFrom(start)
      BY <1>13 DEF NextSession, Crash
    <2>3. closed' \in [Claims -> BOOLEAN] /\ cancelled' \in BOOLEAN
      BY <2>2, Zenon DEF SessionFrom
    <2> QED
      BY <2>1, <2>2, <2>3 DEF SessionFrom
  <1>14. CASE UNCHANGED vars
    BY <1>14 DEF vars, session, dispatch, offsets
  <1> QED
    BY <1>1, <1>2, <1>3, <1>4, <1>5, <1>6, <1>7, <1>8, <1>9, <1>10, <1>11, <1>12,
       <1>13, <1>14 DEF Next, Dispatcher, HandleMessage

\* Every variable keeps its type: no offset leaves its partition, and no message
\* is executed more often than MaxRetries.
THEOREM ConsumerTypes == Spec => []TypeOK
  <1>1. Init => TypeInv
    BY TypeInit
  <1>2. TypeInv /\ [Next]_vars => TypeInv'
    BY TypeStep
  <1>3. TypeInv => TypeOK
    BY DEF TypeInv
  <1> QED
    BY <1>1, <1>2, <1>3, PTL DEF Spec

-----------------------------------------------------------------------------
\* Offsets

\* What is covered stays covered when more is done.
LEMMA CoveredGrows ==
    ASSUME NEW c, NEW D, NEW E, D \subseteq E, NEW n, Covered(c, D, n)
    PROVE  Covered(c, E, n)
  BY DEF Covered

\* A prefix of what is covered is covered.
LEMMA CoveredLess ==
    ASSUME NEW c, NEW D, NEW n \in Int, NEW m \in Int, m <= n, Covered(c, D, n)
    PROVE  Covered(c, D, m)
  BY DEF Covered

\* The message after what is covered extends it, and an invalid one covers
\* everything before it.
LEMMA CoveredNext ==
    ASSUME NEW c, NEW D, NEW n \in Nat, Covered(c, D, n - 1) \/ <<c, n>> \in Invalid,
           NEW E, E = D \cup {n}
    PROVE  Covered(c, E, n)
  <1> SUFFICES ASSUME NEW o \in 1..n, o # n
               PROVE  o \in E \/ \E p \in E : o < p /\ <<c, p>> \in Invalid
    BY DEF Covered
  <1>1. o \in 1..(n - 1) /\ o < n
    OBVIOUS
  <1> QED
    BY <1>1 DEF Covered

\* Nothing that was handled is forgotten.
LEMMA HandledGrows ==
    ASSUME TypeInv, [Next]_vars, NEW c \in Claims
    PROVE  handled[c] \subseteq handled'[c]
  <1>1. ASSUME NEW g \in Goroutines, Handle(g)
        PROVE  handled[c] \subseteq handled'[c]
    BY <1>1, ConsumerAssumption DEF Handle, TypeInv, TypeOK
  <1>2. CASE \A g \in Goroutines : ~Handle(g)
    <2>1. handled' = handled
      BY <1>2, Zenon DEF Next, vars, Dispatcher, HandleMessage, Receive, StopDispatching,
         Dispatch, CommitMarks, AcquireJobSlot, SkipCancelled, ExecuteSucceeds,
         ExecuteCancelled, ExecuteFails, Retry, BackoffCancelled, SendToDLT, MarkMessage,
         Cancel, NextSession, Crash, SessionFrom
    <2> QED
      BY <2>1
  <1> QED
    BY <1>1, <1>2

\* Every step keeps the offsets covered.
LEMMA OffsetStep ==
    ASSUME OneGoroutine, TypeInv, TypeInv', OffsetInv, [Next]_vars
    PROVE  OffsetInv'
  <1> USE ConsumerAssumption DEF TypeInv, TypeOK, OffsetInv, ClaimInv, MarkInv, StepInv,
          Given, IsInvalid
  <1>1. ASSUME NEW d \in Claims, Receive(d) PROVE OffsetInv'
    BY <1>1 DEF Receive, session, offsets
  <1>2. ASSUME NEW d \in Claims, StopDispatching(d) PROVE OffsetInv'
    BY <1>2 DEF StopDispatching, session, offsets
  <1>3. ASSUME NEW h \in Goroutines, Dispatch(h) PROVE OffsetInv'
    <2>1. \A c \in Claims : ClaimInv(c)'
      BY <1>3 DEF Dispatch, session, offsets
    <2>2. ASSUME NEW g \in Goroutines, g # h PROVE MarkInv(g)' /\ StepInv(g)'
      <3>1. ClaimOf[g] # ClaimOf[h]
        BY <2>2 DEF OneGoroutine
      <3> QED
        BY <1>3, <2>2, <3>1 DEF Dispatch, session, offsets
    <2>3. MarkInv(h)' /\ StepInv(h)'
      BY <1>3 DEF Dispatch, session, offsets
    <2> QED
      BY <2>1, <2>2, <2>3
  <1>4. ASSUME NEW d \in Claims, CommitMarks(d) PROVE OffsetInv'
    BY <1>4 DEF CommitMarks, session, dispatch
  <1>5. ASSUME NEW h \in Goroutines, AcquireJobSlot(h) PROVE OffsetInv'
    BY <1>5 DEF AcquireJobSlot, StartExecution, session, dispatch, offsets
  <1>6. ASSUME NEW h \in Goroutines, SkipCancelled(h) PROVE OffsetInv'
    BY <1>6 DEF SkipCancelled, session, dispatch, offsets
  <1>7. ASSUME NEW h \in Goroutines, ExecuteSucceeds(h) \/ SendToDLT(h)
        PROVE  OffsetInv'
    <2>1. pc' = [pc EXCEPT ![h] = "mark"]
      BY <1>7 DEF ExecuteSucceeds, SendToDLT, Handle
    <2>2. UNCHANGED <<cancelled, fetched, held, closed, offset, marked, committed>>
      BY <1>7 DEF ExecuteSucceeds, SendToDLT, Handle, session, dispatch, offsets
    <2>3. \A c \in Claims, n \in Int :
             Covered(c, handled[c], n) => Covered(c, handled'[c], n)
      BY HandledGrows, CoveredGrows
    <2>4. Covered(ClaimOf[h], handled'[ClaimOf[h]], offset[h])
      <3>1. \/ Covered(ClaimOf[h], handled[ClaimOf[h]], offset[h] - 1)
            \/ <<ClaimOf[h], offset[h]>> \in Invalid
        BY <1>7 DEF ExecuteSucceeds, SendToDLT
      <3>2. handled'[ClaimOf[h]] = handled[ClaimOf[h]] \cup {offset[h]}
        BY <1>7 DEF ExecuteSucceeds, SendToDLT, Handle
      <3>3. offset[h] \in Nat
        OBVIOUS
      <3> QED
        BY <3>1, <3>2, <3>3, CoveredNext
    <2>5. ASSUME NEW c \in Claims PROVE ClaimInv(c)'
      BY <2>2, <2>3
    <2>6. ASSUME NEW g \in Goroutines PROVE MarkInv(g)'
      <3>1. CASE g = h
        BY <2>1, <2>2, <2>4, <3>1
      <3>2. CASE g # h
        <4>1. pc'[g] = pc[g] /\ offset'[g] = offset[g] /\ offset[g] \in Int
          BY <2>1, <2>2, <3>2
        <4> QED
          BY <2>3, <4>1
      <3> QED
        BY <3>1, <3>2
    <2>7. ASSUME NEW g \in Goroutines PROVE StepInv(g)'
      <3>1. /\ pc'[g] \in {"idle", "acquire"} => pc'[g] = pc[g]
            /\ pc'[g] # "idle" => pc[g] # "idle"
        BY <1>7, <2>1 DEF ExecuteSucceeds, SendToDLT
      <3>2. ClaimOf[g] \in Claims /\ Given(ClaimOf[g]) \in Int /\ offset[g] - 1 \in Int
        OBVIOUS
      <3>3. UNCHANGED <<cancelled, Given(ClaimOf[g]), offset[g]>>
        BY <2>2
      <3> HIDE DEF Given
      <3> QED
        BY <2>3, <3>1, <3>2, <3>3
    <2> QED
      BY <2>5, <2>6, <2>7
  <1>8. ASSUME NEW h \in Goroutines, ExecuteCancelled(h) \/ BackoffCancelled(h)
        PROVE  OffsetInv'
    <2>1. /\ pc' = [pc EXCEPT ![h] = "idle"]
          /\ UNCHANGED <<cancelled, fetched, held, closed, offset, marked, committed, handled>>
      BY <1>8 DEF ExecuteCancelled, BackoffCancelled, LeaveReleasing, session, dispatch,
                  offsets
    <2>2. cancelled
      BY <1>8 DEF ExecuteCancelled, BackoffCancelled
    <2>3. \A c \in Claims : ClaimInv(c)'
      BY <2>1
    <2>4. ASSUME NEW g \in Goroutines PROVE MarkInv(g)' /\ StepInv(g)'
      BY <2>1, <2>2
    <2> QED
      BY <2>3, <2>4
  <1>9. ASSUME NEW h \in Goroutines, ExecuteFails(h) PROVE OffsetInv'
    BY <1>9 DEF ExecuteFails, session, dispatch, offsets
  <1>10. ASSUME NEW h \in Goroutines, Retry(h) PROVE OffsetInv'
    BY <1>10 DEF Retry, StartExecution, session, dispatch, offsets
  <1>11. ASSUME NEW h \in Goroutines, MarkMessage(h) PROVE OffsetInv'
    <2>1. /\ marked' = [marked EXCEPT ![ClaimOf[h]] = Later(@, offset[h])]
          /\ pc' = [pc EXCEPT ![h] = "idle"] /\ pc[h] = "mark"
          /\ UNCHANGED <<cancelled, fetched, held, closed, offset, committed, handled>>
      BY <1>11 DEF MarkMessage, LeaveReleasing, session, dispatch
    <2>2. ASSUME NEW c \in Claims PROVE ClaimInv(c)'
      <3>1. marked'[c] = IF c = ClaimOf[h] THEN Later(marked[c], offset[h]) ELSE marked[c]
        BY <2>1
      <3>2. Covered(c, handled[c], marked'[c])
        BY <2>1, <3>1 DEF Later
      <3>3. marked[c] <= marked'[c]
        BY <3>1 DEF Later
      <3>4. marked'[c] \in Int /\ marked[c] \in Int /\ committed[c] \in Int
        OBVIOUS
      <3>5. committed'[c] <= marked'[c]
        <4>1. committed[c] <= marked[c] /\ committed'[c] = committed[c]
          BY <2>1
        <4> HIDE DEF TypeInv, OffsetInv
        <4> QED
          BY <3>3, <3>4, <4>1
      <3> QED
        BY <2>1, <3>2, <3>5
    <2>3. \A g \in Goroutines : MarkInv(g)'
      BY <2>1
    <2>4. ASSUME NEW g \in Goroutines PROVE StepInv(g)'
      <3>1. UNCHANGED <<cancelled, Given(ClaimOf[g]), offset[g], handled[ClaimOf[g]]>>
        BY <2>1
      <3>2. CASE g = h
        <4>1. pc'[g] = "idle" /\ pc[g] = "mark"
          BY <2>1, <3>2
        <4>2. Covered(ClaimOf[g], handled[ClaimOf[g]], offset[g])
          BY <4>1
        <4> HIDE DEF Given
        <4> QED
          BY <3>1, <4>1, <4>2
      <3>3. CASE g # h
        <4>1. pc'[g] = pc[g]
          BY <2>1, <3>3
        <4> HIDE DEF Given
        <4> QED
          BY <3>1, <4>1
      <3> QED
        BY <3>2, <3>3
    <2> QED
      BY <2>2, <2>3, <2>4
  <1>12. CASE Cancel
    BY <1>12 DEF Cancel, dispatch, offsets
  <1>13. CASE NextSession \/ Crash
    <2>1. ASSUME NEW start \in [Claims -> 0..Length], SessionFrom(start),
                 \A c \in Claims : start[c] <= marked[c]
          PROVE  OffsetInv'
      <3>1. \A c \in Claims : Covered(c, handled[c], start[c])
        BY <2>1, CoveredLess
      <3>2. /\ \A c \in Claims : /\ held'[c] = 0 /\ ~closed'[c]
                                 /\ committed'[c] = start[c] /\ marked'[c] = start[c]
                                 /\ fetched'[c] = start[c]
            /\ \A g \in Goroutines : pc'[g] = "idle"
            /\ handled' = handled
        BY <2>1 DEF SessionFrom
      <3>3. ASSUME NEW c \in Claims PROVE ClaimInv(c)'
        BY <3>1, <3>2
      <3>4. ASSUME NEW g \in Goroutines PROVE MarkInv(g)' /\ StepInv(g)'
        <4>1. ClaimOf[g] \in Claims
          OBVIOUS
        <4>2. Given(ClaimOf[g])' = start[ClaimOf[g]]
          BY <3>2, <4>1
        <4> HIDE DEF Given
        <4> QED
          BY <3>1, <3>2, <4>1, <4>2
      <3> QED
        BY <3>3, <3>4
    <2>2. \A c \in Claims : committed[c] <= marked[c] /\ marked[c] <= marked[c]
      OBVIOUS
    <2> QED
      BY <1>13, <2>1, <2>2 DEF NextSession, Crash
  <1>14. CASE UNCHANGED vars
    BY <1>14 DEF vars, session, dispatch, offsets
  <1> QED
    BY <1>1, <1>2, <1>3, <1>4, <1>5, <1>6, <1>7, <1>8, <1>9, <1>10, <1>11, <1>12,
       <1>13, <1>14 DEF Next, Dispatcher, HandleMessage

\* With one goroutine per claim the committed offset never passes a message that
\* was neither processed nor dead-lettered, unless an invalid one has passed it,
\* whatever the number of claims, messages, retries, cancellations and crashes.
THEOREM OffsetsSafe == OneGoroutine /\ Spec => []CommittedHandled
  <1>1. Init => OffsetInv
    BY ConsumerAssumption DEF Init, OffsetInv, ClaimInv, MarkInv, StepInv, Given, Covered
  <1>2. TypeInv /\ OffsetInv => CommittedHandled
    BY CoveredLess, ConsumerAssumption
       DEF TypeInv, TypeOK, OffsetInv, ClaimInv, CommittedHandled
  <1>3. CASE OneGoroutine
    <2>1. TypeInv /\ OffsetInv /\ [Next]_vars => TypeInv' /\ OffsetInv'
      BY <1>3, TypeStep, OffsetStep
    <2> QED
      BY <1>1, <1>2, <2>1, TypeInit, PTL DEF Spec
  <1> QED
    BY <1>3

-----------------------------------------------------------------------------
\* Job slots

\* A step takes a slot for one goroutine, returns one, ends the session, or
\* leaves slots and goroutines past acquireJobSlot as they are.
LEMMA SlotSteps ==
    ASSUME TypeInv, [Next]_vars
    PROVE  \/ \E g \in Goroutines \ InFlight :
                /\ slots < PoolSize /\ slots' = slots + 1
                /\ InFlight' = InFlight \cup {g}
           \/ \E g \in InFlight : slots' = slots - 1 /\ InFlight' = InFlight \ {g}
           \/ slots' = 0 /\ InFlight' = {}
           \/ slots' = slots /\ InFlight' = InFlight
  <1> USE DEF TypeInv, TypeOK, Pcs, InFlight
  <1>1. ASSUME NEW g \in Goroutines, AcquireJobSlot(g)
        PROVE  /\ g \notin InFlight /\ slots < PoolSize /\ slots' = slots + 1
               /\ InFlight' = InFlight \cup {g}
    BY <1>1 DEF AcquireJobSlot, StartExecution
  <1>2. ASSUME NEW g \in Goroutines,
               ExecuteCancelled(g) \/ BackoffCancelled(g) \/ MarkMessage(g)
        PROVE  g \in InFlight /\ slots' = slots - 1 /\ InFlight' = InFlight \ {g}
    BY <1>2 DEF ExecuteCancelled, BackoffCancelled, MarkMessage, LeaveReleasing
  <1>3. ASSUME NEW g \in Goroutines,
               \/ Dispatch(g) \/ SkipCancelled(g) \/ ExecuteSucceeds(g)
               \/ ExecuteFails(g) \/ Retry(g) \/ SendToDLT(g)
        PROVE  slots' = slots /\ InFlight' = InFlight
    BY <1>3 DEF Dispatch, SkipCancelled, ExecuteSucceeds, ExecuteFails, Retry, SendToDLT,
                Handle, StartExecution
  <1>4. CASE NextSession \/ Crash
    BY <1>4 DEF NextSession, Crash, SessionFrom
  <1>5. CASE \/ \E c \in Claims : Receive(c) \/ StopDispatching(c) \/ CommitMarks(c)
             \/ Cancel \/ UNCHANGED vars
    BY <1>5 DEF Receive, StopDispatching, CommitMarks, Cancel, vars
  <1> HIDE DEF TypeInv, TypeOK, Pcs, InFlight
  <1> QED
    BY <1>1, <1>2, <1>3, <1>4, <1>5 DEF Next, Dispatcher, HandleMessage

\* The slots taken are those of the goroutines past acquireJobSlot, whatever way
\* they leave handleMessage, and no more than WORKER_POOL_SIZE jobs run at once
\* over all claims.
THEOREM SlotsExact == Spec => []SlotsAccounted
  <1> USE ConsumerAssumption DEF SlotsAccounted
  <1>1. ASSUME Init
        PROVE  SlotsAccounted
    <2>1. InFlight = {} /\ slots = 0
      BY <1>1 DEF Init, InFlight
    <2> QED
      BY <2>1, FS_EmptySet
  <1>2. ASSUME TypeInv, SlotsAccounted, [Next]_vars
        PROVE  SlotsAccounted'
    <2>1. IsFiniteSet(InFlight)
      BY FS_Subset DEF InFlight
    <2>2. slots \in Int /\ Cardinality(InFlight) \in Nat
      BY <1>2, <2>1, FS_CardinalityType DEF TypeInv, TypeOK
    <2>3. ASSUME NEW g \in Goroutines \ InFlight
          PROVE  Cardinality(InFlight \cup {g}) = Cardinality(InFlight) + 1
      BY <2>1, FS_AddElement
    <2>4. ASSUME NEW g \in InFlight
          PROVE  Cardinality(InFlight \ {g}) = Cardinality(InFlight) - 1
      BY <2>1, FS_RemoveElement
    <2>5. CASE slots' = 0 /\ InFlight' = {}
      BY <2>5, FS_EmptySet
    <2>6. CASE ~(slots' = 0 /\ InFlight' = {})
      <3>1. \/ /\ slots < PoolSize /\ slots' = slots + 1
               /\ Cardinality(InFlight') = Cardinality(InFlight) + 1
            \/ /\ slots' = slots - 1
               /\ Cardinality(InFlight') = Cardinality(InFlight) - 1
            \/ slots' = slots /\ InFlight' = InFlight
        BY <1>2, <2>3, <2>4, <2>6, SlotSteps, Zenon
      <3> QED
        BY <1>2, <2>2, <3>1
    <2> QED
      BY <2>5, <2>6
  <1> QED
    BY <1>1, <1>2, TypeInit, TypeStep, PTL DEF Spec

=============================================================================
