--------------------------- MODULE EventQueueProofs ---------------------------
(* Proofs about EventQueue, for all values of its constants. *)
EXTENDS EventQueue, FiniteSetTheorems, TLAPS

(***************************************************************************)
(* Type correctness.                                                       *)
(***************************************************************************)

\* The operations on a queue value return queue values.
LEMMA RemovalTypes ==
    ASSUME NEW q \in QueueValue
    PROVE  /\ Settled(q) \in SUBSET EventId
           /\ Expired(q) \in SUBSET EventId
           /\ \A S \in SUBSET EventId : Without(q, S) \in QueueValue
           /\ \A e \in EventId : Appended(q, e) \in QueueValue
BY DEF QueueValue, Without, Appended, Settled, Expired

LEMMA MarkTypes ==
    ASSUME NEW q \in QueueValue, NEW n \in Nodes, NEW S
    PROVE  /\ MarkedDelivered(q, n, S) \in QueueValue
           /\ MarkedConfirmed(q, n, S) \in QueueValue
BY DEF QueueValue, MarkedDelivered, MarkedConfirmed

\* A delivery picks ids that the queue holds and that the node was not handed.
LEMMA DeliveryPicks ==
    ASSUME NEW q \in QueueValue, NEW n \in Nodes, NEW k, NEW types
    PROVE  FirstOf(Undelivered(q, n, types), k) \subseteq
               {e \in q.ids : n \notin q.delivered[e]}
BY DEF FirstOf, Undelivered

LEMMA EmptyQueueType == EmptyQueue \in QueueValue
BY DEF EmptyQueue, QueueValue

LEMMA TypeStep == TypeOK /\ [Next]_vars => TypeOK'
<1> SUFFICES ASSUME TypeOK, [Next]_vars PROVE TypeOK'
    OBVIOUS
<1> USE ConstantsAssumption DEF TypeOK
<1>1. CASE Start
    BY <1>1 DEF Start, QueueValue
<1>2. CASE QueueEvent
    <2>1. next \in EventId
        BY <1>2 DEF QueueEvent, EventId
    <2>2. queue' \in QueueValue
        BY <1>2, <2>1, RemovalTypes DEF QueueEvent
    <2> QED BY <1>2, <2>1, <2>2 DEF QueueEvent, Save, EventId
<1>3. ASSUME NEW n \in Nodes, NEW k \in Limits, NEW types \in SUBSET Types,
             Deliver(n, k, types), subscribers' \in SUBSET Nodes
      PROVE  TypeOK'
    <2> DEFINE S == FirstOf(Undelivered(queue, n, types), k)
    <2>1. S \in SUBSET EventId
        BY DeliveryPicks DEF QueueValue
    <2>2. queue' \in QueueValue
        BY <1>3, MarkTypes DEF Deliver
    <2>3. handed' \in [EventId -> [Nodes -> Nat]]
        <3> SUFFICES ASSUME NEW e \in EventId
                     PROVE  [handed[e] EXCEPT ![n] = @ + 1] \in [Nodes -> Nat]
            BY <1>3 DEF Deliver
        <3> QED OBVIOUS
    <2> QED BY <1>3, <2>2, <2>3 DEF Deliver, Save
<1>4. ASSUME NEW n \in Nodes, NEW S \in SUBSET EventId, Confirm(n, S)
      PROVE  TypeOK'
    <2> DEFINE marked == MarkedConfirmed(queue, n, S \cap pending)
    <2>1. marked \in QueueValue
        BY MarkTypes
    <2>2. queue' \in QueueValue
        BY <1>4, <2>1, RemovalTypes DEF Confirm
    <2> QED BY <1>4, <2>2 DEF Confirm, Save
<1>5. CASE Cleanup
    <2> DEFINE kept == Without(queue, Settled(queue))
    <2>1. kept \in QueueValue
        BY RemovalTypes
    <2>2. queue' \in QueueValue
        BY <1>5, <2>1, RemovalTypes DEF Cleanup
    <2>3. file' \in QueueValue
        <3>1. CASE Save(queue')
            BY <3>1, <2>2 DEF Save
        <3>2. CASE file' = kept \/ UNCHANGED file
            BY <3>2, <2>1
        <3> QED BY <1>5, <3>1, <3>2 DEF Cleanup
    <2> QED BY <1>5, <2>2, <2>3 DEF Cleanup
<1>6. ASSUME Halt, file' \in QueueValue PROVE TypeOK'
    <2>1. queue' \in QueueValue
        BY <1>6, EmptyQueueType DEF Halt
    <2>2. pending' \subseteq EventId /\ subscribers' \subseteq Nodes
        BY <1>6 DEF Halt
    <2>3. up' \in BOOLEAN
        BY <1>6 DEF Halt
    <2>4. /\ next' \in 1..(MaxEvents + 1) /\ overdue' \in 0..MaxEvents
          /\ halts' \in 0..MaxHalts /\ handed' \in [EventId -> [Nodes -> Nat]]
        BY <1>6 DEF Halt
    <2> QED BY <1>6, <2>1, <2>2, <2>3, <2>4
<1>7. ASSUME NEW e \in EventId, GrowOld(e) PROVE TypeOK'
    BY <1>7 DEF GrowOld, EventId
<1>8. CASE UNCHANGED vars
    BY <1>8 DEF vars
<1>9. ASSUME NEW n \in Nodes, NEW k \in Limits, Poll(n, k) PROVE TypeOK'
    <2>1. Deliver(n, k, {}) /\ subscribers' \in SUBSET Nodes
        BY <1>9 DEF Poll
    <2> QED BY <2>1, <1>3
<1>10. ASSUME NEW n \in Nodes, NEW k \in Limits, NEW types \in SUBSET Types,
              KoiNetPoll(n, k, types)
       PROVE  TypeOK'
    BY <1>10, <1>3 DEF KoiNetPoll
<1>11. CASE Stop
    BY <1>11, <1>6 DEF Stop, Save, Halt
<1>12. CASE Crash
    BY <1>12, <1>6 DEF Crash
<1> QED
    BY <1>1, <1>2, <1>4, <1>5, <1>7, <1>8, <1>9, <1>10, <1>11, <1>12 DEF Next

\* Every reachable state is well typed.
THEOREM TypeCorrect == Spec => []TypeOK
<1>1. Init => TypeOK
    <2> SUFFICES ASSUME Init PROVE TypeOK
        OBVIOUS
    <2>1. queue \in QueueValue /\ file \in QueueValue
        BY EmptyQueueType DEF Init
    <2>2. pending \subseteq EventId /\ subscribers \subseteq Nodes
        BY DEF Init
    <2>3. up \in BOOLEAN
        BY DEF Init
    <2>4. /\ next \in 1..(MaxEvents + 1) /\ overdue \in 0..MaxEvents
          /\ halts \in 0..MaxHalts /\ handed \in [EventId -> [Nodes -> Nat]]
        BY ConstantsAssumption DEF Init
    <2> QED BY <2>1, <2>2, <2>3, <2>4 DEF TypeOK
<1> QED BY <1>1, TypeStep, PTL DEF Spec

(***************************************************************************)
(* The inductive invariant, one lemma per kind of step.                    *)
(***************************************************************************)

\* FirstOf takes a prefix: with an event it takes every earlier candidate.
LEMMA FirstOfIsPrefix ==
    ASSUME NEW S \in SUBSET EventId, NEW k \in Nat,
           NEW d \in S, NEW e \in FirstOf(S, k), d < e
    PROVE  d \in FirstOf(S, k)
<1> DEFINE Below(x) == {y \in S : y < x}
<1>1. IsFiniteSet(S)
    <2>1. IsFiniteSet(1..MaxEvents)
        BY FS_Interval, ConstantsAssumption
    <2> QED BY <2>1, FS_Subset DEF EventId
<1>2. Below(d) \subseteq Below(e)
    <2>1. e \in S
        BY DEF FirstOf
    <2>2. \A y \in S : y \in Int
        BY ConstantsAssumption DEF EventId
    <2> QED BY <2>1, <2>2
<1>3. IsFiniteSet(Below(e)) /\ IsFiniteSet(Below(d))
    BY <1>1, FS_Subset
<1>4. Cardinality(Below(d)) <= Cardinality(Below(e))
    BY <1>2, <1>3, FS_Subset
<1>5. Cardinality(Below(d)) \in Nat /\ Cardinality(Below(e)) \in Nat
    BY <1>3, FS_CardinalityType
<1>6. k = 0 \/ Cardinality(Below(e)) < k
    BY DEF FirstOf
<1>7. k = 0 \/ Cardinality(Below(d)) < k
    BY <1>4, <1>5, <1>6
<1> QED
    BY <1>7 DEF FirstOf

LEMMA InvStart == TypeOK /\ IInv /\ Start => IInv'
<1> SUFFICES ASSUME TypeOK, IInv, Start PROVE IInv'
    OBVIOUS
<1> USE DEF TypeOK, IInv, Start
<1>1. PendingMatchesQueue' /\ FileKeepsUp' /\ MemoryIsVolatile'
    BY DEF PendingMatchesQueue, FileKeepsUp, MemoryIsVolatile
<1>2. DeliveredInOrder' /\ AtMostOnce' /\ IdsGivenInOrder' /\ NothingBeforeQueueing'
    BY DEF DeliveredInOrder, InOrder, AtMostOnce, IdsGivenInOrder, NothingBeforeQueueing
<1>3. MarksTrackHandings'
    BY DEF MarksTrackHandings, EarlierRuns
<1> QED BY <1>1, <1>2, <1>3

LEMMA InvQueueEvent == TypeOK /\ IInv /\ QueueEvent => IInv'
<1> SUFFICES ASSUME TypeOK, IInv, QueueEvent PROVE IInv'
    OBVIOUS
<1> USE DEF TypeOK, IInv
<1>a. /\ queue'.ids = queue.ids \cup {next}
      /\ queue'.delivered = queue.delivered /\ queue'.confirmed = queue.confirmed
    BY DEF QueueEvent, Appended, QueueValue
<1>b. next \in EventId
    BY DEF QueueEvent, EventId
<1>1. /\ up /\ up' = up
      /\ pending' = pending \cup {next} /\ next' = next + 1
      /\ UNCHANGED <<overdue, handed, halts>>
    BY DEF QueueEvent
<1>2. file' = queue' \/ (SavesCanFail /\ file' = file)
    BY DEF QueueEvent, Save
<1>3. PendingMatchesQueue' /\ MemoryIsVolatile' /\ AtMostOnce'
    BY <1>a, <1>1 DEF PendingMatchesQueue, MemoryIsVolatile, AtMostOnce
<1>4. IdsGivenInOrder' /\ NothingBeforeQueueing'
    <2>1. IdsGivenInOrder'
        BY <1>a, <1>1, <1>2, ConstantsAssumption DEF IdsGivenInOrder, EventId, QueueValue
    <2>2. NothingBeforeQueueing'
        BY <1>a, <1>1, <1>2, ConstantsAssumption DEF NothingBeforeQueueing, EventId
    <2> QED BY <2>1, <2>2
<1>5. DeliveredInOrder'
    <2>1. \A n \in Nodes : n \notin queue.delivered[next]
        BY <1>a, <1>b, <1>1 DEF NothingBeforeQueueing, EventId
    <2>2. \A e \in queue.ids : e < next
        BY DEF IdsGivenInOrder
    <2>3. InOrder(queue)'
        BY <1>a, <1>b, <1>1, <2>1, <2>2, ConstantsAssumption DEF DeliveredInOrder, InOrder, EventId, QueueValue
    <2> QED BY <1>2, <2>3 DEF DeliveredInOrder, InOrder
<1>6. FileKeepsUp'
    BY <1>a, <1>b, <1>1, <1>2 DEF FileKeepsUp, IdsGivenInOrder
<1>7. MarksTrackHandings'
    BY <1>a, <1>b, <1>1, <1>2 DEF MarksTrackHandings, NothingBeforeQueueing, EarlierRuns
<1> QED BY <1>3, <1>4, <1>5, <1>6, <1>7

\* Deliver, as it is seen through the fields of the queue.
LEMMA DeliverEffect ==
    ASSUME TypeOK, NEW n \in Nodes, NEW k \in Limits, NEW types \in SUBSET Types,
           Deliver(n, k, types)
    PROVE  LET S == FirstOf(Undelivered(queue, n, types), k) IN
           /\ S \subseteq queue.ids /\ \A e \in S : n \notin queue.delivered[e]
           /\ queue'.ids = queue.ids /\ queue'.confirmed = queue.confirmed
           /\ \A e \in EventId : queue'.delivered[e] =
                IF e \in S THEN queue.delivered[e] \cup {n} ELSE queue.delivered[e]
           /\ \A e \in EventId, m \in Nodes : handed'[e][m] =
                IF e \in S /\ m = n THEN handed[e][m] + 1 ELSE handed[e][m]
           /\ file' = queue' \/ ((SavesCanFail \/ S = {}) /\ file' = file)
           /\ S = {} => queue' = queue
           /\ pending' = pending /\ next' = next /\ overdue' = overdue /\ halts' = halts
<1> DEFINE S == FirstOf(Undelivered(queue, n, types), k)
<1> USE DEF TypeOK
<1>1. S \subseteq queue.ids /\ \A e \in S : n \notin queue.delivered[e]
    BY DeliveryPicks
<1>2. queue' = MarkedDelivered(queue, n, S)
    BY DEF Deliver
<1>3. /\ queue'.ids = queue.ids /\ queue'.confirmed = queue.confirmed
      /\ \A e \in EventId : queue'.delivered[e] =
           IF e \in S THEN queue.delivered[e] \cup {n} ELSE queue.delivered[e]
    BY <1>2 DEF MarkedDelivered, QueueValue
<1>4. \A e \in EventId, m \in Nodes : handed'[e][m] =
           IF e \in S /\ m = n THEN handed[e][m] + 1 ELSE handed[e][m]
    BY DEF Deliver
<1>5. file' = queue' \/ ((SavesCanFail \/ S = {}) /\ file' = file)
    BY DEF Deliver, Save
<1>6. S = {} => queue' = queue
    BY <1>2 DEF MarkedDelivered, QueueValue
<1>7. pending' = pending /\ next' = next /\ overdue' = overdue /\ halts' = halts
    BY DEF Deliver
<1> HIDE DEF S
<1> QED BY <1>1, <1>3, <1>4, <1>5, <1>6, <1>7 DEF S

LEMMA InvDeliver ==
    ASSUME TypeOK, IInv, NEW n \in Nodes, NEW k \in Limits, NEW types \in SUBSET Types,
           Deliver(n, k, types)
    PROVE  IInv'
<1> DEFINE S == FirstOf(Undelivered(queue, n, types), k)
<1> USE DEF TypeOK, IInv
<1>1. /\ S \subseteq queue.ids /\ \A e \in S : n \notin queue.delivered[e]
      /\ queue'.ids = queue.ids /\ queue'.confirmed = queue.confirmed
      /\ \A e \in EventId : queue'.delivered[e] =
           IF e \in S THEN queue.delivered[e] \cup {n} ELSE queue.delivered[e]
      /\ \A e \in EventId, m \in Nodes : handed'[e][m] =
           IF e \in S /\ m = n THEN handed[e][m] + 1 ELSE handed[e][m]
      /\ file' = queue' \/ ((SavesCanFail \/ S = {}) /\ file' = file)
      /\ S = {} => queue' = queue
      /\ pending' = pending /\ next' = next /\ overdue' = overdue /\ halts' = halts
    BY DeliverEffect
<1>2. up /\ up'
    BY DEF Deliver
<1>3. queue.ids \subseteq EventId /\ file.ids \subseteq EventId
    BY DEF QueueValue
<1>order. ASSUME NEW d \in queue.ids, NEW e \in S, d < e, TypeOf[d] = TypeOf[e],
                 n \notin queue.delivered[d]
          PROVE  d \in S
    <2>1. e \in Undelivered(queue, n, types)
        BY DEF FirstOf
    <2>2. d \in Undelivered(queue, n, types)
        BY <1>order, <2>1 DEF Undelivered, Matches
    <2>3. Undelivered(queue, n, types) \in SUBSET EventId /\ k \in Nat
        BY <1>3, ConstantsAssumption DEF Undelivered
    <2> QED BY <1>order, <2>2, <2>3, FirstOfIsPrefix
<1> HIDE DEF S
<1>4. PendingMatchesQueue' /\ IdsGivenInOrder'
    BY <1>1 DEF PendingMatchesQueue, IdsGivenInOrder
<1>5. MemoryIsVolatile'
    BY <1>2 DEF MemoryIsVolatile
<1>6. DeliveredInOrder'
    <2>1. InOrder(queue')
        <3> SUFFICES ASSUME NEW m \in Nodes, NEW d \in queue.ids, NEW e \in queue.ids,
                            d < e, TypeOf[d] = TypeOf[e], m \in queue'.delivered[e]
                     PROVE  m \in queue'.delivered[d]
            BY <1>1 DEF InOrder
        <3>1. CASE m \in queue.delivered[e]
            BY <3>1, <1>1, <1>3 DEF DeliveredInOrder, InOrder
        <3>2. CASE m \notin queue.delivered[e]
            <4>1. e \in S /\ m = n
                BY <3>2, <1>1, <1>3, ZenonT(30)
            <4> QED BY <4>1, <1>order, <1>1, <1>3
        <3> QED BY <3>1, <3>2
    <2> QED BY <2>1, <1>1 DEF DeliveredInOrder, InOrder
<1>7. FileKeepsUp'
    BY <1>1, <1>2, <1>3 DEF FileKeepsUp
<1>8. NothingBeforeQueueing'
    <2>1. \A e \in S : e < next
        BY <1>1 DEF IdsGivenInOrder
    <2>2. \A e \in EventId : e >= next => e \notin S
        BY <2>1, <1>3, <1>1, ConstantsAssumption DEF EventId
    <2> SUFFICES ASSUME NEW e \in EventId, e >= next
                 PROVE  /\ \A m \in Nodes : handed'[e][m] = 0
                        /\ queue'.delivered[e] = {} /\ file'.delivered[e] = {}
                        /\ queue'.confirmed[e] = {} /\ file'.confirmed[e] = {}
        BY <1>1 DEF NothingBeforeQueueing
    <2>3. \A m \in Nodes : handed'[e][m] = 0
        BY <1>1, <2>2 DEF NothingBeforeQueueing
    <2>4. queue'.delivered[e] = {} /\ queue'.confirmed[e] = {}
        BY <1>1, <2>2 DEF NothingBeforeQueueing
    <2> QED BY <1>1, <2>3, <2>4 DEF NothingBeforeQueueing
<1>9. MarksTrackHandings'
    <2> SUFFICES ASSUME NEW e \in EventId, NEW m \in Nodes
                 PROVE  /\ m \in queue'.delivered[e] \cup file'.delivered[e] => handed'[e][m] > 0
                        /\ e \in queue'.ids /\ m \notin queue'.delivered[e] => handed'[e][m] <= EarlierRuns'
                        /\ e \in file'.ids /\ m \notin file'.delivered[e] => SavesCanFail \/ handed'[e][m] = 0
        BY <1>2 DEF MarksTrackHandings
    <2>1. handed[e][m] \in Nat
        OBVIOUS
    <2>earlier. EarlierRuns' = EarlierRuns
        BY <1>1 DEF EarlierRuns
    <2>grows. handed'[e][m] \in Nat /\ handed'[e][m] >= handed[e][m]
        BY <1>1, <2>1
    <2>2. m \in queue'.delivered[e] => handed'[e][m] > 0
        <3>1. CASE m \in queue.delivered[e]
            <4>1. handed[e][m] > 0
                BY <3>1 DEF MarksTrackHandings
            <4> QED BY <4>1, <2>1, <2>grows
        <3>2. CASE m \notin queue.delivered[e] /\ m \in queue'.delivered[e]
            <4>1. e \in S /\ m = n
                BY <3>2, <1>1
            <4> QED BY <4>1, <2>1, <1>1
        <3> QED BY <3>1, <3>2
    <2>3. m \in file.delivered[e] => handed'[e][m] > 0
        <3>1. m \in file.delivered[e] => handed[e][m] > 0
            BY DEF MarksTrackHandings
        <3> QED BY <3>1, <2>1, <2>grows
    <2>4. e \in queue'.ids /\ m \notin queue'.delivered[e] => handed'[e][m] <= EarlierRuns'
        <3> SUFFICES ASSUME e \in queue.ids, m \notin queue'.delivered[e]
                     PROVE  handed'[e][m] <= EarlierRuns
            BY <1>1, <2>earlier
        <3>1. handed'[e][m] = handed[e][m] /\ m \notin queue.delivered[e]
            BY <1>1
        <3> QED BY <3>1 DEF MarksTrackHandings
    <2>5. e \in file'.ids /\ m \notin file'.delivered[e] => SavesCanFail \/ handed'[e][m] = 0
        <3>1. CASE file' = queue'
            <4>1. handed'[e][m] \in Nat
                BY <2>1, <1>1
            <4>2. SavesCanFail \/ EarlierRuns = 0
                BY DEF EarlierRuns
            <4> QED BY <4>1, <4>2, <3>1, <2>earlier, <2>4
        <3>2. CASE S = {} /\ file' = file
            BY <3>2, <1>1 DEF MarksTrackHandings
        <3> QED BY <3>1, <3>2, <1>1
    <2> QED BY <2>2, <2>3, <2>4, <2>5, <1>1
<1>10. AtMostOnce'
    <2> SUFFICES ASSUME NEW e \in EventId, NEW m \in Nodes
                 PROVE  handed'[e][m] <= 1 + EarlierRuns
        BY <1>1 DEF AtMostOnce, EarlierRuns
    <2>1. handed[e][m] \in Nat /\ EarlierRuns \in Nat
        <3>1. halts \in Nat
            BY ConstantsAssumption
        <3> QED BY <3>1 DEF EarlierRuns
    <2>2. e \in S /\ m = n => handed[e][m] <= EarlierRuns
        BY <1>1 DEF MarksTrackHandings
    <2>3. handed[e][m] <= 1 + EarlierRuns
        BY DEF AtMostOnce, EarlierRuns
    <2> QED BY <1>1, <2>1, <2>2, <2>3
<1> QED BY <1>4, <1>5, <1>6, <1>7, <1>8, <1>9, <1>10

LEMMA InvConfirm ==
    ASSUME TypeOK, IInv, NEW n \in Nodes, NEW S \in SUBSET EventId, Confirm(n, S)
    PROVE  IInv'
<1> DEFINE marked == MarkedConfirmed(queue, n, S \cap pending)
           done == Settled(marked)
<1> USE DEF TypeOK, IInv
<1>1. /\ queue'.ids = queue.ids \ done /\ queue'.delivered = queue.delivered
      /\ \A e \in EventId : queue.confirmed[e] \subseteq queue'.confirmed[e]
    <2>1. queue' = Without(marked, done)
        BY DEF Confirm
    <2> HIDE DEF done
    <2> QED BY <2>1 DEF Without, MarkedConfirmed, QueueValue
<1>2. \A e \in EventId : e \notin pending => queue'.confirmed[e] = queue.confirmed[e]
    BY DEF Confirm, Without, MarkedConfirmed, QueueValue
<1>3. pending' = pending \ done /\ UNCHANGED <<next, overdue, handed, halts>>
    BY DEF Confirm
<1>4. file' = queue' \/ (SavesCanFail /\ file' = file)
    BY DEF Confirm, Save
<1>5. up /\ up'
    BY DEF Confirm
<1>6. queue.ids \subseteq EventId /\ file.ids \subseteq EventId
    BY DEF QueueValue
<1> HIDE DEF done
<1>7. PendingMatchesQueue' /\ IdsGivenInOrder'
    BY <1>1, <1>3, <1>4 DEF PendingMatchesQueue, IdsGivenInOrder
<1>8. MemoryIsVolatile'
    BY <1>5 DEF MemoryIsVolatile
<1>9. DeliveredInOrder' /\ AtMostOnce'
    BY <1>1, <1>3, <1>4 DEF DeliveredInOrder, InOrder, AtMostOnce
<1>10. FileKeepsUp'
    BY <1>1, <1>4, <1>5, <1>6 DEF FileKeepsUp
<1>11. NothingBeforeQueueing'
    <2>1. \A e \in EventId : e >= next => e \notin pending
        BY <1>6, ConstantsAssumption DEF PendingMatchesQueue, IdsGivenInOrder, EventId
    <2> QED BY <2>1, <1>1, <1>2, <1>3, <1>4 DEF NothingBeforeQueueing
<1>12. MarksTrackHandings'
    BY <1>1, <1>3, <1>4, <1>5 DEF MarksTrackHandings, EarlierRuns
<1> QED BY <1>7, <1>8, <1>9, <1>10, <1>11, <1>12

LEMMA InvCleanup == TypeOK /\ IInv /\ Cleanup => IInv'
<1> SUFFICES ASSUME TypeOK, IInv, Cleanup PROVE IInv'
    OBVIOUS
<1> DEFINE kept == Without(queue, Settled(queue))
           gone == Settled(queue) \cup Expired(kept)
<1> USE DEF TypeOK, IInv
<1>1. /\ queue'.ids = queue.ids \ gone
      /\ queue'.delivered = queue.delivered /\ queue'.confirmed = queue.confirmed
    <2>1. queue' = Without(kept, Expired(kept))
        BY DEF Cleanup
    <2> QED BY <2>1 DEF Without, QueueValue
<1>2. /\ kept.ids \subseteq queue.ids
      /\ kept.delivered = queue.delivered /\ kept.confirmed = queue.confirmed
    BY DEF Without, QueueValue
<1>3. pending' = pending \ gone /\ UNCHANGED <<next, overdue, handed, halts>>
    BY DEF Cleanup
<1>4. \/ file' = queue'
      \/ SavesCanFail /\ file' = kept
      \/ (SavesCanFail \/ gone = {}) /\ file' = file
    BY DEF Cleanup, Save
<1>5. up /\ up'
    BY DEF Cleanup
<1>6. queue.ids \subseteq EventId /\ file.ids \subseteq EventId
    BY DEF QueueValue
<1>7. gone = {} => queue' = queue
    <2>1. ASSUME gone = {} PROVE kept = queue /\ Without(kept, Expired(kept)) = queue
        BY <2>1 DEF Without, QueueValue
    <2> QED BY <2>1 DEF Cleanup
<1> HIDE DEF gone, kept
<1>8. PendingMatchesQueue' /\ IdsGivenInOrder'
    BY <1>1, <1>2, <1>3, <1>4 DEF PendingMatchesQueue, IdsGivenInOrder
<1>9. MemoryIsVolatile'
    BY <1>5 DEF MemoryIsVolatile
<1>10. DeliveredInOrder' /\ AtMostOnce'
    BY <1>1, <1>2, <1>3, <1>4 DEF DeliveredInOrder, InOrder, AtMostOnce
<1>11. FileKeepsUp'
    BY <1>1, <1>2, <1>4, <1>5, <1>6, <1>7 DEF FileKeepsUp
<1>12. NothingBeforeQueueing'
    BY <1>1, <1>2, <1>3, <1>4 DEF NothingBeforeQueueing
<1>13. MarksTrackHandings'
    BY <1>1, <1>2, <1>3, <1>4, <1>5 DEF MarksTrackHandings, EarlierRuns
<1> QED BY <1>8, <1>9, <1>10, <1>11, <1>12, <1>13

LEMMA InvHalt ==
    ASSUME TypeOK, IInv, Halt, file' = file \/ file' = queue
    PROVE  IInv'
<1> USE DEF TypeOK, IInv, Halt
<1>1. file' = file \/ file' = queue
    OBVIOUS
<1>2. /\ queue'.ids = {}
      /\ \A e \in EventId : queue'.delivered[e] = {} /\ queue'.confirmed[e] = {}
    BY DEF EmptyQueue
<1>3. PendingMatchesQueue' /\ MemoryIsVolatile'
    BY <1>2 DEF PendingMatchesQueue, MemoryIsVolatile
<1>4. IdsGivenInOrder' /\ NothingBeforeQueueing'
    BY <1>1, <1>2 DEF IdsGivenInOrder, NothingBeforeQueueing
<1>5. DeliveredInOrder'
    BY <1>1, <1>2 DEF DeliveredInOrder, InOrder
<1>6. FileKeepsUp'
    BY DEF FileKeepsUp
<1>7. AtMostOnce' /\ MarksTrackHandings'
    <2> SUFFICES ASSUME NEW e \in EventId, NEW n \in Nodes
                 PROVE  /\ handed'[e][n] <= 1 + EarlierRuns'
                        /\ n \in queue'.delivered[e] \cup file'.delivered[e] => handed'[e][n] > 0
                        /\ e \in queue'.ids /\ n \notin queue'.delivered[e] => handed'[e][n] <= EarlierRuns'
                        /\ e \in file'.ids /\ n \notin file'.delivered[e] => SavesCanFail \/ handed'[e][n] = 0
                        /\ ~SavesCanFail \/ handed'[e][n] <= halts'
        BY DEF AtMostOnce, MarksTrackHandings, EarlierRuns
    <2>1. handed'[e][n] = handed[e][n] /\ handed[e][n] \in Nat
        OBVIOUS
    <2>2. halts \in Nat /\ halts' = halts + 1
        BY ConstantsAssumption
    <2>3. handed[e][n] <= 1 + (IF SavesCanFail THEN halts ELSE 0)
        BY DEF AtMostOnce
    <2>4. handed'[e][n] <= 1 + EarlierRuns' /\ (~SavesCanFail \/ handed'[e][n] <= halts')
        BY <2>1, <2>2, <2>3 DEF EarlierRuns
    <2>5. n \in queue'.delivered[e] \cup file'.delivered[e] => handed'[e][n] > 0
        BY <1>1, <1>2, <2>1 DEF MarksTrackHandings
    <2>6. e \in file'.ids /\ n \notin file'.delivered[e] => SavesCanFail \/ handed'[e][n] = 0
        BY <1>1, <2>1 DEF MarksTrackHandings, EarlierRuns
    <2> QED BY <1>2, <2>4, <2>5, <2>6
<1> QED BY <1>3, <1>4, <1>5, <1>6, <1>7

LEMMA InvStep == TypeOK /\ IInv /\ [Next]_vars => IInv'
<1> SUFFICES ASSUME TypeOK, IInv, [Next]_vars PROVE IInv'
    OBVIOUS
<1>1. ASSUME NEW n \in Nodes, NEW k \in Limits, Poll(n, k) PROVE IInv'
    BY <1>1, InvDeliver DEF Poll
<1>2. ASSUME NEW n \in Nodes, NEW k \in Limits, NEW types \in SUBSET Types,
             KoiNetPoll(n, k, types)
      PROVE  IInv'
    BY <1>2, InvDeliver DEF KoiNetPoll
<1>3. ASSUME Stop \/ Crash PROVE IInv'
    BY <1>3, InvHalt DEF Stop, Crash, Save
<1>4. ASSUME NEW e \in EventId, GrowOld(e) PROVE IInv'
    BY <1>4 DEF GrowOld, TypeOK, EventId, IInv, PendingMatchesQueue, DeliveredInOrder, InOrder,
       AtMostOnce, FileKeepsUp, IdsGivenInOrder, NothingBeforeQueueing, MarksTrackHandings,
       EarlierRuns, MemoryIsVolatile
<1>5. CASE UNCHANGED vars
    BY <1>5 DEF vars, IInv, PendingMatchesQueue, DeliveredInOrder, InOrder,
       AtMostOnce, FileKeepsUp, IdsGivenInOrder, NothingBeforeQueueing, MarksTrackHandings,
       EarlierRuns, MemoryIsVolatile
<1> QED
    BY <1>1, <1>2, <1>3, <1>4, <1>5, InvStart, InvQueueEvent, InvConfirm, InvCleanup DEF Next

\* The inductive invariant holds in every reachable state.
THEOREM Invariant == Spec => []IInv
<1>1. Init => IInv
    <2> SUFFICES ASSUME Init PROVE IInv
        OBVIOUS
    <2> USE ConstantsAssumption DEF Init, EmptyQueue
    <2>1. PendingMatchesQueue /\ MemoryIsVolatile /\ FileKeepsUp
        BY DEF PendingMatchesQueue, MemoryIsVolatile, FileKeepsUp
    <2>2. DeliveredInOrder /\ IdsGivenInOrder /\ NothingBeforeQueueing
        BY DEF DeliveredInOrder, InOrder, IdsGivenInOrder, NothingBeforeQueueing
    <2>3. AtMostOnce /\ MarksTrackHandings
        BY DEF AtMostOnce, MarksTrackHandings, EarlierRuns
    <2> QED BY <2>1, <2>2, <2>3 DEF IInv
<1> QED BY <1>1, InvStep, TypeCorrect, PTL DEF Spec

\* A node is handed an event at most once (per run of the process, if writing
\* the queue file can fail), whatever it polls and however often the process
\* crashes.
THEOREM DeliveredAtMostOnce == Spec => []AtMostOnce
BY Invariant, PTL DEF IInv

\* Events of one RID type are handed to each node in the order of queueing.
THEOREM DeliveryOrder == Spec => []DeliveredInOrder
BY Invariant, PTL DEF IInv

\* A restart can repeat a delivery but never suppress one, and nothing is lost
\* by a crash between two handlers if every write of the file succeeds.
THEOREM FileNeverAhead == Spec => []FileKeepsUp
BY Invariant, PTL DEF IInv

\* pending_deliveries and event_queue always hold the same events.
THEOREM PendingIsQueue == Spec => []PendingMatchesQueue
BY Invariant, PTL DEF IInv

(***************************************************************************)
(* What may leave the queue, and the refinement of DeliveryContract.       *)
(***************************************************************************)

\* The effect of Confirm on what is settled.
LEMMA ConfirmEffect ==
    ASSUME TypeOK, NEW n \in Nodes, NEW S \in SUBSET EventId, Confirm(n, S)
    PROVE  /\ queue'.delivered = queue.delivered
           /\ queue'.confirmed = [e \in EventId |->
                IF e \in S \cap pending THEN queue.confirmed[e] \cup {n} ELSE queue.confirmed[e]]
           /\ queue'.ids = {e \in queue.ids : ~ (/\ queue.delivered[e] # {}
                                                 /\ queue.delivered[e] \subseteq queue'.confirmed[e])}
<1> DEFINE marked == MarkedConfirmed(queue, n, S \cap pending)
<1>1. queue' = Without(marked, Settled(marked))
    BY DEF Confirm
<1>2. /\ marked.ids = queue.ids /\ marked.delivered = queue.delivered
      /\ marked.confirmed = [e \in EventId |->
            IF e \in S \cap pending THEN queue.confirmed[e] \cup {n} ELSE queue.confirmed[e]]
    BY DEF MarkedConfirmed, TypeOK, QueueValue
<1>3. /\ queue'.ids = marked.ids \ Settled(marked)
      /\ queue'.delivered = marked.delivered /\ queue'.confirmed = marked.confirmed
    <2> marked \in QueueValue
        BY MarkTypes DEF TypeOK
    <2> HIDE DEF marked
    <2> QED BY <1>1 DEF Without, QueueValue
<1> HIDE DEF marked
<1> QED BY <1>2, <1>3 DEF Settled

\* The effect of Cleanup on the ids.
LEMMA CleanupEffect ==
    ASSUME TypeOK, Cleanup
    PROVE  /\ queue'.delivered = queue.delivered /\ queue'.confirmed = queue.confirmed
           /\ \E gone \in SUBSET queue.ids :
                /\ queue'.ids = queue.ids \ gone
                /\ \A e \in gone : \/ e <= overdue
                                   \/ /\ queue.delivered[e] # {}
                                      /\ queue.delivered[e] \subseteq queue.confirmed[e]
                /\ gone = {} => queue' = queue
<1> DEFINE kept == Without(queue, Settled(queue))
           gone == Settled(queue) \cup Expired(kept)
<1> USE DEF TypeOK
<1>1. queue' = Without(kept, Expired(kept))
    BY DEF Cleanup
<1>2. /\ queue'.ids = queue.ids \ gone
      /\ queue'.delivered = queue.delivered /\ queue'.confirmed = queue.confirmed
    BY <1>1 DEF Without, QueueValue
<1>3. gone \in SUBSET queue.ids
    BY DEF Settled, Expired, Without, QueueValue
<1>4. \A e \in gone : \/ e <= overdue
                      \/ /\ queue.delivered[e] # {}
                         /\ queue.delivered[e] \subseteq queue.confirmed[e]
    BY DEF Settled, Expired
<1>5. gone = {} => queue' = queue
    <2>1. ASSUME gone = {} PROVE kept = queue /\ Without(kept, Expired(kept)) = queue
        BY <2>1 DEF Without, QueueValue
    <2> QED BY <2>1, <1>1
<1> HIDE DEF gone
<1> QED BY <1>2, <1>3, <1>4, <1>5

\* While the process runs, an event leaves the queue only if it is overdue or
\* confirmed by all, and at least one, of the nodes that were handed it.
THEOREM EventsLeaveDone == Spec => OnlyDoneEventsLeave
<1> DEFINE Leaves ==
        up' => \A e \in queue.ids \ queue'.ids :
                   \/ e <= overdue
                   \/ /\ queue.delivered[e] # {}
                      /\ queue.delivered[e] \subseteq queue'.confirmed[e]
<1>1. TypeOK /\ IInv /\ [Next]_vars => [Leaves]_vars
    <2> SUFFICES ASSUME TypeOK, IInv, Next PROVE Leaves
        OBVIOUS
    <2>1. CASE Start
        BY <2>1 DEF Start, IInv, MemoryIsVolatile, EmptyQueue
    <2>2. CASE QueueEvent
        BY <2>2 DEF QueueEvent, Appended, TypeOK, QueueValue
    <2>3. ASSUME NEW n \in Nodes, NEW k \in Limits, NEW types \in SUBSET Types,
                 Deliver(n, k, types)
          PROVE  Leaves
        BY <2>3, DeliverEffect
    <2>4. ASSUME NEW n \in Nodes, NEW S \in SUBSET EventId, Confirm(n, S)
          PROVE  Leaves
        BY <2>4, ConfirmEffect
    <2>5. CASE Cleanup
        BY <2>5, CleanupEffect
    <2>6. CASE Stop \/ Crash
        BY <2>6 DEF Stop, Crash, Halt
    <2>7. ASSUME NEW e \in EventId, GrowOld(e) PROVE Leaves
        BY <2>7 DEF GrowOld
    <2> QED
        BY <2>1, <2>2, <2>3, <2>4, <2>5, <2>6, <2>7 DEF Next, Poll, KoiNetPoll
<1> QED
    BY <1>1, TypeCorrect, Invariant, PTL DEF Spec, OnlyDoneEventsLeave

\* The set of nodes that were handed e, which Contract calls received[e].
Received == [e \in EventId |-> {n \in Nodes : handed[e][n] > 0}]

\* With a file that is always written, the marks of the events on offer are
\* exactly the handings.
LEMMA FileShowsHandings ==
    ASSUME TypeOK, IInv, ~SavesCanFail, NEW e \in file.ids
    PROVE  file.delivered[e] = Received[e]
<1>1. e \in EventId
    BY DEF TypeOK, QueueValue
<1>2. \A n \in Nodes : handed[e][n] \in Nat
    BY <1>1 DEF TypeOK
<1>3. \A n \in Nodes : n \in file.delivered[e] <=> handed[e][n] > 0
    BY <1>1, <1>2 DEF IInv, MarksTrackHandings
<1>4. file.delivered[e] \subseteq Nodes
    BY <1>1 DEF TypeOK, QueueValue
<1> QED BY <1>1, <1>3, <1>4 DEF Received

LEMMA ContractStep ==
    ASSUME TypeOK, IInv, IInv', ~SavesCanFail, [Next]_vars
    PROVE  [Contract!Next]_Contract!cvars
<1> USE DEF TypeOK
<1> DEFINE Quiet == UNCHANGED <<next, file, handed, overdue>>
<1>quiet. Quiet => UNCHANGED Contract!cvars
    BY DEF Contract!cvars
<1>current. up => file = queue
    BY DEF IInv, FileKeepsUp
<1>1. CASE Start
    BY <1>1, <1>quiet DEF Start
<1>2. CASE QueueEvent
    <2>1. next \in EventId
        BY <1>2 DEF QueueEvent, EventId
    <2>2. /\ file'.ids = file.ids \cup {next} /\ file'.confirmed = file.confirmed
          /\ UNCHANGED <<handed, overdue>> /\ next' = next + 1
        BY <1>2, <1>current DEF QueueEvent, Save, Appended, QueueValue
    <2>3. 1..(next' - 1) = 1..(next - 1) \cup {next} /\ next \notin 1..(next - 1)
        BY <2>1, <2>2, ConstantsAssumption DEF EventId
    <2>4. Contract!Publish(next)
        BY <2>2, <2>3 DEF Contract!Publish
    <2> QED BY <2>1, <2>4 DEF Contract!Next
<1>3. ASSUME NEW n \in Nodes, NEW k \in Limits, NEW types \in SUBSET Types,
             Deliver(n, k, types)
      PROVE  [Contract!Next]_Contract!cvars
    <2>s. PICK S : S = FirstOf(Undelivered(queue, n, types), k)
        OBVIOUS
    <2>1. /\ S \subseteq queue.ids /\ \A e \in S : n \notin queue.delivered[e]
          /\ queue'.ids = queue.ids /\ queue'.confirmed = queue.confirmed
          /\ \A e \in EventId, m \in Nodes : handed'[e][m] =
                IF e \in S /\ m = n THEN handed[e][m] + 1 ELSE handed[e][m]
          /\ file' = queue' \/ (S = {} /\ file' = file)
          /\ S = {} => queue' = queue
          /\ next' = next /\ overdue' = overdue
        BY <1>3, <2>s, DeliverEffect
    <2>2. up
        BY <1>3 DEF Deliver
    <2>3. S \in SUBSET EventId
        BY <2>1 DEF QueueValue
    <2>4. file'.ids = file.ids /\ file'.confirmed = file.confirmed
        BY <2>1, <2>2, <1>current
    <2>5. \A e \in S : n \notin Received[e]
        BY <2>1, <2>2, <1>current, FileShowsHandings
    <2>6. Received' = [e \in EventId |-> IF e \in S THEN Received[e] \cup {n} ELSE Received[e]]
        <3>1. ASSUME NEW e \in EventId
              PROVE  Received'[e] = IF e \in S THEN Received[e] \cup {n} ELSE Received[e]
            <4>1. \A m \in Nodes : handed[e][m] \in Nat
                OBVIOUS
            <4>2. \A m \in Nodes : handed'[e][m] > 0 <=> (e \in S /\ m = n) \/ handed[e][m] > 0
                BY <4>1, <2>1
            <4> QED BY <4>2 DEF Received
        <3> QED BY <3>1 DEF Received
    <2>7. Contract!Hand(n, S)
        <3>1. S \subseteq file.ids
            BY <2>1, <2>2, <1>current
        <3>2. 1..(next' - 1) = 1..(next - 1) /\ 1..overdue' = 1..overdue
            BY <2>1
        <3> DEFINE R == [e \in EventId |-> {m \in Nodes : handed[e][m] > 0}]
        <3>3. \A e \in S : n \notin R[e]
            BY <2>5 DEF Received
        <3>4. R' = [e \in EventId |-> IF e \in S THEN R[e] \cup {n} ELSE R[e]]
            BY <2>6 DEF Received
        <3> HIDE DEF R
        <3> QED BY <3>1, <3>2, <3>3, <3>4, <2>4 DEF Contract!Hand, R
    <2> QED BY <2>3, <2>7 DEF Contract!Next
<1>4. ASSUME NEW n \in Nodes, NEW S \in SUBSET EventId, Confirm(n, S)
      PROVE  [Contract!Next]_Contract!cvars
    <2>k. PICK known : known = S \cap pending
        OBVIOUS
    <2>1. /\ queue'.confirmed = [e \in EventId |->
                IF e \in known THEN queue.confirmed[e] \cup {n} ELSE queue.confirmed[e]]
          /\ queue'.ids = {e \in queue.ids : ~ (/\ queue.delivered[e] # {}
                                                /\ queue.delivered[e] \subseteq queue'.confirmed[e])}
        BY <1>4, <2>k, ConfirmEffect
    <2>2. /\ up /\ file' = queue' /\ UNCHANGED <<next, overdue, handed>>
          /\ \A e \in S : handed[e][n] > 0
        BY <1>4 DEF Confirm, Save
    <2>3. file = queue
        BY <2>2, <1>current
    <2>4. \A e \in known : n \in Received[e]
        BY <2>2, <2>k DEF Received
    <2>5. Received' = Received
        BY <2>2 DEF Received
    <2>6. \A e \in queue.ids : queue.delivered[e] = Received[e]
        BY <2>3, FileShowsHandings
    <2>7. file'.ids = {e \in file.ids : ~ (/\ Received'[e] # {}
                                           /\ Received'[e] \subseteq file'.confirmed[e])}
        BY <2>1, <2>2, <2>3, <2>5, <2>6
    <2>8. Contract!Acknowledge(n, known)
        BY <2>1, <2>2, <2>3, <2>4, <2>5, <2>7 DEF Contract!Acknowledge, Contract!Done, Received
    <2> QED BY <2>8, <2>k DEF Contract!Next
<1>5. CASE Cleanup
    <2>1. PICK gone \in SUBSET queue.ids :
                /\ queue'.ids = queue.ids \ gone
                /\ \A e \in gone : \/ e <= overdue
                                   \/ /\ queue.delivered[e] # {}
                                      /\ queue.delivered[e] \subseteq queue.confirmed[e]
        BY <1>5, CleanupEffect
    <2>2. queue'.confirmed = queue.confirmed
        BY <1>5, CleanupEffect
    <2>3. up /\ up' /\ UNCHANGED <<next, overdue, handed>>
        BY <1>5 DEF Cleanup
    <2>4. file = queue /\ file' = queue'
        BY <2>3, <1>current DEF IInv, FileKeepsUp
    <2>5. \A e \in gone : queue.delivered[e] = Received[e]
        BY <2>4, FileShowsHandings
    <2>6. gone \in SUBSET EventId
        BY DEF QueueValue
    <2>7. \A e \in gone : e \in 1..overdue \/ (Received[e] # {} /\ Received[e] \subseteq file.confirmed[e])
        BY <2>1, <2>4, <2>5, <2>6, ConstantsAssumption DEF EventId
    <2>8. Contract!Withdraw(gone)
        BY <2>1, <2>2, <2>3, <2>4, <2>6, <2>7 DEF Contract!Withdraw, Contract!Done, Received
    <2> QED BY <2>6, <2>8 DEF Contract!Next
<1>6. CASE Stop \/ Crash
    BY <1>6, <1>quiet, <1>current DEF Stop, Crash, Halt, Save
<1>7. ASSUME NEW e \in EventId, GrowOld(e) PROVE [Contract!Next]_Contract!cvars
    <2>1. overdue' = e /\ overdue < e /\ e < next /\ UNCHANGED <<file, next, handed>>
        BY <1>7 DEF GrowOld
    <2>2. 1..overdue' = 1..overdue \cup ((1..e) \cap (1..(next - 1)))
        BY <2>1, ConstantsAssumption DEF EventId
    <2>3. 1..e \in SUBSET EventId
        BY ConstantsAssumption DEF EventId
    <2>4. Contract!Age(1..e)
        BY <2>1, <2>2 DEF Contract!Age
    <2> QED BY <2>3, <2>4 DEF Contract!Next
<1>8. CASE UNCHANGED vars
    BY <1>8, <1>quiet DEF vars
<1> QED
    BY <1>1, <1>2, <1>3, <1>4, <1>5, <1>6, <1>7, <1>8 DEF Next, Poll, KoiNetPoll

\* If every write of the queue file succeeds, the queue with its file, its
\* cleanup loop and its crashes implements DeliveryContract.
THEOREM Implementation == ~SavesCanFail => (Spec => ImplementsContract)
<1> SUFFICES ASSUME ~SavesCanFail PROVE Spec => ImplementsContract
    OBVIOUS
<1>1. Init => Contract!Init
    BY DEF Init, EmptyQueue, Contract!Init
<1>2. TypeOK /\ IInv /\ IInv' /\ [Next]_vars => [Contract!Next]_Contract!cvars
    BY ContractStep
<1> QED
    BY <1>1, <1>2, TypeCorrect, Invariant, PTL DEF Spec, ImplementsContract, Contract!Spec

=============================================================================
