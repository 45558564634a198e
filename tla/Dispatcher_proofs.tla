------------------------- MODULE Dispatcher_proofs -------------------------
(***************************************************************************)
(* Proofs about the deferred dispatcher for any number of threads, any     *)
(* bound on allocations and any set of drain limits.                       *)
(***************************************************************************)
EXTENDS Dispatcher, ListLemmas

\* The first element and the tail of a sequence that is not empty.
LEMMA NonEmptyFacts ==
    ASSUME NEW S, NEW s \in Seq(S), s # <<>>
    PROVE  /\ Len(s) \in Nat \ {0} /\ s[1] \in S
           /\ Tail(s) \in Seq(S) /\ Len(Tail(s)) = Len(s) - 1
           /\ \A j \in 1..(Len(s) - 1) : Tail(s)[j] = s[j + 1]
  <1>1. Len(s) \in Nat /\ Len(s) # 0
    BY EmptySeq
  <1>2. s[1] \in S
    BY <1>1
  <1>3. Tail(s) \in Seq(S) /\ Len(Tail(s)) = Len(s) - 1
    BY HeadTailProperties
  <1>4. \A j \in 1..(Len(s) - 1) : Tail(s)[j] = s[j + 1]
    BY <1>1
  <1> QED
    BY <1>1, <1>2, <1>3, <1>4

-----------------------------------------------------------------------------
\* Type correctness.

LEMMA InitType == Init => TypeOK
  BY DispatcherAssumption, NoWrapAssumption
  DEF Init, TypeOK, SlotIds, Works, EmptySlot, NoTicket, NoWork, Slots

\* The tables after allocate_locked and after release_locked keep their types.
LEMMA TakeSlotType ==
    ASSUME TypeOK, NEW i \in AllocIndices, allocs < MaxAllocs, nslots <= allocs,
           NEW state \in {"Free", "Queued"}, NEW work \in Works \cup {NoWork},
           TakeSlot(i, state, work)
    PROVE  /\ i \in SlotIds /\ i <= nslots + 1
           /\ NextGeneration(slots[i].generation) \in 1..MaxGen
           /\ nslots' \in 0..MaxAllocs /\ allocs' \in 0..MaxAllocs
           /\ slots' \in [SlotIds -> Slots]
  <1> USE DispatcherAssumption
  <1>1. i \in SlotIds /\ i <= nslots + 1
    BY DEF TypeOK, AllocIndices, FreeIndices, SlotIds
  <1>2. slots[i].generation \in 0..MaxGen
    BY <1>1 DEF TypeOK, Slots
  <1>3. NextGeneration(slots[i].generation) \in 1..MaxGen
    BY <1>2 DEF NextGeneration
  <1>4. nslots' \in 0..MaxAllocs /\ allocs' \in 0..MaxAllocs
    BY <1>1 DEF TypeOK, TakeSlot, SlotIds
  <1> QED
    BY <1>1, <1>3, <1>4 DEF TypeOK, TakeSlot, Slots

LEMMA ReleasedType ==
    ASSUME TypeOK, NEW S, Released(S)
    PROVE  /\ slots' \in [SlotIds -> Slots]
           /\ free_slots' \in [SlotIds -> Nat]
  BY DEF TypeOK, Released, Slots

LEMMA DiscardedType ==
    ASSUME TypeOK, NEW t \in Threads, Discarded(t)
    PROVE  /\ slots' \in [SlotIds -> Slots]
           /\ free_slots' \in [SlotIds -> Nat]
           /\ queue' \in Seq(Tickets) /\ queued_count' \in Nat
  <1> DEFINE Q == {i \in 1..nslots : slots[i].state = "Queued"}
  <1>1. Released(Q)
    BY DEF Discarded
  <1>2. queue' = <<>> /\ queued_count' = 0
    BY DEF Discarded
  <1> HIDE DEF Q
  <1>3. /\ slots' \in [SlotIds -> Slots]
        /\ free_slots' \in [SlotIds -> Nat]
    BY <1>1, ReleasedType
  <1> QED
    BY <1>2, <1>3

\* A slot in use holds a work, and that work's ticket names the slot.
LEMMA SlotInUse ==
    ASSUME IndInv, NEW i \in 1..nslots, slots[i].state # "Free"
    PROVE  /\ i \in SlotIds
           /\ slots[i].work \in Accepted /\ slots[i].work \in Works
           /\ ticket[slots[i].work] = [slot |-> i, generation |-> slots[i].generation]
  <1>1. i \in SlotIds
    BY DispatcherAssumption DEF IndInv, TypeOK, SlotIds
  <1>2. slots[i] \in Slots
    BY <1>1 DEF IndInv, TypeOK
  <1>3. slots[i].work \in Works
    BY <1>1, <1>2 DEF IndInv, TicketsExact, Slots
  <1>4. ticket[slots[i].work] = [slot |-> i, generation |-> slots[i].generation]
    BY <1>1 DEF IndInv, TicketsExact
  <1>5. ticket[slots[i].work] # NoTicket
    BY <1>1, <1>4, DispatcherAssumption DEF NoTicket, SlotIds
  <1> QED
    BY <1>1, <1>3, <1>4, <1>5 DEF Accepted

LEMMA SlotWorksAreWorks == IndInv => \A s : s # "Free" => SlotWorks(s) \subseteq Works
  BY SlotInUse DEF SlotWorks

\* What TakeBatch does to the queue, the batch and the slots.
LEMMA TakeBatchFacts ==
    ASSUME IndInv, NEW limit \in Limits, TakeBatch(limit)
    PROVE  \E n \in 0..Len(queue) :
             /\ Len(queue) \in Nat
             /\ batch' \in Seq(Entries) /\ Len(batch') = n
             /\ \A k \in 1..n : /\ batch'[k].ticket = queue[k]
                                /\ batch'[k].work = slots[queue[k].slot].work
             /\ queue' \in Seq(Tickets) /\ Len(queue') = Len(queue) - n
             /\ \A k \in 1..(Len(queue) - n) : queue'[k] = queue[n + k]
             /\ queued_count' = queued_count - n
             /\ slots' = [i \in SlotIds |->
                            IF \E k \in 1..n : queue[k].slot = i
                            THEN [generation |-> slots[i].generation,
                                  state |-> "Executing", work |-> slots[i].work]
                            ELSE slots[i]]
  <1> DEFINE n == IF limit < queued_count THEN limit ELSE queued_count
             taken == SubSeq(queue, 1, n)
  <1>1. TypeOK /\ QueueExact /\ limit \in Nat
    BY DispatcherAssumption DEF IndInv
  <1>2. queue \in Seq(Tickets) /\ Len(queue) \in Nat /\ queued_count = Len(queue)
    BY <1>1 DEF TypeOK, QueueExact
  <1>3. n \in 0..Len(queue)
    BY <1>1, <1>2
  <1>4. /\ batch' = [k \in 1..n |->
                      [ticket |-> taken[k], work |-> slots[taken[k].slot].work]]
        /\ queue' = SubSeq(queue, n + 1, Len(queue))
        /\ queued_count' = queued_count - n
        /\ slots' = [i \in SlotIds |->
                       IF \E k \in 1..n : queue[k].slot = i
                       THEN [generation |-> slots[i].generation,
                             state |-> "Executing", work |-> slots[i].work]
                       ELSE slots[i]]
    BY DEF TakeBatch
  <1>5. \A k \in 1..n : taken[k] = queue[k] /\ queue[k] \in Tickets
    <2> HIDE DEF n
    <2> QED
      BY <1>2, <1>3
  <1> HIDE DEF n, taken
  <1>6. ASSUME NEW k \in 1..n PROVE slots[queue[k].slot].work \in Works
    <2>1. k \in 1..Len(queue)
      BY <1>2, <1>3
    <2>2. queue[k].slot \in 1..nslots /\ slots[queue[k].slot].state # "Free"
      BY <1>1, <2>1 DEF QueueExact, IsQueued
    <2> QED
      BY <2>2, SlotInUse
  <1>7. /\ batch' \in Seq(Entries) /\ Len(batch') = n
        /\ \A k \in 1..n : /\ batch'[k].ticket = queue[k]
                           /\ batch'[k].work = slots[queue[k].slot].work
    <2> DEFINE e(k) == [ticket |-> queue[k], work |-> slots[queue[k].slot].work]
    <2>1. \A k \in 1..n : e(k) \in Entries
      BY <1>5, <1>6 DEF Entries
    <2>2. batch' = [k \in 1..n |-> e(k)]
      BY <1>4, <1>5
    <2>3. \A k \in 1..n : e(k).ticket = queue[k] /\ e(k).work = slots[queue[k].slot].work
      OBVIOUS
    <2> HIDE DEF e
    <2> QED
      BY <1>2, <1>3, <2>1, <2>2, <2>3
  <1>8. /\ queue' \in Seq(Tickets) /\ Len(queue') = Len(queue) - n
        /\ \A k \in 1..(Len(queue) - n) : queue'[k] = queue[n + k]
    BY <1>2, <1>3, <1>4
  <1> QED
    BY <1>2, <1>3, <1>4, <1>7, <1>8

\* The queue after cancel erased its entry.
LEMMA CancelFacts ==
    ASSUME IndInv, NEW t \in Threads, NEW w \in Accepted, Cancel(t, w)
    PROVE  \E k \in 1..Len(queue) :
             /\ Len(queue) \in Nat /\ queued_count' = Len(queue) - 1
             /\ queue[k] = ticket[w]
             /\ queue' \in Seq(Tickets) /\ Len(queue') = Len(queue) - 1
             /\ \A j \in 1..(Len(queue) - 1) :
                  queue'[j] = IF j < k THEN queue[j] ELSE queue[j + 1]
             /\ slots[ticket[w].slot].work = w /\ w \in Works
             /\ ticket[w].slot \in 1..nslots
  <1>1. TypeOK /\ QueueExact /\ TicketsExact
    BY DEF IndInv
  <1>2. queue \in Seq(Tickets) /\ Len(queue) \in Nat /\ queued_count = Len(queue)
    BY <1>1 DEF TypeOK, QueueExact
  <1>3. PICK k \in 1..Len(queue) :
          queue[k].slot = ticket[w].slot /\ queue' = RemoveAt(queue, k)
    BY DEF Cancel
  <1>4. /\ ticket[w].slot \in 1..nslots
        /\ slots[ticket[w].slot].generation = ticket[w].generation
        /\ slots[ticket[w].slot].state = "Queued"
    BY DEF Cancel, IsQueued
  <1>5. queue[k] = ticket[w]
    <2>1. queue[k] \in Tickets /\ ticket[w] \in Tickets
      BY <1>1, <1>2 DEF TypeOK, Accepted
    <2>2. queue[k].generation = slots[queue[k].slot].generation
      BY <1>1 DEF QueueExact, IsQueued
    <2> QED
      BY <1>3, <1>4, <2>1, <2>2 DEF Tickets
  <1>6. slots[ticket[w].slot].work = w /\ w \in Works
    <2> DEFINE i == ticket[w].slot
    <2>1. /\ slots[i].work \in Accepted
          /\ ticket[slots[i].work] = [slot |-> i, generation |-> slots[i].generation]
      BY <1>4, SlotInUse
    <2>2. ticket[w] = [slot |-> i, generation |-> slots[i].generation]
      BY <1>1, <1>4 DEF TypeOK, Accepted, Tickets
    <2> QED
      BY <1>1, <2>1, <2>2 DEF TicketsExact, Accepted
  <1> QED
    BY <1>2, <1>3, <1>4, <1>5, <1>6, RemoveAtFacts DEF Cancel

LEMMA NextType == IndInv /\ [Next]_vars => TypeOK'
  <1> SUFFICES ASSUME IndInv, [Next]_vars PROVE TypeOK'
    OBVIOUS
  <1>0. TypeOK /\ nslots <= allocs /\ QueueExact /\ DrainExact
       /\ IndInv
    BY DEF IndInv, TicketsExact
  <1> USE DispatcherAssumption
  <1>1. ASSUME NEW t \in Threads, Post(t) PROVE TypeOK'
    <2>1. PICK i \in AllocIndices :
              LET w  == allocs + 1
                  tk == [slot |-> i, generation |-> NextGeneration(slots[i].generation)]
              IN  /\ TakeSlot(i, "Queued", w)
                  /\ free_slots' = [free_slots EXCEPT ![i] = IF @ > 0 THEN @ - 1 ELSE 0]
                  /\ queue' = Append(queue, tk)
                  /\ ticket' = [ticket EXCEPT ![w] = tk]
      BY <1>1 DEF Post, CanPost, Enqueued
    <2>2. allocs < MaxAllocs /\ allocs + 1 \in Works
      BY <1>0, <1>1 DEF Post, CanPost, Enqueued, Works, TypeOK
    <2>3. /\ i \in SlotIds /\ NextGeneration(slots[i].generation) \in 1..MaxGen
          /\ nslots' \in 0..MaxAllocs /\ allocs' \in 0..MaxAllocs
          /\ slots' \in [SlotIds -> Slots]
      BY <1>0, <2>1, <2>2, TakeSlotType
    <2>4. queue' \in Seq(Tickets) /\ ticket' \in [Works -> Tickets \cup {NoTicket}]
      BY <1>0, <2>1, <2>2, <2>3 DEF TypeOK, Tickets
    <2>5. free_slots' \in [SlotIds -> Nat] /\ queued_count' \in Nat
      <3>1. free_slots' = [free_slots EXCEPT ![i] = IF @ > 0 THEN @ - 1 ELSE 0]
        BY <2>1
      <3>2. queued_count' = queued_count + 1
        BY <1>1 DEF Post, CanPost, Enqueued
      <3> QED
        BY <1>0, <2>3, <3>1, <3>2 DEF TypeOK
    <2> QED
      BY <1>0, <1>1, <2>3, <2>4, <2>5 DEF TypeOK, Post, CanPost, drainVars, life
  <1>2. ASSUME NEW t \in Threads, PostFails(t) PROVE TypeOK'
    <2>1. PICK i \in AllocIndices :
              /\ TakeSlot(i, "Free", NoWork)
              /\ free_slots' = [free_slots EXCEPT ![i] = IF @ > 0 THEN @ ELSE 1]
      BY <1>2 DEF PostFails, CanPost
    <2>2. allocs < MaxAllocs
      BY <1>2 DEF PostFails, CanPost
    <2>3. /\ i \in SlotIds
          /\ nslots' \in 0..MaxAllocs /\ allocs' \in 0..MaxAllocs
          /\ slots' \in [SlotIds -> Slots]
      BY <1>0, <2>1, <2>2, TakeSlotType
    <2>4. free_slots' \in [SlotIds -> Nat]
      BY <1>0, <2>1, <2>3 DEF TypeOK
    <2> QED
      BY <1>0, <1>2, <2>3, <2>4 DEF TypeOK, PostFails, CanPost, drainVars, life
  <1>3. ASSUME NEW t \in Threads, DiscardPending(t) PROVE TypeOK'
    <2>1. owed' \in [Threads -> SUBSET Works]
      BY <1>0, <1>3, SlotWorksAreWorks DEF TypeOK, DiscardPending, Discarded
    <2>2. /\ slots' \in [SlotIds -> Slots] /\ free_slots' \in [SlotIds -> Nat]
          /\ queue' \in Seq(Tickets) /\ queued_count' \in Nat
      BY <1>0, <1>3, DiscardedType DEF DiscardPending
    <2> QED
      BY <1>0, <1>3, <2>1, <2>2
      DEF TypeOK, DiscardPending, drainVars, life, history
  <1>4. ASSUME NEW t \in Threads, Close(t) PROVE TypeOK'
    BY <1>0, <1>4 DEF TypeOK, Close, life, history, drainVars
  <1>5. ASSUME NEW t \in Threads, NEW w \in Accepted, Cancel(t, w) PROVE TypeOK'
    <2>2. queue' \in Seq(Tickets) /\ queued_count' \in Nat /\ slots[ticket[w].slot].work \in Works
      BY <1>0, <1>5, CancelFacts
    <2>3. slots' \in [SlotIds -> Slots] /\ free_slots' \in [SlotIds -> Nat]
      BY <1>0, <1>5, ReleasedType DEF Cancel
    <2>6. owed' \in [Threads -> SUBSET Works] /\ cancelled' \in SUBSET Works
      BY <1>0, <1>5, <2>2 DEF Cancel, TypeOK, Accepted
    <2> QED
      BY <1>0, <1>5, <2>2, <2>3, <2>6 DEF TypeOK, Cancel, drainVars, life
  <1>6. ASSUME NEW t \in Threads, NEW w \in owed[t], Dispose(t, w) PROVE TypeOK'
    BY <1>0, <1>6 DEF TypeOK, Dispose, core, drainVars, life
  <1>7. ASSUME NEW t \in Threads, BeginDrain(t) PROVE TypeOK'
    BY <1>0, <1>7 DEF TypeOK, BeginDrain, core, life, history
  <1>8. ASSUME NEW t \in Threads, DestroyBegin(t) PROVE TypeOK'
    BY <1>0, <1>8 DEF TypeOK, DestroyBegin, drainVars, history
  <1>9. ASSUME NEW limit \in Limits, TakeBatch(limit) PROVE TypeOK'
    <2>1. batch' \in Seq(Entries)
      BY <1>0, <1>9, TakeBatchFacts
    <2>2. queue' \in Seq(Tickets) /\ queued_count' \in Nat
      BY <1>0, <1>9, TakeBatchFacts DEF QueueExact
    <2>6. slots' \in [SlotIds -> Slots]
      BY <1>0, <1>9 DEF TypeOK, TakeBatch, Slots
    <2> QED
      BY <1>0, <1>9, <2>1, <2>2, <2>6 DEF TypeOK, TakeBatch, life, history
  <1>10. ASSUME RunCallback PROVE TypeOK'
    <2>1. batch[1].work \in Works
      <3>1. batch # <<>> /\ batch \in Seq(Entries)
        BY <1>0, <1>10 DEF TypeOK, RunCallback
      <3>2. batch[1] \in Entries
        BY <3>1, NonEmptyFacts
      <3> QED
        BY <3>2 DEF Entries
    <2>2. drainer \in Threads
      BY <1>0, <1>10 DEF TypeOK, RunCallback, DrainExact
    <2> QED
      BY <1>0, <1>10, <2>1, <2>2 DEF TypeOK, RunCallback, core, life
  <1>11. ASSUME CompleteCallback PROVE TypeOK'
    <2>0. batch # <<>> /\ batch \in Seq(Entries)
      BY <1>0, <1>11 DEF TypeOK, CompleteCallback, DrainExact
    <2>1. batch[1].work \in Works /\ Tail(batch) \in Seq(Entries)
      <3>1. batch[1] \in Entries /\ Tail(batch) \in Seq(Entries)
        BY <2>0, NonEmptyFacts
      <3> QED
        BY <3>1 DEF Entries
    <2>2. drainer \in Threads
      BY <1>0, <1>11 DEF TypeOK, CompleteCallback, DrainExact
    <2>3. slots' \in [SlotIds -> Slots] /\ free_slots' \in [SlotIds -> Nat]
      BY <1>0, <1>11, ReleasedType DEF CompleteCallback
    <2> QED
      BY <1>0, <1>11, <2>1, <2>2, <2>3 DEF TypeOK, CompleteCallback, life, history
  <1>12. ASSUME EndDrain PROVE TypeOK'
    BY <1>0, <1>12 DEF TypeOK, EndDrain, core, life, history
  <1>13. ASSUME DestroyDiscard PROVE TypeOK'
    <2>1. destroyer \in Threads
      BY <1>0, <1>13 DEF DestroyDiscard, TypeOK, DrainExact
    <2>2. owed' \in [Threads -> SUBSET Works]
      BY <1>0, <1>13, SlotWorksAreWorks DEF TypeOK, DestroyDiscard, Discarded
    <2>3. /\ slots' \in [SlotIds -> Slots] /\ free_slots' \in [SlotIds -> Nat]
          /\ queue' \in Seq(Tickets) /\ queued_count' \in Nat
      BY <1>0, <1>13, <2>1, DiscardedType DEF DestroyDiscard
    <2> QED
      BY <1>0, <1>13, <2>1, <2>2, <2>3 DEF TypeOK, DestroyDiscard, drainVars, history
  <1>14. ASSUME DestroyDelete PROVE TypeOK'
    BY <1>0, <1>14 DEF TypeOK, DestroyDelete, core, drainVars, history
  <1>15. CASE UNCHANGED vars
    BY <1>0, <1>15 DEF TypeOK, vars, core, drainVars, life, history
  <1> QED
    BY <1>0, <1>1, <1>2, <1>3, <1>4, <1>5, <1>6, <1>7, <1>8, <1>9, <1>10, <1>11,
       <1>12, <1>13, <1>14, <1>15 DEF Next, Deleted

-----------------------------------------------------------------------------
\* The tables: queue, slots, free list, tickets and the batch agree.

\* What the invariant says of one slot, and of the sizes.
LEMMA SlotFacts ==
    ASSUME IndInv, NEW i \in SlotIds
    PROVE  /\ slots[i].generation \in Nat /\ slots[i].generation <= allocs
           /\ slots[i].state \in {"Free", "Queued", "Executing"}
           /\ slots[i].state = "Free" <=> slots[i].work = NoWork
           /\ i > nslots => slots[i] = EmptySlot /\ free_slots[i] = 0
           /\ i \in Nat \ {0}
  <1>1. slots[i] \in Slots
    BY DEF IndInv, TypeOK
  <1>2. slots[i].generation \in Nat /\ slots[i].state \in {"Free", "Queued", "Executing"}
    BY <1>1, DispatcherAssumption DEF Slots
  <1>3. i \in Nat \ {0}
    BY DispatcherAssumption DEF SlotIds
  <1>4. /\ slots[i].generation <= allocs
        /\ slots[i].state = "Free" <=> slots[i].work = NoWork
        /\ i > nslots => slots[i] = EmptySlot /\ free_slots[i] = 0
    BY DEF IndInv, TicketsExact
  <1> QED
    BY <1>2, <1>3, <1>4

LEMMA SizeFacts ==
    ASSUME IndInv
    PROVE  /\ nslots \in Nat /\ allocs \in Nat /\ MaxAllocs \in Nat
           /\ nslots <= allocs /\ allocs <= MaxAllocs
           /\ \A i \in 1..nslots : i \in SlotIds
  BY DispatcherAssumption DEF IndInv, TypeOK, TicketsExact, SlotIds

\* The slot allocate_locked takes is free, and its next generation is new.
LEMMA AllocFacts ==
    ASSUME IndInv, NEW i \in AllocIndices, allocs < MaxAllocs,
           NEW state \in {"Free", "Queued"}, NEW work \in Works \cup {NoWork},
           TakeSlot(i, state, work)
    PROVE  /\ i \in SlotIds /\ i <= nslots + 1
           /\ slots[i].state = "Free" /\ slots[i].work = NoWork
           /\ NextGeneration(slots[i].generation) = slots[i].generation + 1
           /\ slots[i].generation \in Nat /\ slots[i].generation <= allocs
           /\ nslots' = IF i > nslots THEN i ELSE nslots
           /\ allocs' = allocs + 1 /\ allocs \in Nat /\ allocs + 1 \in Works
           /\ slots' = [slots EXCEPT ![i] =
                          [generation |-> slots[i].generation + 1,
                           state |-> state, work |-> work]]
           /\ free_slots[i] = IF i > nslots THEN 0 ELSE 1
  <1>1. TypeOK /\ FreeListExact /\ TicketsExact /\ nslots <= allocs
    BY DEF IndInv, TicketsExact
  <1>2. i \in SlotIds /\ i <= nslots + 1
    BY <1>1, TakeSlotType
  <1>3. allocs \in Nat /\ allocs + 1 \in Works /\ nslots \in Nat
    BY <1>1, DispatcherAssumption DEF TypeOK, Works
  <1>4. slots[i].generation \in Nat /\ slots[i].generation <= allocs
    BY <1>2, SlotFacts
  <1>5. /\ slots[i].state = "Free" /\ slots[i].work = NoWork
        /\ free_slots[i] = IF i > nslots THEN 0 ELSE 1
    <2>1. CASE i \in 1..nslots
      <3>1. free_slots[i] > 0
        BY <1>3, <2>1 DEF AllocIndices, FreeIndices
      <3> QED
        BY <1>1, <1>2, <1>3, <2>1, <3>1, SlotFacts DEF FreeListExact
    <2>2. CASE i = nslots + 1
      BY <1>2, <1>3, <2>2, SlotFacts DEF EmptySlot
    <2> QED
      BY <1>2, <1>3, <2>1, <2>2 DEF SlotIds
  <1>6. NextGeneration(slots[i].generation) = slots[i].generation + 1
    BY <1>3, <1>4, NoWrapAssumption, DispatcherAssumption DEF NextGeneration
  <1> QED
    BY <1>2, <1>3, <1>4, <1>5, <1>6 DEF TakeSlot

LEMMA PostFailsTables ==
    ASSUME IndInv, TypeOK', NEW t \in Threads, PostFails(t)
    PROVE  TablesExact'
  <1>1. PICK i \in AllocIndices :
          /\ TakeSlot(i, "Free", NoWork)
          /\ free_slots' = [free_slots EXCEPT ![i] = IF @ > 0 THEN @ ELSE 1]
    BY DEF PostFails, CanPost
  <1>2. /\ UNCHANGED <<queue, queued_count, batch, ticket>>
        /\ allocs < MaxAllocs
    BY DEF PostFails, CanPost, drainVars
  <1>3. /\ i \in SlotIds /\ i <= nslots + 1
        /\ slots[i].state = "Free" /\ slots[i].work = NoWork
        /\ slots[i].generation \in Nat /\ slots[i].generation <= allocs
        /\ nslots' = IF i > nslots THEN i ELSE nslots
        /\ allocs' = allocs + 1 /\ allocs \in Nat
        /\ slots' = [slots EXCEPT ![i] =
                       [generation |-> slots[i].generation + 1,
                        state |-> "Free", work |-> NoWork]]
        /\ free_slots[i] = IF i > nslots THEN 0 ELSE 1
    BY <1>1, <1>2, AllocFacts
  <1>4. /\ TypeOK /\ QueueExact /\ BatchExact /\ FreeListExact /\ TicketsExact
        /\ nslots \in Nat /\ nslots' \in Nat
    BY <1>3, SizeFacts, SlotFacts DEF IndInv
  <1>5. /\ slots'[i] = [generation |-> slots[i].generation + 1,
                        state |-> "Free", work |-> NoWork]
        /\ \A j \in SlotIds : j # i => slots'[j] = slots[j]
        /\ free_slots'[i] = 1
        /\ \A j \in SlotIds : j # i => free_slots'[j] = free_slots[j]
    BY <1>1, <1>3, <1>4 DEF TypeOK
  <1>6. \A j \in 1..nslots' : j \in SlotIds /\ (j # i => j \in 1..nslots)
    BY <1>3, <1>4, SizeFacts DEF SlotIds
  <1>7. \A j \in 1..nslots : j \in 1..nslots' /\ j \in SlotIds
    BY <1>3, <1>4, SizeFacts DEF SlotIds
  <1>8. QueueExact'
    BY <1>2, <1>3, <1>4, <1>5, <1>6, <1>7 DEF QueueExact, IsQueued
  <1>9. BatchExact'
    BY <1>2, <1>3, <1>4, <1>5, <1>6, <1>7 DEF BatchExact, IsExecuting
  <1>10. FreeListExact'
    BY <1>3, <1>4, <1>5, <1>6 DEF FreeListExact
  <1>11. TicketsExact'
    <2>1. Accepted' = Accepted
      BY <1>2 DEF Accepted
    <2>2. nslots' <= allocs'
      BY <1>3, <1>4 DEF TicketsExact
    <2>3. ASSUME NEW j \in SlotIds
          PROVE  /\ slots'[j].generation <= allocs'
                 /\ slots'[j].state = "Free" <=> slots'[j].work = NoWork
                 /\ j > nslots' => slots'[j] = EmptySlot /\ free_slots'[j] = 0
                 /\ slots'[j].state # "Free" =>
                      ticket'[slots'[j].work] = [slot |-> j, generation |-> slots'[j].generation]
      <3>1. CASE j = i
        BY <1>3, <1>4, <1>5, <3>1
      <3>2. CASE j # i
        <4>1. slots'[j] = slots[j] /\ free_slots'[j] = free_slots[j] /\ ticket' = ticket
          BY <1>2, <1>5, <3>2
        <4>2. slots[j].generation <= allocs' /\ (j > nslots' => j > nslots)
          BY <1>3, <1>4, SlotFacts
        <4>3. slots[j].state # "Free" =>
                ticket[slots[j].work] = [slot |-> j, generation |-> slots[j].generation]
          BY <1>4 DEF TicketsExact
        <4> QED
          BY <4>1, <4>2, <4>3, SlotFacts
      <3> QED
        BY <3>1, <3>2
    <2>4. ASSUME NEW w \in Accepted
          PROVE  /\ ticket'[w].slot <= nslots'
                 /\ ticket'[w].generation <= slots'[ticket'[w].slot].generation
      <3>1. /\ ticket[w].slot <= nslots /\ ticket[w] \in Tickets
            /\ ticket[w].generation <= slots[ticket[w].slot].generation
        BY <1>4 DEF TicketsExact, Accepted, TypeOK
      <3> QED
        BY <1>2, <1>3, <1>4, <1>5, <3>1 DEF Tickets, SlotIds
    <2> QED
      BY <1>2, <1>3, <1>4, <2>1, <2>2, <2>3, <2>4 DEF TicketsExact, TypeOK, Works
  <1> QED
    BY <1>8, <1>9, <1>10, <1>11 DEF TablesExact

LEMMA PostFacts ==
    ASSUME IndInv, NEW t \in Threads, Post(t)
    PROVE  \E i \in SlotIds :
             /\ i <= nslots + 1
             /\ slots[i].state = "Free" /\ slots[i].work = NoWork
             /\ nslots' = IF i > nslots THEN i ELSE nslots
             /\ allocs' = allocs + 1 /\ allocs + 1 \in Works /\ allocs + 1 \notin Accepted
             /\ slots' = [slots EXCEPT ![i] =
                            [generation |-> slots[i].generation + 1,
                             state |-> "Queued", work |-> allocs + 1]]
             /\ free_slots' = [free_slots EXCEPT ![i] = 0]
             /\ queue' = Append(queue, [slot |-> i, generation |-> slots[i].generation + 1])
             /\ ticket' = [ticket EXCEPT ![allocs + 1] =
                             [slot |-> i, generation |-> slots[i].generation + 1]]
             /\ Accepted' = Accepted \cup {allocs + 1}
             /\ queued_count' = queued_count + 1
             /\ UNCHANGED <<open, batch, dpc, drainer, below, owed, calls, disposals, cancelled, life>>
  <1>1. PICK i \in AllocIndices :
          LET w  == allocs + 1
              tk == [slot |-> i, generation |-> NextGeneration(slots[i].generation)]
          IN  /\ TakeSlot(i, "Queued", w)
              /\ free_slots' = [free_slots EXCEPT ![i] = IF @ > 0 THEN @ - 1 ELSE 0]
              /\ queue' = Append(queue, tk)
              /\ ticket' = [ticket EXCEPT ![w] = tk]
    BY DEF Post, CanPost, Enqueued
  <1>2. /\ allocs < MaxAllocs /\ queued_count' = queued_count + 1
        /\ UNCHANGED <<open, batch, dpc, drainer, below, owed, calls, disposals, cancelled, life>>
    BY DEF Post, CanPost, Enqueued, drainVars
  <1>3. allocs + 1 \in Works /\ allocs + 1 \notin Accepted
    <2>1. allocs + 1 \in Works
      BY <1>2, SizeFacts DEF Works
    <2> QED
      BY <2>1, SizeFacts DEF Accepted, IndInv, TicketsExact
  <1>4. /\ i \in SlotIds /\ i <= nslots + 1
        /\ slots[i].state = "Free" /\ slots[i].work = NoWork
        /\ NextGeneration(slots[i].generation) = slots[i].generation + 1
        /\ nslots' = IF i > nslots THEN i ELSE nslots
        /\ allocs' = allocs + 1
        /\ slots' = [slots EXCEPT ![i] =
                       [generation |-> slots[i].generation + 1,
                        state |-> "Queued", work |-> allocs + 1]]
        /\ free_slots[i] = IF i > nslots THEN 0 ELSE 1
    BY <1>1, <1>2, <1>3, AllocFacts
  <1>5. free_slots' = [free_slots EXCEPT ![i] = 0]
    <2>1. (IF free_slots[i] > 0 THEN free_slots[i] - 1 ELSE 0) = 0
      BY <1>4, SizeFacts, SlotFacts
    <2>2. free_slots' = [free_slots EXCEPT ![i] = IF @ > 0 THEN @ - 1 ELSE 0]
      BY <1>1
    <2> QED
      BY <2>1, <2>2
  <1>6. /\ queue' = Append(queue, [slot |-> i, generation |-> slots[i].generation + 1])
        /\ ticket' = [ticket EXCEPT ![allocs + 1] =
                        [slot |-> i, generation |-> slots[i].generation + 1]]
    BY <1>1, <1>4
  <1>7. Accepted' = Accepted \cup {allocs + 1}
    <2>1. [slot |-> i, generation |-> slots[i].generation + 1] # NoTicket
      BY <1>4, DispatcherAssumption DEF NoTicket, SlotIds
    <2> QED
      BY <1>3, <1>6, <2>1 DEF Accepted, IndInv, TypeOK
  <1> QED
    BY <1>2, <1>3, <1>4, <1>5, <1>6, <1>7

LEMMA PostTables ==
    ASSUME IndInv, TypeOK', NEW t \in Threads, Post(t)
    PROVE  TablesExact'
  <1> DEFINE w == allocs + 1
  <1>1. PICK i \in SlotIds :
             /\ i <= nslots + 1
             /\ slots[i].state = "Free" /\ slots[i].work = NoWork
             /\ nslots' = IF i > nslots THEN i ELSE nslots
             /\ allocs' = w /\ w \in Works /\ w \notin Accepted
             /\ slots' = [slots EXCEPT ![i] =
                            [generation |-> slots[i].generation + 1,
                             state |-> "Queued", work |-> w]]
             /\ free_slots' = [free_slots EXCEPT ![i] = 0]
             /\ queue' = Append(queue, [slot |-> i, generation |-> slots[i].generation + 1])
             /\ ticket' = [ticket EXCEPT ![w] =
                             [slot |-> i, generation |-> slots[i].generation + 1]]
             /\ Accepted' = Accepted \cup {w}
             /\ queued_count' = queued_count + 1
             /\ UNCHANGED batch
    BY PostFacts
  <1>2. /\ TypeOK /\ QueueExact /\ BatchExact /\ FreeListExact /\ TicketsExact
        /\ nslots \in Nat /\ nslots' \in Nat /\ i \in Nat \ {0}
        /\ slots[i].generation \in Nat /\ slots[i].generation <= allocs /\ allocs \in Nat
    BY <1>1, SizeFacts, SlotFacts DEF IndInv
  <1>3. /\ slots'[i] = [generation |-> slots[i].generation + 1,
                        state |-> "Queued", work |-> w]
        /\ \A j \in SlotIds : j # i => slots'[j] = slots[j]
        /\ free_slots'[i] = 0
        /\ \A j \in SlotIds : j # i => free_slots'[j] = free_slots[j]
        /\ ticket'[w] = [slot |-> i, generation |-> slots[i].generation + 1]
        /\ \A v \in Works : v # w => ticket'[v] = ticket[v]
    BY <1>1, <1>2 DEF TypeOK
  <1>4. \A j \in 1..nslots' : j \in SlotIds /\ (j # i => j \in 1..nslots)
    BY <1>1, <1>2, SizeFacts DEF SlotIds
  <1>5. \A j \in 1..nslots : j \in 1..nslots' /\ j \in SlotIds
    BY <1>1, <1>2, SizeFacts DEF SlotIds
  <1>6. i \in 1..nslots'
    BY <1>1, <1>2
  <1>7. /\ Len(queue) \in Nat /\ Len(queue') = Len(queue) + 1
        /\ \A k \in 1..Len(queue) : queue'[k] = queue[k] /\ k \in 1..Len(queue')
        /\ queue'[Len(queue) + 1] = [slot |-> i, generation |-> slots[i].generation + 1]
        /\ \A k \in 1..Len(queue') : k \in 1..Len(queue) \/ k = Len(queue) + 1
    BY SMTT(30), <1>1, <1>2 DEF TypeOK
  <1>8. QueueExact'
    <2>1. \A k \in 1..Len(queue) :
            /\ queue[k].slot \in 1..nslots /\ queue[k].slot # i
            /\ IsQueued(queue[k])
      BY <1>1, <1>2 DEF QueueExact, IsQueued
    <2>2. \A k \in 1..Len(queue) : IsQueued(queue[k])'
      BY <2>1, <1>3, <1>5, <1>7 DEF IsQueued
    <2>3. \A k \in 1..Len(queue') : IsQueued(queue[k])'
      BY <1>3, <1>6, <1>7, <2>2 DEF IsQueued
    <2>4. queued_count' = Len(queue')
      BY <1>1, <1>2, <1>7 DEF QueueExact
    <2>5. \A j, k \in 1..Len(queue') : queue'[j].slot = queue'[k].slot => j = k
      <3>1. \A j, k \in 1..Len(queue) : queue[j].slot = queue[k].slot => j = k
        BY <1>2 DEF QueueExact
      <3>2. \A k \in 1..Len(queue) : queue'[k].slot = queue[k].slot /\ queue'[k].slot # i
        BY <1>7, <2>1
      <3>3. queue'[Len(queue) + 1].slot = i
        BY <1>7
      <3> QED
        BY <1>7, <3>1, <3>2, <3>3
    <2>6. ASSUME NEW j \in 1..nslots', slots'[j].state = "Queued"
          PROVE  \E k \in 1..Len(queue') : queue'[k].slot = j
      <3>1. CASE j = i
        BY <1>7, <3>1
      <3>2. CASE j # i
        BY SMTT(30), <1>2, <1>3, <1>4, <1>7, <2>6, <3>2 DEF QueueExact
      <3> QED
        BY <3>1, <3>2
    <2> QED
      BY <2>3, <2>4, <2>5, <2>6 DEF QueueExact
  <1>9. BatchExact'
    <2>1. \A k \in 1..Len(batch) :
            /\ batch[k].ticket.slot \in 1..nslots /\ batch[k].ticket.slot # i
            /\ slots'[batch[k].ticket.slot] = slots[batch[k].ticket.slot]
            /\ IsExecuting(batch[k].ticket)
            /\ slots[batch[k].ticket.slot].work = batch[k].work
      BY <1>1, <1>2, <1>3, <1>5 DEF BatchExact, IsExecuting
    <2>2. \A k \in 1..Len(batch) : IsExecuting(batch[k].ticket)'
      BY <2>1, <1>1, <1>5 DEF IsExecuting
    <2>3. \A j \in 1..nslots' : slots'[j].state = "Executing" =>
              \E k \in 1..Len(batch) : batch[k].ticket.slot = j
      BY <1>2, <1>3, <1>4 DEF BatchExact
    <2> QED
      BY <1>1, <1>2, <2>1, <2>2, <2>3 DEF BatchExact
  <1>10. FreeListExact'
    BY <1>1, <1>2, <1>3, <1>4 DEF FreeListExact
  <1>11. TicketsExact'
    <2>1. nslots' <= allocs'
      BY <1>1, <1>2 DEF TicketsExact
    <2>2. ASSUME NEW j \in SlotIds
          PROVE  /\ slots'[j].generation <= allocs'
                 /\ slots'[j].state = "Free" <=> slots'[j].work = NoWork
                 /\ j > nslots' => slots'[j] = EmptySlot /\ free_slots'[j] = 0
                 /\ slots'[j].state # "Free" =>
                      ticket'[slots'[j].work] = [slot |-> j, generation |-> slots'[j].generation]
      <3>1. CASE j = i
        BY <1>1, <1>2, <1>3, <1>6, <3>1 DEF NoWork, Works
      <3>2. CASE j # i
        <4>1. slots'[j] = slots[j] /\ free_slots'[j] = free_slots[j]
          BY <1>3, <3>2
        <4>2. slots[j].generation <= allocs' /\ (j > nslots' => j > nslots)
          BY <1>1, <1>2, SlotFacts
        <4>3. slots[j].state # "Free" =>
                ticket'[slots[j].work] = [slot |-> j, generation |-> slots[j].generation]
          <5> SUFFICES ASSUME slots[j].state # "Free"
                       PROVE  ticket'[slots[j].work] =
                                [slot |-> j, generation |-> slots[j].generation]
            OBVIOUS
          <5>1. j \in 1..nslots
            BY <1>2, SlotFacts DEF EmptySlot
          <5>2. /\ slots[j].work \in Accepted /\ slots[j].work \in Works
                /\ ticket[slots[j].work] = [slot |-> j, generation |-> slots[j].generation]
            BY <5>1, SlotInUse
          <5> QED
            BY <1>1, <1>3, <5>2
        <4> QED
          BY <4>1, <4>2, <4>3, SlotFacts
      <3> QED
        BY <3>1, <3>2
    <2>3. \A v \in Works : v > allocs' => ticket'[v] = NoTicket
      BY <1>1, <1>2, <1>3 DEF TicketsExact, Works
    <2>4. ASSUME NEW v \in Accepted
          PROVE  /\ v \in Works /\ v # w /\ ticket'[v] = ticket[v]
                 /\ ticket[v] \in Tickets /\ ticket[v].slot <= nslots
                 /\ ticket[v].slot \in SlotIds
                 /\ ticket[v].generation \in Nat /\ slots[ticket[v].slot].generation \in Nat
                 /\ ticket[v].generation <= slots[ticket[v].slot].generation
      <3>1. /\ v \in Works /\ v # w /\ ticket'[v] = ticket[v]
            /\ ticket[v] \in Tickets
        BY <1>1, <1>2, <1>3 DEF Accepted, TypeOK
      <3>2. ticket[v].slot \in SlotIds /\ ticket[v].generation \in Nat
        BY <3>1, DispatcherAssumption DEF Tickets
      <3> QED
        BY <1>2, <3>1, <3>2, SlotFacts DEF TicketsExact
    <2>5. ASSUME NEW v \in Accepted'
          PROVE  /\ ticket'[v].slot <= nslots'
                 /\ ticket'[v].generation <= slots'[ticket'[v].slot].generation
      <3>1. CASE v = w
        BY <1>2, <1>3, <1>6, <3>1
      <3>2. CASE v \in Accepted
        BY SMTT(30), <1>1, <1>2, <1>3, <2>4, <3>2 DEF SlotIds
      <3> QED
        BY <1>1, <3>1, <3>2
    <2>6. ASSUME NEW v \in Accepted', NEW u \in Accepted', ticket'[v] = ticket'[u]
          PROVE  v = u
      <3>1. \A x \in Accepted : ticket'[x] # ticket'[w]
        <4>1. ASSUME NEW x \in Accepted, ticket'[x] = ticket'[w] PROVE FALSE
          BY <1>2, <1>3, <2>4, <4>1
        <4> QED
          BY <4>1
      <3>2. CASE v \in Accepted /\ u \in Accepted
        BY <1>2, <2>4, <2>6, <3>2 DEF TicketsExact
      <3> QED
        BY <1>1, <2>6, <3>1, <3>2
    <2> QED
      BY <2>1, <2>2, <2>3, <2>5, <2>6 DEF TicketsExact
  <1> QED
    BY <1>8, <1>9, <1>10, <1>11 DEF TablesExact

\* Releasing slots in use keeps the free list and the tickets right.
LEMMA ReleasedFacts ==
    ASSUME IndInv, NEW S, Released(S), \A i \in S : i \in 1..nslots /\ slots[i].state # "Free",
           UNCHANGED <<nslots, allocs, ticket>>
    PROVE  /\ FreeListExact' /\ TicketsExact'
           /\ \A i \in S : /\ slots'[i].state = "Free" /\ slots'[i].work = NoWork
                           /\ slots'[i].generation = slots[i].generation
           /\ \A i \in SlotIds : i \notin S => slots'[i] = slots[i]
  <1>1. \A i \in S : i \in SlotIds
    BY SizeFacts
  <1>2. ASSUME NEW i \in SlotIds, i \in S
        PROVE  /\ slots'[i].state = "Free" /\ slots'[i].work = NoWork
               /\ slots'[i].generation = slots[i].generation
               /\ free_slots'[i] = free_slots[i] + 1
    BY <1>2 DEF Released
  <1>4. ASSUME NEW i \in SlotIds, i \notin S
        PROVE  slots'[i] = slots[i] /\ free_slots'[i] = free_slots[i]
    BY <1>4 DEF Released, IndInv, TypeOK
  <1>5. FreeListExact'
    <2>1. ASSUME NEW i \in 1..nslots
          PROVE  free_slots'[i] = IF slots'[i].state = "Free" THEN 1 ELSE 0
      <3>1. i \in SlotIds
        BY SizeFacts
      <3>2. free_slots[i] = IF slots[i].state = "Free" THEN 1 ELSE 0
        BY DEF FreeListExact, IndInv
      <3> QED
        BY <1>2, <1>4, <3>1, <3>2
    <2> QED
      BY <2>1 DEF FreeListExact
  <1>3. TicketsExact'
    <2>1. Accepted' = Accepted
      BY DEF Accepted
    <2>2. ASSUME NEW i \in SlotIds
          PROVE  /\ slots'[i].generation = slots[i].generation
                 /\ slots'[i].state = "Free" <=> slots'[i].work = NoWork
                 /\ i > nslots => slots'[i] = EmptySlot /\ free_slots'[i] = 0
                 /\ slots'[i].state # "Free" =>
                      ticket[slots'[i].work] = [slot |-> i, generation |-> slots'[i].generation]
      <3>1. CASE i \in S
        <4>1. i \in 1..nslots
          BY <3>1
        <4> QED
          BY <1>2, <3>1, <4>1, SizeFacts
      <3>2. CASE i \notin S
        <4>1. slots'[i] = slots[i] /\ free_slots'[i] = free_slots[i]
          BY <1>4, <3>2
        <4>2. slots[i].state # "Free" =>
                ticket[slots[i].work] = [slot |-> i, generation |-> slots[i].generation]
          BY DEF IndInv, TicketsExact
        <4> QED
          BY <4>1, <4>2, SlotFacts
      <3> QED
        BY <3>1, <3>2
    <2>3. \A w \in Accepted : ticket[w].slot \in SlotIds
      BY DEF Accepted, IndInv, TypeOK, Tickets
    <2> QED
      BY <2>1, <2>2, <2>3 DEF TicketsExact, IndInv
  <1> QED
    BY <1>1, <1>2, <1>3, <1>4, <1>5

LEMMA CancelTables ==
    ASSUME IndInv, TypeOK', NEW t \in Threads, NEW w \in Accepted, Cancel(t, w)
    PROVE  TablesExact'
  <1> DEFINE i == ticket[w].slot
  <1>1. PICK k \in 1..Len(queue) :
             /\ Len(queue) \in Nat /\ queued_count' = Len(queue) - 1
             /\ queue[k] = ticket[w]
             /\ Len(queue') = Len(queue) - 1
             /\ \A j \in 1..(Len(queue) - 1) :
                  queue'[j] = IF j < k THEN queue[j] ELSE queue[j + 1]
             /\ i \in 1..nslots
    BY CancelFacts
  <1>2. /\ UNCHANGED <<nslots, allocs, ticket, batch>>
        /\ slots[i].state = "Queued" /\ Released({i})
    BY DEF Cancel, IsQueued, drainVars
  <1>3. /\ FreeListExact' /\ TicketsExact'
        /\ slots'[i].state = "Free"
        /\ \A j \in SlotIds : j # i => slots'[j] = slots[j]
    BY <1>1, <1>2, ReleasedFacts
  <1>4. QueueExact /\ BatchExact /\ \A j \in 1..nslots : j \in SlotIds
    BY SizeFacts DEF IndInv
  <1>5. QueueExact'
    <2>1. ASSUME NEW j \in 1..Len(queue')
          PROVE  \E l \in 1..Len(queue) :
                   l # k /\ queue'[j] = queue[l] /\ l = IF j < k THEN j ELSE j + 1
      BY <1>1
    <2>2. \A l \in 1..Len(queue) : l # k =>
            \E j \in 1..Len(queue') : queue'[j] = queue[l]
      <3> TAKE l \in 1..Len(queue)
      <3> HAVE l # k
      <3>1. CASE l < k
        BY <1>1, <3>1
      <3>2. CASE l > k
        <4>1. l - 1 \in 1..Len(queue') /\ queue'[l - 1] = queue[l]
          BY <1>1, <3>2
        <4> QED
          BY <4>1
      <3> QED
        BY <3>1, <3>2
    <2>3. \A l \in 1..Len(queue) : l # k =>
            /\ queue[l].slot # i /\ queue[l].slot \in 1..nslots
            /\ slots'[queue[l].slot] = slots[queue[l].slot]
            /\ IsQueued(queue[l])
      BY <1>1, <1>3, <1>4 DEF QueueExact, IsQueued
    <2>4. \A j \in 1..Len(queue') : IsQueued(queue[j])'
      BY <1>2, <2>1, <2>3 DEF IsQueued
    <2>5. ASSUME NEW j \in 1..Len(queue'), NEW m \in 1..Len(queue'),
                 queue'[j].slot = queue'[m].slot
          PROVE  j = m
      <3>1. \A x, y \in 1..Len(queue) : queue[x].slot = queue[y].slot => x = y
        BY <1>4 DEF QueueExact
      <3>2. /\ (IF j < k THEN j ELSE j + 1) \in 1..Len(queue)
            /\ (IF m < k THEN m ELSE m + 1) \in 1..Len(queue)
        BY <1>1
      <3>3. (IF j < k THEN j ELSE j + 1) = (IF m < k THEN m ELSE m + 1)
        BY <1>1, <2>5, <3>1, <3>2
      <3> QED
        BY <1>1, <3>3
    <2>6. ASSUME NEW j \in 1..nslots', slots'[j].state = "Queued"
          PROVE  \E m \in 1..Len(queue') : queue'[m].slot = j
      <3>1. j \in 1..nslots /\ j \in SlotIds /\ j # i
        BY <1>2, <1>3, <1>4, <2>6
      <3>2. PICK l \in 1..Len(queue) : queue[l].slot = j
        BY <1>3, <1>4, <2>6, <3>1 DEF QueueExact
      <3>3. l # k
        BY <1>1, <3>1, <3>2
      <3> QED
        BY <2>2, <3>2, <3>3
    <2> QED
      BY <1>1, <2>4, <2>5, <2>6 DEF QueueExact
  <1>6. BatchExact'
    BY SMTT(30), <1>2, <1>3, <1>4 DEF BatchExact, IsExecuting
  <1> QED
    BY <1>3, <1>5, <1>6 DEF TablesExact

\* discard_pending, on its own or inside destroy.
LEMMA DiscardedTables ==
    ASSUME IndInv, NEW t \in Threads, Discarded(t), UNCHANGED <<nslots, allocs, ticket, batch>>
    PROVE  TablesExact'
  <1> DEFINE S == {i \in 1..nslots : slots[i].state = "Queued"}
  <1>1. Released(S) /\ queue' = <<>> /\ queued_count' = 0
    BY DEF Discarded
  <1>2. \A i \in S : i \in 1..nslots /\ slots[i].state # "Free"
    OBVIOUS
  <1>3. \A i \in 1..nslots : i \in SlotIds /\ (slots[i].state = "Queued" <=> i \in S)
    BY SizeFacts
  <1> HIDE DEF S
  <1>4. /\ FreeListExact' /\ TicketsExact'
        /\ \A i \in S : slots'[i].state = "Free"
        /\ \A i \in SlotIds : i \notin S => slots'[i] = slots[i]
    BY <1>1, <1>2, ReleasedFacts
  <1>5. QueueExact'
    BY <1>1, <1>2, <1>3, <1>4 DEF QueueExact
  <1>6. BatchExact'
    BY <1>2, <1>3, <1>4 DEF BatchExact, IsExecuting, IndInv
  <1> QED
    BY <1>4, <1>5, <1>6 DEF TablesExact

LEMMA TakeBatchTables ==
    ASSUME IndInv, TypeOK', NEW limit \in Limits, TakeBatch(limit)
    PROVE  TablesExact'
  <1>1. PICK n \in 0..Len(queue) :
             /\ Len(queue) \in Nat
             /\ Len(batch') = n
             /\ \A k \in 1..n : /\ batch'[k].ticket = queue[k]
                                /\ batch'[k].work = slots[queue[k].slot].work
             /\ Len(queue') = Len(queue) - n
             /\ \A k \in 1..(Len(queue) - n) : queue'[k] = queue[n + k]
             /\ queued_count' = queued_count - n
             /\ slots' = [i \in SlotIds |->
                            IF \E k \in 1..n : queue[k].slot = i
                            THEN [generation |-> slots[i].generation,
                                  state |-> "Executing", work |-> slots[i].work]
                            ELSE slots[i]]
    BY TakeBatchFacts
  <1>2. UNCHANGED <<nslots, free_slots, allocs, ticket>> /\ batch = <<>>
    BY DEF TakeBatch, history, IndInv, DrainExact
  <1>3. /\ QueueExact /\ BatchExact /\ FreeListExact /\ TicketsExact
        /\ \A i \in 1..nslots : i \in SlotIds
    BY SizeFacts DEF IndInv
  <1>4. \A k \in 1..n : k \in 1..Len(queue)
    BY <1>1
  <1>5. \A k \in 1..Len(queue) :
          /\ queue[k].slot \in 1..nslots /\ queue[k].slot \in SlotIds
          /\ slots[queue[k].slot].state = "Queued"
          /\ slots[queue[k].slot].generation = queue[k].generation
    BY <1>3 DEF QueueExact, IsQueued
  <1>6. /\ \A k \in 1..n : slots'[queue[k].slot] =
             [generation |-> slots[queue[k].slot].generation,
              state |-> "Executing", work |-> slots[queue[k].slot].work]
        /\ \A k \in 1..Len(queue) : k > n => slots'[queue[k].slot] = slots[queue[k].slot]
    <2>1. \A j, k \in 1..Len(queue) : queue[j].slot = queue[k].slot => j = k
      BY <1>3 DEF QueueExact
    <2>2. \A k \in 1..Len(queue) : k > n => ~\E j \in 1..n : queue[j].slot = queue[k].slot
      BY <1>1, <1>4, <2>1
    <2> QED
      BY <1>1, <1>4, <1>5, <2>2
  <1>7. ASSUME NEW i \in SlotIds
        PROVE  /\ slots'[i].generation = slots[i].generation /\ slots'[i].work = slots[i].work
               /\ \/ slots'[i] = slots[i] /\ \A k \in 1..n : queue[k].slot # i
                  \/ /\ slots'[i].state = "Executing" /\ slots[i].state = "Queued"
                     /\ i \in 1..nslots
                     /\ \E k \in 1..n : queue[k].slot = i
    BY <1>1, <1>4, <1>5
  <1>8. QueueExact'
    <2>1. \A k \in 1..Len(queue') : n + k \in 1..Len(queue) /\ n + k > n /\ queue'[k] = queue[n + k]
      BY <1>1
    <2>2. \A k \in 1..Len(queue') : IsQueued(queue[k])'
      BY SMTT(30), <1>2, <1>5, <1>6, <2>1 DEF IsQueued
    <2>3. \A j, k \in 1..Len(queue') : queue'[j].slot = queue'[k].slot => j = k
      BY <1>1, <1>3, <2>1 DEF QueueExact
    <2>4. ASSUME NEW i \in 1..nslots', slots'[i].state = "Queued"
          PROVE  \E k \in 1..Len(queue') : queue'[k].slot = i
      <3>1. i \in SlotIds /\ i \in 1..nslots
        BY <1>2, <1>3
      <3>2. slots[i].state = "Queued" /\ \A k \in 1..n : queue[k].slot # i
        BY <1>7, <2>4, <3>1
      <3>3. PICK k \in 1..Len(queue) : queue[k].slot = i
        BY <1>3, <3>1, <3>2 DEF QueueExact
      <3>4. k > n
        BY <1>1, <3>2, <3>3
      <3>5. k - n \in 1..Len(queue') /\ queue'[k - n] = queue[k]
        BY <1>1, <3>4
      <3> QED
        BY <3>3, <3>5
    <2>5. queued_count' = Len(queue')
      BY <1>1, <1>3 DEF QueueExact
    <2> QED
      BY <2>2, <2>3, <2>4, <2>5 DEF QueueExact
  <1>9. BatchExact'
    <2>1. \A k \in 1..Len(batch') : /\ IsExecuting(batch[k].ticket)'
                                    /\ slots'[batch'[k].ticket.slot].work = batch'[k].work
      BY <1>1, <1>2, <1>4, <1>5, <1>6 DEF IsExecuting
    <2>2. \A j, k \in 1..Len(batch') : batch'[j].ticket.slot = batch'[k].ticket.slot => j = k
      BY <1>1, <1>3, <1>4 DEF QueueExact
    <2>3. ASSUME NEW i \in 1..nslots', slots'[i].state = "Executing"
          PROVE  \E k \in 1..Len(batch') : batch'[k].ticket.slot = i
      <3>1. i \in SlotIds /\ i \in 1..nslots
        BY <1>2, <1>3
      <3>2. slots[i].state # "Executing"
        BY <1>2, <1>3, <3>1 DEF BatchExact
      <3>3. PICK k \in 1..n : queue[k].slot = i
        BY <1>7, <2>3, <3>1, <3>2
      <3> QED
        BY <1>1, <3>3
    <2> QED
      BY <2>1, <2>2, <2>3 DEF BatchExact
  <1>10. FreeListExact'
    BY <1>2, <1>3, <1>7 DEF FreeListExact
  <1>11. TicketsExact'
    <2>1. Accepted' = Accepted
      BY <1>2 DEF Accepted
    <2>2. ASSUME NEW i \in SlotIds
          PROVE  /\ slots'[i].generation <= allocs
                 /\ slots'[i].state = "Free" <=> slots'[i].work = NoWork
                 /\ i > nslots => slots'[i] = EmptySlot /\ free_slots[i] = 0
                 /\ slots'[i].state # "Free" =>
                      ticket[slots'[i].work] = [slot |-> i, generation |-> slots'[i].generation]
      <3>1. slots[i].state # "Free" =>
              ticket[slots[i].work] = [slot |-> i, generation |-> slots[i].generation]
        BY <1>3 DEF TicketsExact
      <3>2. CASE slots'[i] = slots[i]
        BY <3>1, <3>2, SlotFacts
      <3>3. CASE slots'[i].state = "Executing" /\ slots[i].state = "Queued" /\ i \in 1..nslots
        BY <1>7, <3>1, <3>3, SlotFacts, SizeFacts
      <3> QED
        BY <1>7, <3>2, <3>3
    <2>3. \A w \in Accepted : ticket[w].slot \in SlotIds
      BY DEF Accepted, IndInv, TypeOK, Tickets
    <2> QED
      BY <1>2, <1>3, <1>7, <2>1, <2>2, <2>3 DEF TicketsExact
  <1> QED
    BY <1>8, <1>9, <1>10, <1>11 DEF TablesExact

LEMMA CompleteFacts ==
    ASSUME IndInv, CompleteCallback
    PROVE  /\ batch # <<>> /\ Len(batch) \in Nat \ {0} /\ batch[1] \in Entries
           /\ IsExecuting(batch[1].ticket)
           /\ slots[batch[1].ticket.slot].work = batch[1].work
           /\ batch[1].work \in Works /\ batch[1].ticket \in Tickets
           /\ Released({batch[1].ticket.slot})
           /\ Len(batch') = Len(batch) - 1
           /\ \A k \in 1..(Len(batch) - 1) : batch'[k] = batch[k + 1]
           /\ drainer \in Threads
           /\ owed' = [owed EXCEPT ![drainer] = @ \cup {batch[1].work}]
  <1>1. batch # <<>> /\ batch \in Seq(Entries) /\ drainer \in Threads
    BY DEF CompleteCallback, IndInv, DrainExact, TypeOK
  <1>2. Len(batch) \in Nat \ {0} /\ batch[1] \in Entries
    BY <1>1, NonEmptyFacts
  <1>3. IsExecuting(batch[1].ticket) /\ slots[batch[1].ticket.slot].work = batch[1].work
    BY <1>2 DEF IndInv, BatchExact
  <1>4. /\ Len(batch') = Len(batch) - 1
        /\ \A k \in 1..(Len(batch) - 1) : batch'[k] = batch[k + 1]
    BY <1>1, NonEmptyFacts DEF CompleteCallback
  <1> QED
    BY <1>1, <1>2, <1>3, <1>4 DEF CompleteCallback, Entries

LEMMA CompleteTables ==
    ASSUME IndInv, CompleteCallback
    PROVE  TablesExact'
  <1> DEFINE i == batch[1].ticket.slot
  <1>1. /\ Len(batch) \in Nat \ {0}
        /\ i \in 1..nslots /\ slots[i].state = "Executing" /\ Released({i})
        /\ Len(batch') = Len(batch) - 1
        /\ \A k \in 1..(Len(batch) - 1) : batch'[k] = batch[k + 1]
    BY CompleteFacts DEF IsExecuting
  <1>2. UNCHANGED <<nslots, allocs, ticket, queue, queued_count>>
    BY DEF CompleteCallback, history
  <1>3. /\ QueueExact /\ BatchExact /\ \A j \in 1..nslots : j \in SlotIds
    BY SizeFacts DEF IndInv
  <1>4. /\ FreeListExact' /\ TicketsExact'
        /\ slots'[i].state = "Free"
        /\ \A j \in SlotIds : j # i => slots'[j] = slots[j]
    BY <1>1, <1>2, ReleasedFacts
  <1>5. QueueExact'
    <2>1. \A k \in 1..Len(queue) : /\ queue[k].slot # i /\ queue[k].slot \in SlotIds
                                   /\ IsQueued(queue[k])
      BY <1>1, <1>3 DEF QueueExact, IsQueued
    <2>2. \A k \in 1..Len(queue) : IsQueued(queue[k])'
      BY <1>2, <1>4, <2>1 DEF IsQueued
    <2> QED
      BY <1>1, <1>2, <1>3, <1>4, <2>2 DEF QueueExact
  <1>6. BatchExact'
    <2>1. \A j, k \in 1..Len(batch) : batch[j].ticket.slot = batch[k].ticket.slot => j = k
      BY <1>3 DEF BatchExact
    <2>2. \A k \in 1..Len(batch') : k + 1 \in 1..Len(batch) /\ k + 1 # 1 /\ batch'[k] = batch[k + 1]
      BY <1>1
    <2>3. ASSUME NEW k \in 1..Len(batch')
          PROVE  /\ IsExecuting(batch[k].ticket)'
                 /\ slots'[batch'[k].ticket.slot].work = batch'[k].work
      <3>1. /\ IsExecuting(batch[k + 1].ticket)
            /\ slots[batch[k + 1].ticket.slot].work = batch[k + 1].work
        BY <1>3, <2>2 DEF BatchExact
      <3>2. batch[k + 1].ticket.slot # i /\ batch[k + 1].ticket.slot \in SlotIds
        <4>1. 1 \in 1..Len(batch)
          BY <1>1
        <4> QED
          BY <1>3, <2>1, <2>2, <3>1, <4>1 DEF IsExecuting
      <3> QED
        BY <1>2, <1>4, <2>2, <3>1, <3>2 DEF IsExecuting
    <2>4. \A j, k \in 1..Len(batch') : batch'[j].ticket.slot = batch'[k].ticket.slot => j = k
      <3> TAKE j, k \in 1..Len(batch')
      <3> HAVE batch'[j].ticket.slot = batch'[k].ticket.slot
      <3>1. j + 1 = k + 1
        BY <2>1, <2>2
      <3> QED
        BY <1>1, <3>1
    <2>5. ASSUME NEW j \in 1..nslots', slots'[j].state = "Executing"
          PROVE  \E k \in 1..Len(batch') : batch'[k].ticket.slot = j
      <3>1. j \in 1..nslots /\ j \in SlotIds /\ j # i
        BY <1>2, <1>3, <1>4, <2>5
      <3>2. PICK l \in 1..Len(batch) : batch[l].ticket.slot = j
        BY <1>3, <1>4, <2>5, <3>1 DEF BatchExact
      <3>3. l - 1 \in 1..Len(batch') /\ batch'[l - 1] = batch[l]
        <4>1. l # 1
          BY <3>1, <3>2
        <4> QED
          BY <1>1, <4>1
      <3> QED
        BY <3>2, <3>3
    <2> QED
      BY <2>3, <2>4, <2>5 DEF BatchExact
  <1> QED
    BY <1>4, <1>5, <1>6 DEF TablesExact

\* The steps that leave the tables alone.
LEMMA NextTables == IndInv /\ TypeOK' /\ [Next]_vars => TablesExact'
  <1> SUFFICES ASSUME IndInv, TypeOK', [Next]_vars PROVE TablesExact'
    OBVIOUS
  <1>0. ASSUME UNCHANGED <<nslots, slots, free_slots, queue, queued_count, batch, allocs, ticket>>
        PROVE  TablesExact'
    BY <1>0 DEF TablesExact, IndInv, QueueExact, IsQueued, BatchExact, IsExecuting,
       FreeListExact, TicketsExact, Accepted
  <1>1. ASSUME NEW t \in Threads, Post(t) PROVE TablesExact'
    BY <1>1, PostTables
  <1>2. ASSUME NEW t \in Threads, PostFails(t) PROVE TablesExact'
    BY <1>2, PostFailsTables
  <1>3. ASSUME NEW t \in Threads, DiscardPending(t) PROVE TablesExact'
    BY <1>3, DiscardedTables DEF DiscardPending, drainVars, history
  <1>4. ASSUME NEW t \in Threads, Close(t) PROVE TablesExact'
    BY <1>0, <1>4 DEF Close, drainVars, history
  <1>5. ASSUME NEW t \in Threads, NEW w \in Accepted, Cancel(t, w) PROVE TablesExact'
    BY <1>5, CancelTables
  <1>6. ASSUME NEW t \in Threads, NEW w \in owed[t], Dispose(t, w) PROVE TablesExact'
    BY <1>0, <1>6 DEF Dispose, core, drainVars
  <1>7. ASSUME NEW t \in Threads, BeginDrain(t) PROVE TablesExact'
    BY <1>0, <1>7 DEF BeginDrain, core, history
  <1>8. ASSUME NEW t \in Threads, DestroyBegin(t) PROVE TablesExact'
    BY <1>0, <1>8 DEF DestroyBegin, drainVars, history
  <1>9. ASSUME NEW limit \in Limits, TakeBatch(limit) PROVE TablesExact'
    BY <1>9, TakeBatchTables
  <1>10. ASSUME RunCallback PROVE TablesExact'
    BY <1>0, <1>10 DEF RunCallback, core
  <1>11. ASSUME CompleteCallback PROVE TablesExact'
    BY <1>11, CompleteTables
  <1>12. ASSUME EndDrain PROVE TablesExact'
    BY <1>0, <1>12 DEF EndDrain, core, history
  <1>13. ASSUME DestroyDiscard PROVE TablesExact'
    <2>1. destroyer \in Threads
      BY <1>13 DEF DestroyDiscard, IndInv, TypeOK, DrainExact
    <2> QED
      BY <1>13, <2>1, DiscardedTables DEF DestroyDiscard, drainVars, history
  <1>14. ASSUME DestroyDelete PROVE TablesExact'
    BY <1>0, <1>14 DEF DestroyDelete, core, drainVars, history
  <1>15. CASE UNCHANGED vars
    BY <1>0, <1>15 DEF vars, core, drainVars, history
  <1> QED
    BY <1>1, <1>2, <1>3, <1>4, <1>5, <1>6, <1>7, <1>8, <1>9, <1>10, <1>11,
       <1>12, <1>13, <1>14, <1>15 DEF Next, Deleted

-----------------------------------------------------------------------------
\* Which works the slots hold, and how each step changes that.

LEMMA SlotWorksFacts ==
    ASSUME IndInv
    PROVE  /\ SlotWorks("Queued") \cap SlotWorks("Executing") = {}
           /\ SlotWorks("Queued") \subseteq Accepted
           /\ SlotWorks("Executing") \subseteq Accepted
           /\ SlotWorks("Executing") = {batch[k].work : k \in 1..Len(batch)}
           /\ \A j, k \in 1..Len(batch) : batch[j].work = batch[k].work => j = k
  <1>1. ASSUME NEW i \in 1..nslots, NEW j \in 1..nslots,
               slots[i].state # "Free", slots[j].state # "Free",
               slots[i].work = slots[j].work
        PROVE  i = j
    <2>1. /\ ticket[slots[i].work] = [slot |-> i, generation |-> slots[i].generation]
          /\ ticket[slots[j].work] = [slot |-> j, generation |-> slots[j].generation]
      BY <1>1, SlotInUse
    <2> QED
      BY <1>1, <2>1
  <1>2. SlotWorks("Queued") \cap SlotWorks("Executing") = {}
    BY <1>1 DEF SlotWorks
  <1>3. SlotWorks("Queued") \subseteq Accepted /\ SlotWorks("Executing") \subseteq Accepted
    BY SlotInUse DEF SlotWorks
  <1>4. \A k \in 1..Len(batch) :
          /\ batch[k].ticket.slot \in 1..nslots
          /\ slots[batch[k].ticket.slot].state = "Executing"
          /\ slots[batch[k].ticket.slot].work = batch[k].work
    BY DEF IndInv, BatchExact, IsExecuting
  <1>5. \A i \in 1..nslots : slots[i].state = "Executing" =>
            \E k \in 1..Len(batch) : batch[k].ticket.slot = i
    BY DEF IndInv, BatchExact
  <1>6. SlotWorks("Executing") = {batch[k].work : k \in 1..Len(batch)}
    BY <1>4, <1>5 DEF SlotWorks
  <1>7. ASSUME NEW j \in 1..Len(batch), NEW k \in 1..Len(batch),
               batch[j].work = batch[k].work
        PROVE  j = k
    <2>1. batch[j].ticket.slot = batch[k].ticket.slot
      BY <1>1, <1>4, <1>7
    <2>2. BatchExact
      BY DEF IndInv
    <2> QED
      BY <2>1, <2>2 DEF BatchExact
  <1> QED
    BY <1>2, <1>3, <1>6, <1>7

LEMMA SlotWorksUnchanged ==
    ASSUME UNCHANGED <<nslots, slots>>
    PROVE  \A s : SlotWorks(s)' = SlotWorks(s)
  BY DEF SlotWorks

LEMMA PostFailsWorks ==
    ASSUME IndInv, NEW t \in Threads, PostFails(t), NEW s \in {"Queued", "Executing"}
    PROVE  SlotWorks(s)' = SlotWorks(s)
  <1>1. PICK i \in AllocIndices : TakeSlot(i, "Free", NoWork)
    BY DEF PostFails, CanPost
  <1>2. /\ i \in SlotIds /\ i <= nslots + 1
        /\ slots[i].state = "Free"
        /\ nslots' = IF i > nslots THEN i ELSE nslots
        /\ slots' = [slots EXCEPT ![i] =
                       [generation |-> slots[i].generation + 1,
                        state |-> "Free", work |-> NoWork]]
    BY <1>1, AllocFacts DEF PostFails, CanPost
  <1>3. /\ slots'[i].state = "Free" /\ \A j \in SlotIds : j # i => slots'[j] = slots[j]
    BY <1>2 DEF IndInv, TypeOK
  <1>4. /\ \A j \in 1..nslots : j \in 1..nslots' /\ j \in SlotIds
        /\ \A j \in 1..nslots' : j \in SlotIds /\ (j # i => j \in 1..nslots)
    BY <1>2, SizeFacts DEF SlotIds
  <1> QED
    BY <1>2, <1>3, <1>4 DEF SlotWorks

LEMMA PostWorks ==
    ASSUME IndInv, NEW t \in Threads, Post(t)
    PROVE  /\ SlotWorks("Queued")' = SlotWorks("Queued") \cup {allocs + 1}
           /\ SlotWorks("Executing")' = SlotWorks("Executing")
  <1>1. PICK i \in SlotIds :
             /\ i <= nslots + 1
             /\ slots[i].state = "Free"
             /\ nslots' = IF i > nslots THEN i ELSE nslots
             /\ slots' = [slots EXCEPT ![i] =
                            [generation |-> slots[i].generation + 1,
                             state |-> "Queued", work |-> allocs + 1]]
    BY PostFacts
  <1>2. /\ slots'[i].state = "Queued" /\ slots'[i].work = allocs + 1
        /\ \A j \in SlotIds : j # i => slots'[j] = slots[j]
    BY <1>1 DEF IndInv, TypeOK
  <1>3. /\ \A j \in 1..nslots : j \in 1..nslots' /\ j \in SlotIds
        /\ \A j \in 1..nslots' : j \in SlotIds /\ (j # i => j \in 1..nslots)
        /\ i \in 1..nslots'
    BY <1>1, SizeFacts DEF SlotIds
  <1>4. SlotWorks("Queued")' = SlotWorks("Queued") \cup {allocs + 1}
    BY <1>1, <1>2, <1>3 DEF SlotWorks
  <1>5. SlotWorks("Executing")' = SlotWorks("Executing")
    BY <1>1, <1>2, <1>3 DEF SlotWorks
  <1> QED
    BY <1>4, <1>5

LEMMA CancelWorks ==
    ASSUME IndInv, NEW t \in Threads, NEW w \in Accepted, Cancel(t, w)
    PROVE  /\ SlotWorks("Queued")' = SlotWorks("Queued") \ {w}
           /\ SlotWorks("Executing")' = SlotWorks("Executing")
           /\ w \in SlotWorks("Queued")
           /\ owed' = [owed EXCEPT ![t] = @ \cup {w}]
  <1> DEFINE i == ticket[w].slot
  <1>1. /\ i \in 1..nslots /\ slots[i].work = w /\ slots[i].state = "Queued"
        /\ Released({i}) /\ UNCHANGED <<nslots, allocs, ticket>>
    BY CancelFacts DEF Cancel, IsQueued
  <1>2. /\ slots'[i].state = "Free"
        /\ \A j \in SlotIds : j # i => slots'[j] = slots[j]
    BY <1>1, ReleasedFacts
  <1>3. \A j \in 1..nslots : j \in SlotIds /\ (slots[j].state # "Free" /\ slots[j].work = w => j = i)
    <2> TAKE j \in 1..nslots
    <2>1. j \in SlotIds
      BY SizeFacts
    <2>2. ASSUME slots[j].state # "Free", slots[j].work = w PROVE j = i
      <3>1. ticket[w] = [slot |-> i, generation |-> slots[i].generation]
        BY <1>1, SlotInUse
      <3>2. ticket[w] = [slot |-> j, generation |-> slots[j].generation]
        BY <2>2, SlotInUse
      <3> HIDE DEF i
      <3> QED
        BY <3>1, <3>2
    <2> QED
      BY <2>1, <2>2
  <1>4. w \in SlotWorks("Queued")
    BY <1>1 DEF SlotWorks
  <1>5. SlotWorks("Queued")' = SlotWorks("Queued") \ {w}
    BY <1>1, <1>2, <1>3 DEF SlotWorks
  <1>6. SlotWorks("Executing")' = SlotWorks("Executing")
    BY <1>1, <1>2, <1>3 DEF SlotWorks
  <1> QED
    BY <1>1, <1>4, <1>5, <1>6 DEF Cancel

LEMMA DiscardedWorks ==
    ASSUME IndInv, NEW t \in Threads, Discarded(t), UNCHANGED <<nslots, allocs, ticket>>
    PROVE  /\ SlotWorks("Queued")' = {}
           /\ SlotWorks("Executing")' = SlotWorks("Executing")
  <1> DEFINE S == {i \in 1..nslots : slots[i].state = "Queued"}
  <1>1. Released(S)
    BY DEF Discarded
  <1>2. \A i \in S : i \in 1..nslots /\ slots[i].state # "Free"
    OBVIOUS
  <1>3. \A i \in 1..nslots : i \in SlotIds /\ (slots[i].state = "Queued" <=> i \in S)
    BY SizeFacts
  <1> HIDE DEF S
  <1>4. /\ \A i \in S : slots'[i].state = "Free"
        /\ \A i \in SlotIds : i \notin S => slots'[i] = slots[i]
    BY <1>1, <1>2, ReleasedFacts
  <1>5. SlotWorks("Queued")' = {}
    BY <1>3, <1>4 DEF SlotWorks
  <1>6. SlotWorks("Executing")' = SlotWorks("Executing")
    BY <1>3, <1>4 DEF SlotWorks
  <1> QED
    BY <1>5, <1>6

LEMMA TakeBatchWorks ==
    ASSUME IndInv, NEW limit \in Limits, TakeBatch(limit)
    PROVE  /\ SlotWorks("Queued") \cup SlotWorks("Executing") =
                SlotWorks("Queued")' \cup SlotWorks("Executing")'
           /\ SlotWorks("Queued")' \subseteq SlotWorks("Queued")
           /\ \A k \in 1..Len(batch') : batch'[k].work \in SlotWorks("Queued")
  <1>1. PICK n \in 0..Len(queue) :
             /\ Len(queue) \in Nat
             /\ Len(batch') = n
             /\ \A k \in 1..n : batch'[k].work = slots[queue[k].slot].work
             /\ slots' = [i \in SlotIds |->
                            IF \E k \in 1..n : queue[k].slot = i
                            THEN [generation |-> slots[i].generation,
                                  state |-> "Executing", work |-> slots[i].work]
                            ELSE slots[i]]
    BY TakeBatchFacts
  <1>2. \A k \in 1..n : /\ queue[k].slot \in 1..nslots
                        /\ slots[queue[k].slot].state = "Queued"
    BY <1>1 DEF IndInv, QueueExact, IsQueued
  <1>3. \A i \in 1..nslots :
          /\ slots'[i].work = slots[i].work
          /\ \/ slots'[i].state = slots[i].state
             \/ slots'[i].state = "Executing" /\ slots[i].state = "Queued"
    BY <1>1, <1>2, SizeFacts
  <1>4. nslots' = nslots
    BY DEF TakeBatch
  <1>5. /\ SlotWorks("Queued") \cup SlotWorks("Executing") \subseteq
             SlotWorks("Queued")' \cup SlotWorks("Executing")'
        /\ SlotWorks("Queued")' \subseteq SlotWorks("Queued")
    BY <1>3, <1>4 DEF SlotWorks
  <1>6. SlotWorks("Executing")' \subseteq SlotWorks("Queued") \cup SlotWorks("Executing")
    BY <1>3, <1>4 DEF SlotWorks
  <1>7. \A k \in 1..Len(batch') : batch'[k].work \in SlotWorks("Queued")
    BY <1>1, <1>2 DEF SlotWorks
  <1> QED
    BY <1>5, <1>6, <1>7

LEMMA CompleteWorks ==
    ASSUME IndInv, CompleteCallback
    PROVE  /\ SlotWorks("Queued")' = SlotWorks("Queued")
           /\ SlotWorks("Executing")' = SlotWorks("Executing") \ {batch[1].work}
           /\ batch[1].work \in SlotWorks("Executing")
  <1> DEFINE i == batch[1].ticket.slot
             w == batch[1].work
  <1>1. /\ i \in 1..nslots /\ slots[i].work = w /\ slots[i].state = "Executing"
        /\ Released({i}) /\ UNCHANGED <<nslots, allocs, ticket>>
    BY CompleteFacts DEF CompleteCallback, IsExecuting, history
  <1>2. /\ slots'[i].state = "Free"
        /\ \A j \in SlotIds : j # i => slots'[j] = slots[j]
    BY <1>1, ReleasedFacts
  <1>3. \A j \in 1..nslots : j \in SlotIds /\ (slots[j].state # "Free" /\ slots[j].work = w => j = i)
    <2> TAKE j \in 1..nslots
    <2>1. j \in SlotIds
      BY SizeFacts
    <2>2. ASSUME slots[j].state # "Free", slots[j].work = w PROVE j = i
      <3>1. ticket[w] = [slot |-> i, generation |-> slots[i].generation]
        BY <1>1, SlotInUse
      <3>2. ticket[w] = [slot |-> j, generation |-> slots[j].generation]
        BY <2>2, SlotInUse
      <3> QED
        BY <3>1, <3>2
    <2> QED
      BY <2>1, <2>2
  <1> HIDE DEF i, w
  <1>4. SlotWorks("Queued")' = SlotWorks("Queued")
    BY <1>1, <1>2, <1>3 DEF SlotWorks
  <1>5. SlotWorks("Executing")' = SlotWorks("Executing") \ {w} /\ w \in SlotWorks("Executing")
    BY <1>1, <1>2, <1>3 DEF SlotWorks
  <1> QED
    BY <1>4, <1>5 DEF w

-----------------------------------------------------------------------------
\* Who owns a payload: a slot, a thread about to dispose it, or nobody.

Owned == DisposedExactlyOnce /\ OwnedWasAccepted
InSlots == SlotWorks("Queued") \cup SlotWorks("Executing")

LEMMA OwnedUnchanged ==
    ASSUME IndInv, InSlots' = InSlots, Accepted' = Accepted,
           UNCHANGED <<owed, disposals>>,
           \A w \in Works : calls'[w] # calls[w] => w \in Accepted
    PROVE  Owned'
  <1>1. Held' = Held
    BY DEF Held, InSlots
  <1> QED
    BY <1>1 DEF Owned, DisposedExactlyOnce, OwnedWasAccepted, IndInv, InSlots

\* The works of W leave their slots and thread t owes their disposal.
LEMMA OwnedMove ==
    ASSUME IndInv, NEW t \in Threads, NEW W, W \subseteq InSlots, InSlots' = InSlots \ W,
           owed' = [owed EXCEPT ![t] = @ \cup W],
           Accepted' = Accepted, UNCHANGED <<disposals, calls>>
    PROVE  Owned'
  <1>1. /\ owed'[t] = owed[t] \cup W
        /\ \A u \in Threads : u # t => owed'[u] = owed[u]
    BY DEF IndInv, TypeOK
  <1>2. /\ \A u, v \in Threads : u # v => owed[u] \cap owed[v] = {}
        /\ \A u \in Threads : owed[u] \cap InSlots = {}
        /\ \A u \in Threads : owed[u] \subseteq Accepted
    BY DEF IndInv, DisposedExactlyOnce, OwnedWasAccepted, InSlots
  <1>3. Held' = Held
    <2>1. Held = InSlots \cup UNION {owed[u] : u \in Threads}
      BY DEF Held, InSlots
    <2>2. Held' = InSlots' \cup UNION {owed'[u] : u \in Threads}
      BY DEF Held, InSlots
    <2> QED
      BY <1>1, <2>1, <2>2
  <1>4. InSlots \subseteq Accepted
    BY SlotWorksFacts DEF InSlots
  <1>5. \A u, v \in Threads : u # v => owed'[u] \cap owed'[v] = {}
    BY <1>1, <1>2
  <1>6. \A u \in Threads : owed'[u] \cap InSlots' = {}
    BY <1>1, <1>2
  <1>7. \A u \in Threads : owed'[u] \subseteq Accepted'
    BY <1>1, <1>2, <1>4
  <1> QED
    BY <1>3, <1>5, <1>6, <1>7
    DEF Owned, DisposedExactlyOnce, OwnedWasAccepted, IndInv, InSlots

LEMMA OwnedPost ==
    ASSUME IndInv, NEW t \in Threads, Post(t)
    PROVE  Owned'
  <1> DEFINE w == allocs + 1
  <1>1. /\ w \in Works /\ w \notin Accepted /\ Accepted' = Accepted \cup {w}
        /\ UNCHANGED <<owed, disposals, calls>>
    BY PostFacts
  <1>2. InSlots' = InSlots \cup {w}
    BY PostWorks DEF InSlots
  <1> HIDE DEF w
  <1>3. /\ Held = InSlots \cup UNION {owed[u] : u \in Threads}
        /\ Held' = InSlots' \cup UNION {owed[u] : u \in Threads}
    BY <1>1 DEF Held, InSlots
  <1>4. Held' = Held \cup {w}
    BY <1>2, <1>3
  <1>5. /\ \A u \in Threads : owed[u] \cap InSlots = {} /\ owed[u] \subseteq Accepted
        /\ \A u, v \in Threads : u # v => owed[u] \cap owed[v] = {}
        /\ \A v \in Works : disposals[v] = IF v \in Accepted /\ v \notin Held THEN 1 ELSE 0
        /\ \A v \in Works : v \notin Accepted => calls[v] = 0
    BY DEF IndInv, DisposedExactlyOnce, OwnedWasAccepted, InSlots
  <1>6. \A u \in Threads : owed[u] \cap InSlots' = {} /\ owed[u] \subseteq Accepted'
    BY <1>1, <1>2, <1>5
  <1>7. \A v \in Works : disposals[v] = IF v \in Accepted' /\ v \notin Held' THEN 1 ELSE 0
    BY <1>1, <1>4, <1>5
  <1> QED
    BY <1>1, <1>5, <1>6, <1>7 DEF Owned, DisposedExactlyOnce, OwnedWasAccepted, InSlots

LEMMA OwnedDispose ==
    ASSUME IndInv, NEW t \in Threads, NEW w \in owed[t], Dispose(t, w)
    PROVE  Owned'
  <1>1. /\ UNCHANGED <<slots, nslots, ticket, calls>>
        /\ owed' = [owed EXCEPT ![t] = @ \ {w}]
        /\ disposals' = [disposals EXCEPT ![w] = @ + 1]
    BY DEF Dispose, core
  <1>2. InSlots' = InSlots /\ Accepted' = Accepted
    BY <1>1, SlotWorksUnchanged DEF InSlots, Accepted
  <1>3. /\ owed'[t] = owed[t] \ {w} /\ \A u \in Threads : u # t => owed'[u] = owed[u]
        /\ w \in Works /\ disposals'[w] = disposals[w] + 1
        /\ \A v \in Works : v # w => disposals'[v] = disposals[v]
    BY <1>1 DEF IndInv, TypeOK
  <1>4. /\ \A u \in Threads : owed[u] \cap InSlots = {} /\ owed[u] \subseteq Accepted
        /\ \A u, v \in Threads : u # v => owed[u] \cap owed[v] = {}
        /\ \A v \in Works : disposals[v] = IF v \in Accepted /\ v \notin Held THEN 1 ELSE 0
        /\ \A v \in Works : v \notin Accepted => calls[v] = 0
    BY DEF IndInv, DisposedExactlyOnce, OwnedWasAccepted, InSlots
  <1>5. /\ Held = InSlots \cup UNION {owed[u] : u \in Threads}
        /\ Held' = InSlots \cup UNION {owed'[u] : u \in Threads}
    BY <1>2 DEF Held, InSlots
  <1>6. w \in Held /\ w \in Accepted /\ w \notin InSlots
    BY <1>4, <1>5
  <1>7. \A u \in Threads : w \notin owed'[u]
    BY <1>3, <1>4
  <1>8. Held' = Held \ {w}
    BY <1>3, <1>5, <1>6, <1>7
  <1>9. /\ \A u \in Threads : owed'[u] \cap InSlots = {} /\ owed'[u] \subseteq Accepted
        /\ \A u, v \in Threads : u # v => owed'[u] \cap owed'[v] = {}
    BY <1>3, <1>4
  <1>10. \A v \in Works : disposals'[v] = IF v \in Accepted /\ v \notin Held' THEN 1 ELSE 0
    BY <1>3, <1>4, <1>6, <1>8
  <1> QED
    BY <1>1, <1>2, <1>4, <1>9, <1>10 DEF Owned, DisposedExactlyOnce, OwnedWasAccepted, InSlots

LEMMA NextOwned == IndInv /\ [Next]_vars => Owned'
  <1> SUFFICES ASSUME IndInv, [Next]_vars PROVE Owned'
    OBVIOUS
  <1>0. ASSUME UNCHANGED <<nslots, slots, ticket, owed, disposals, calls>>
        PROVE  Owned'
    <2>1. InSlots' = InSlots /\ Accepted' = Accepted
      BY <1>0, SlotWorksUnchanged DEF InSlots, Accepted
    <2> QED
      BY <1>0, <2>1, OwnedUnchanged
  <1>1. ASSUME NEW t \in Threads, Post(t) PROVE Owned'
    BY <1>1, OwnedPost
  <1>2. ASSUME NEW t \in Threads, PostFails(t) PROVE Owned'
    <2>1. InSlots' = InSlots
      BY <1>2, PostFailsWorks DEF InSlots
    <2> QED
      BY <1>2, <2>1, OwnedUnchanged DEF PostFails, CanPost, Accepted
  <1>3. ASSUME NEW t \in Threads, DiscardPending(t) PROVE Owned'
    <2>1. UNCHANGED <<nslots, allocs, ticket, calls, disposals>> /\ Discarded(t)
      BY <1>3 DEF DiscardPending, history
    <2>2. InSlots' = InSlots \ SlotWorks("Queued")
      BY <2>1, DiscardedWorks, SlotWorksFacts DEF InSlots
    <2>3. Accepted' = Accepted /\ owed' = [owed EXCEPT ![t] = @ \cup SlotWorks("Queued")]
      BY <2>1 DEF Discarded, Accepted
    <2> QED
      BY <2>1, <2>2, <2>3, OwnedMove DEF InSlots
  <1>4. ASSUME NEW t \in Threads, Close(t) PROVE Owned'
    BY <1>0, <1>4 DEF Close, history
  <1>5. ASSUME NEW t \in Threads, NEW w \in Accepted, Cancel(t, w) PROVE Owned'
    <2>1. UNCHANGED <<ticket, calls, disposals>>
      BY <1>5 DEF Cancel
    <2>2. InSlots' = InSlots \ {w} /\ {w} \subseteq InSlots
      BY <1>5, CancelWorks, SlotWorksFacts DEF InSlots
    <2>3. Accepted' = Accepted /\ owed' = [owed EXCEPT ![t] = @ \cup {w}]
      BY <1>5, <2>1, CancelWorks DEF Accepted
    <2> QED
      BY <2>1, <2>2, <2>3, OwnedMove
  <1>6. ASSUME NEW t \in Threads, NEW w \in owed[t], Dispose(t, w) PROVE Owned'
    BY <1>6, OwnedDispose
  <1>7. ASSUME NEW t \in Threads, BeginDrain(t) PROVE Owned'
    BY <1>0, <1>7 DEF BeginDrain, core, history
  <1>8. ASSUME NEW t \in Threads, DestroyBegin(t) PROVE Owned'
    BY <1>0, <1>8 DEF DestroyBegin, history
  <1>9. ASSUME NEW limit \in Limits, TakeBatch(limit) PROVE Owned'
    BY <1>9, TakeBatchWorks, OwnedUnchanged DEF InSlots, TakeBatch, history, Accepted
  <1>10. ASSUME RunCallback PROVE Owned'
    <2>1. UNCHANGED <<nslots, slots, ticket, owed, disposals>>
      BY <1>10 DEF RunCallback, core
    <2>2. InSlots' = InSlots /\ Accepted' = Accepted
      BY <2>1, SlotWorksUnchanged DEF InSlots, Accepted
    <2>3. batch[1].work \in Accepted
      <3>1. batch # <<>> /\ batch \in Seq(Entries)
        BY <1>10 DEF RunCallback, IndInv, TypeOK
      <3>2. 1 \in 1..Len(batch)
        BY <3>1, NonEmptyFacts
      <3> QED
        BY <3>2, SlotWorksFacts
    <2>4. \A w \in Works : calls'[w] # calls[w] => w \in Accepted
      BY <1>10, <2>3 DEF RunCallback, IndInv, TypeOK
    <2> QED
      BY <2>1, <2>2, <2>4, OwnedUnchanged
  <1>11. ASSUME CompleteCallback PROVE Owned'
    <2> DEFINE w == batch[1].work
    <2>1. UNCHANGED <<ticket, calls, disposals>> /\ drainer \in Threads
          /\ owed' = [owed EXCEPT ![drainer] = @ \cup {w}]
      BY <1>11, CompleteFacts DEF CompleteCallback, history
    <2>2. InSlots' = InSlots \ {w} /\ {w} \subseteq InSlots
      BY <1>11, CompleteWorks, SlotWorksFacts DEF InSlots
    <2>3. Accepted' = Accepted
      BY <2>1 DEF Accepted
    <2> QED
      BY <2>1, <2>2, <2>3, OwnedMove
  <1>12. ASSUME EndDrain PROVE Owned'
    BY <1>0, <1>12 DEF EndDrain, core, history
  <1>13. ASSUME DestroyDiscard PROVE Owned'
    <2>0. destroyer \in Threads
      BY <1>13 DEF DestroyDiscard, IndInv, TypeOK, DrainExact
    <2>1. UNCHANGED <<nslots, allocs, ticket, calls, disposals>> /\ Discarded(destroyer)
      BY <1>13 DEF DestroyDiscard, history
    <2>2. InSlots' = InSlots \ SlotWorks("Queued")
      BY <2>0, <2>1, DiscardedWorks, SlotWorksFacts DEF InSlots
    <2>3. Accepted' = Accepted /\ owed' = [owed EXCEPT ![destroyer] = @ \cup SlotWorks("Queued")]
      BY <2>1 DEF Discarded, Accepted
    <2> QED
      BY <2>0, <2>1, <2>2, <2>3, OwnedMove DEF InSlots
  <1>14. ASSUME DestroyDelete PROVE Owned'
    BY <1>0, <1>14 DEF DestroyDelete, core, history
  <1>15. CASE UNCHANGED vars
    BY <1>0, <1>15 DEF vars, core, history
  <1> QED
    BY <1>1, <1>2, <1>3, <1>4, <1>5, <1>6, <1>7, <1>8, <1>9, <1>10, <1>11,
       <1>12, <1>13, <1>14, <1>15 DEF Next, Deleted

-----------------------------------------------------------------------------
\* The drain's own state, and how often each work was called.

LEMMA NextDrain == IndInv /\ [Next]_vars => DrainExact'
  <1> SUFFICES ASSUME IndInv, [Next]_vars PROVE DrainExact'
    OBVIOUS
  <1> USE DispatcherAssumption
  <1>0. DrainExact /\ TypeOK
    BY DEF IndInv
  <1>1. ASSUME NEW t \in Threads, Post(t) PROVE DrainExact'
    BY <1>0, <1>1 DEF Post, CanPost, Enqueued, DrainExact, drainVars, life
  <1>2. ASSUME NEW t \in Threads, PostFails(t) PROVE DrainExact'
    BY <1>0, <1>2 DEF PostFails, CanPost, DrainExact, drainVars, life
  <1>3. ASSUME NEW t \in Threads, DiscardPending(t) PROVE DrainExact'
    BY <1>0, <1>3 DEF DiscardPending, Discarded, DrainExact, drainVars, life, TypeOK
  <1>4. ASSUME NEW t \in Threads, Close(t) PROVE DrainExact'
    BY <1>0, <1>4 DEF Close, DrainExact, drainVars, life
  <1>5. ASSUME NEW t \in Threads, NEW w \in Accepted, Cancel(t, w) PROVE DrainExact'
    BY <1>0, <1>5 DEF Cancel, DrainExact, drainVars, life, TypeOK
  <1>6. ASSUME NEW t \in Threads, NEW w \in owed[t], Dispose(t, w) PROVE DrainExact'
    BY <1>0, <1>6 DEF Dispose, DrainExact, drainVars, life, TypeOK
  <1>7. ASSUME NEW t \in Threads, BeginDrain(t) PROVE DrainExact'
    BY <1>0, <1>7 DEF BeginDrain, DrainExact, life
  <1>8. ASSUME NEW t \in Threads, DestroyBegin(t) PROVE DrainExact'
    BY <1>0, <1>8 DEF DestroyBegin, DrainExact, drainVars
  <1>9. ASSUME NEW limit \in Limits, TakeBatch(limit) PROVE DrainExact'
    BY <1>0, <1>9 DEF TakeBatch, DrainExact, life
  <1>10. ASSUME RunCallback PROVE DrainExact'
    BY <1>0, <1>10 DEF RunCallback, DrainExact, life
  <1>11. ASSUME CompleteCallback PROVE DrainExact'
    BY <1>0, <1>11, CompleteFacts DEF CompleteCallback, DrainExact, life, TypeOK
  <1>12. ASSUME EndDrain PROVE DrainExact'
    BY <1>0, <1>12 DEF EndDrain, DrainExact, life
  <1>13. ASSUME DestroyDiscard PROVE DrainExact'
    BY <1>0, <1>13 DEF DestroyDiscard, Discarded, DrainExact, drainVars
  <1>14. ASSUME DestroyDelete PROVE DrainExact'
    BY <1>0, <1>14 DEF DestroyDelete, DrainExact, drainVars
  <1>15. CASE UNCHANGED vars
    BY <1>0, <1>15 DEF vars, DrainExact, drainVars, life
  <1> QED
    BY <1>1, <1>2, <1>3, <1>4, <1>5, <1>6, <1>7, <1>8, <1>9, <1>10, <1>11,
       <1>12, <1>13, <1>14, <1>15 DEF Next, Deleted

Called == CancelledNeverRuns /\ CalledAtMostOnce

\* Nothing is called, and the slots gain no work that was called or cancelled.
LEMMA CalledUnchanged ==
    ASSUME IndInv, UNCHANGED <<batch, calls, cancelled>>,
           dpc' = "calling" <=> dpc = "calling",
           Accepted \subseteq Accepted', InSlots' \subseteq InSlots \cup (Works \ Accepted),
           SlotWorks("Queued")' \subseteq SlotWorks("Queued") \cup (Works \ Accepted)
    PROVE  Called'
  <1>1. /\ cancelled \subseteq Accepted
        /\ \A w \in cancelled : calls[w] = 0 /\ w \notin InSlots
        /\ \A w \in Works : calls[w] <= 1
        /\ \A w \in SlotWorks("Queued") : calls[w] = 0
        /\ \A k \in 1..Len(batch) :
             calls[batch[k].work] = IF k = 1 /\ dpc = "calling" THEN 1 ELSE 0
        /\ \A w \in Works : w \notin Accepted => calls[w] = 0
    BY DEF IndInv, CancelledNeverRuns, CalledAtMostOnce, OwnedWasAccepted, InSlots
  <1>2. CancelledNeverRuns'
    BY <1>1 DEF CancelledNeverRuns, InSlots
  <1>3. CalledAtMostOnce'
    BY <1>1 DEF CalledAtMostOnce
  <1> QED
    BY <1>2, <1>3 DEF Called

LEMMA NextCalled == IndInv /\ [Next]_vars => Called'
  <1> SUFFICES ASSUME IndInv, [Next]_vars PROVE Called'
    OBVIOUS
  <1>a. /\ cancelled \subseteq Accepted
        /\ \A w \in cancelled : calls[w] = 0 /\ w \notin InSlots
        /\ \A w \in Works : calls[w] <= 1
        /\ \A w \in SlotWorks("Queued") : calls[w] = 0
        /\ \A k \in 1..Len(batch) :
             calls[batch[k].work] = IF k = 1 /\ dpc = "calling" THEN 1 ELSE 0
    BY DEF IndInv, CancelledNeverRuns, CalledAtMostOnce, InSlots
  <1>0. ASSUME UNCHANGED <<nslots, slots, ticket, batch, calls, cancelled>>,
               dpc' = "calling" <=> dpc = "calling"
        PROVE  Called'
    <2>1. InSlots' = InSlots /\ Accepted' = Accepted
          /\ SlotWorks("Queued")' = SlotWorks("Queued")
      BY <1>0, SlotWorksUnchanged DEF InSlots, Accepted
    <2> QED
      BY <1>0, <2>1, CalledUnchanged
  <1>1. ASSUME NEW t \in Threads, Post(t) PROVE Called'
    <2>1. /\ UNCHANGED <<batch, calls, cancelled, dpc>>
          /\ allocs + 1 \in Works \ Accepted /\ Accepted \subseteq Accepted'
      BY <1>1, PostFacts
    <2>2. /\ SlotWorks("Queued")' = SlotWorks("Queued") \cup {allocs + 1}
          /\ InSlots' = InSlots \cup {allocs + 1}
      BY <1>1, PostWorks DEF InSlots
    <2> QED
      BY <2>1, <2>2, CalledUnchanged
  <1>2. ASSUME NEW t \in Threads, PostFails(t) PROVE Called'
    <2>1. SlotWorks("Queued")' = SlotWorks("Queued") /\ InSlots' = InSlots
      BY <1>2, PostFailsWorks DEF InSlots
    <2>2. UNCHANGED <<batch, calls, cancelled, dpc>> /\ Accepted' = Accepted
      BY <1>2 DEF PostFails, CanPost, drainVars, Accepted
    <2> QED
      BY <2>1, <2>2, CalledUnchanged
  <1>3. ASSUME NEW t \in Threads, DiscardPending(t) PROVE Called'
    <2>1. UNCHANGED <<nslots, allocs, ticket, batch, calls, cancelled, dpc>> /\ Discarded(t)
      BY <1>3 DEF DiscardPending, history, drainVars
    <2>2. SlotWorks("Queued")' = {} /\ InSlots' \subseteq InSlots
      BY <2>1, DiscardedWorks DEF InSlots
    <2> QED
      BY <2>1, <2>2, CalledUnchanged DEF Accepted
  <1>4. ASSUME NEW t \in Threads, Close(t) PROVE Called'
    BY <1>0, <1>4 DEF Close, drainVars, history
  <1>5. ASSUME NEW t \in Threads, NEW w \in Accepted, Cancel(t, w) PROVE Called'
    <2>1. /\ UNCHANGED <<batch, calls, dpc, ticket>> /\ cancelled' = cancelled \cup {w}
          /\ Accepted' = Accepted
      BY <1>5 DEF Cancel, drainVars, Accepted
    <2>2. /\ SlotWorks("Queued")' = SlotWorks("Queued") \ {w}
          /\ SlotWorks("Executing")' = SlotWorks("Executing")
          /\ w \in SlotWorks("Queued")
      BY <1>5, CancelWorks
    <2>3. InSlots' \subseteq InSlots /\ w \notin InSlots'
      BY <2>2, SlotWorksFacts DEF InSlots
    <2>4. CancelledNeverRuns'
      BY <1>a, <2>1, <2>2, <2>3 DEF CancelledNeverRuns, InSlots
    <2>5. CalledAtMostOnce'
      BY <1>a, <2>1, <2>2 DEF CalledAtMostOnce
    <2> QED
      BY <2>4, <2>5 DEF Called
  <1>6. ASSUME NEW t \in Threads, NEW w \in owed[t], Dispose(t, w) PROVE Called'
    BY <1>0, <1>6 DEF Dispose, core, drainVars
  <1>7. ASSUME NEW t \in Threads, BeginDrain(t) PROVE Called'
    BY <1>0, <1>7 DEF BeginDrain, core, history, IndInv, DrainExact
  <1>8. ASSUME NEW t \in Threads, DestroyBegin(t) PROVE Called'
    BY <1>0, <1>8 DEF DestroyBegin, drainVars, history
  <1>9. ASSUME NEW limit \in Limits, TakeBatch(limit) PROVE Called'
    <2>1. UNCHANGED <<calls, cancelled, ticket>> /\ dpc' = "next" /\ Accepted' = Accepted
      BY <1>9 DEF TakeBatch, history, Accepted
    <2>2. /\ InSlots' = InSlots
          /\ SlotWorks("Queued")' \subseteq SlotWorks("Queued")
          /\ \A k \in 1..Len(batch') : batch'[k].work \in SlotWorks("Queued")
      BY <1>9, TakeBatchWorks DEF InSlots
    <2>3. CancelledNeverRuns'
      BY <1>a, <2>1, <2>2 DEF CancelledNeverRuns, InSlots
    <2>4. CalledAtMostOnce'
      BY <1>a, <2>1, <2>2 DEF CalledAtMostOnce
    <2> QED
      BY <2>3, <2>4 DEF Called
  <1>10. ASSUME RunCallback PROVE Called'
    <2> DEFINE w == batch[1].work
    <2>1. UNCHANGED <<nslots, slots, ticket, batch, cancelled>>
          /\ dpc = "next" /\ dpc' = "calling"
          /\ calls' = [calls EXCEPT ![w] = @ + 1]
      BY <1>10 DEF RunCallback, core
    <2>2. InSlots' = InSlots /\ Accepted' = Accepted
          /\ SlotWorks("Queued")' = SlotWorks("Queued")
      BY <2>1, SlotWorksUnchanged DEF InSlots, Accepted
    <2>3. /\ 1 \in 1..Len(batch) /\ Len(batch) \in Nat
      <3>1. batch # <<>> /\ batch \in Seq(Entries)
        BY <1>10 DEF RunCallback, IndInv, TypeOK
      <3> QED
        BY <3>1, NonEmptyFacts
    <2>4. /\ w \in SlotWorks("Executing") /\ w \in Works
          /\ w \notin SlotWorks("Queued") /\ w \in InSlots
          /\ \A k \in 1..Len(batch) : batch[k].work = w => k = 1
          /\ \A k \in 1..Len(batch) : batch[k].work \in Works
      BY <2>3, SlotWorksFacts DEF InSlots, Accepted
    <2>5. calls[w] = 0
      BY <1>a, <2>1, <2>3
    <2> HIDE DEF w
    <2>6. calls'[w] = 1 /\ \A v \in Works : v # w => calls'[v] = calls[v]
      BY <2>1, <2>4, <2>5 DEF IndInv, TypeOK
    <2>7. CancelledNeverRuns'
      BY <1>a, <2>1, <2>2, <2>4, <2>6 DEF CancelledNeverRuns, InSlots, Accepted
    <2>8. \A v \in Works : calls'[v] <= 1
      BY <1>a, <2>6
    <2>9. \A v \in SlotWorks("Queued") : calls'[v] = 0
      BY <1>a, <2>4, <2>6, SlotWorksFacts DEF Accepted
    <2>10. \A k \in 1..Len(batch) :
             calls'[batch[k].work] = IF k = 1 THEN 1 ELSE 0
      BY <1>a, <2>1, <2>3, <2>4, <2>6 DEF w
    <2> QED
      BY <2>1, <2>2, <2>7, <2>8, <2>9, <2>10 DEF Called, CalledAtMostOnce
  <1>11. ASSUME CompleteCallback PROVE Called'
    <2>1. UNCHANGED <<calls, cancelled, ticket>> /\ dpc' = "next" /\ Accepted' = Accepted
      BY <1>11 DEF CompleteCallback, history, Accepted
    <2>2. SlotWorks("Queued")' = SlotWorks("Queued") /\ InSlots' \subseteq InSlots
      BY <1>11, CompleteWorks DEF InSlots
    <2>3. /\ Len(batch) \in Nat \ {0} /\ Len(batch') = Len(batch) - 1
          /\ \A k \in 1..(Len(batch) - 1) : batch'[k] = batch[k + 1]
      BY <1>11, CompleteFacts
    <2>4. CancelledNeverRuns'
      BY <1>a, <2>1, <2>2 DEF CancelledNeverRuns, InSlots
    <2>5. \A k \in 1..Len(batch') : calls[batch'[k].work] = 0
      BY <1>a, <2>3
    <2>6. CalledAtMostOnce'
      BY <1>a, <2>1, <2>2, <2>5 DEF CalledAtMostOnce
    <2> QED
      BY <2>4, <2>6 DEF Called
  <1>12. ASSUME EndDrain PROVE Called'
    BY <1>0, <1>12 DEF EndDrain, core, history
  <1>13. ASSUME DestroyDiscard PROVE Called'
    <2>0. destroyer \in Threads
      BY <1>13 DEF DestroyDiscard, IndInv, TypeOK, DrainExact
    <2>1. UNCHANGED <<nslots, allocs, ticket, batch, calls, cancelled, dpc>>
          /\ Discarded(destroyer)
      BY <1>13 DEF DestroyDiscard, history, drainVars
    <2>2. SlotWorks("Queued")' = {} /\ InSlots' \subseteq InSlots
      BY <2>0, <2>1, DiscardedWorks DEF InSlots
    <2> QED
      BY <2>1, <2>2, CalledUnchanged DEF Accepted
  <1>14. ASSUME DestroyDelete PROVE Called'
    BY <1>0, <1>14 DEF DestroyDelete, core, drainVars, history
  <1>15. CASE UNCHANGED vars
    BY <1>0, <1>15 DEF vars, core, drainVars, history
  <1> QED
    BY <1>1, <1>2, <1>3, <1>4, <1>5, <1>6, <1>7, <1>8, <1>9, <1>10, <1>11,
       <1>12, <1>13, <1>14, <1>15 DEF Next, Deleted

-----------------------------------------------------------------------------
LEMMA InitInd == Init => IndInv
  <1> SUFFICES ASSUME Init PROVE IndInv
    OBVIOUS
  <1>1. TypeOK
    BY InitType
  <1>2. Accepted = {} /\ \A s : SlotWorks(s) = {}
    BY DispatcherAssumption DEF Init, Accepted, SlotWorks
  <1>3. Held = {}
    BY <1>2 DEF Init, Held
  <1>4. QueueExact /\ BatchExact /\ FreeListExact
    BY DispatcherAssumption DEF Init, QueueExact, BatchExact, FreeListExact
  <1>5. TicketsExact
    BY <1>2, DispatcherAssumption DEF Init, TicketsExact, EmptySlot, SlotIds, Works
  <1>6. DrainExact
    BY DEF Init, DrainExact
  <1>7. DisposedExactlyOnce /\ OwnedWasAccepted
    BY <1>2, <1>3 DEF Init, DisposedExactlyOnce, OwnedWasAccepted
  <1>8. CancelledNeverRuns /\ CalledAtMostOnce
    BY <1>2 DEF Init, CancelledNeverRuns, CalledAtMostOnce
  <1> QED
    BY <1>1, <1>4, <1>5, <1>6, <1>7, <1>8 DEF IndInv

\* The invariant is inductive: it holds of every reachable state of the
\* dispatcher, with any number of threads, works and drain limits.
THEOREM Invariance == Spec => []IndInv
  <1>1. IndInv /\ [Next]_vars => IndInv'
    BY NextType, NextTables, NextDrain, NextOwned, NextCalled
    DEF IndInv, TablesExact, Owned, Called
  <1> QED
    BY InitInd, <1>1, PTL DEF Spec

\* The tables and the drain's locals keep their types.
THEOREM TypeCorrect == Spec => []TypeOK
  BY Invariance, PTL DEF IndInv

\* dispatcher.h:45-48: accepted work has exactly one owner until its payload is
\* disposed, and it is disposed once.
THEOREM DisposalIsExact == Spec => []DisposedExactlyOnce
  BY Invariance, PTL DEF IndInv

\* dispatcher.h:57-58: a cancel that succeeds withdrew the work its ticket was
\* issued for, which is never called.
THEOREM CancellationIsExact == Spec => []CancelledNeverRuns
  BY Invariance, PTL DEF IndInv

\* No work is called twice, whichever threads drain, cancel and discard.
THEOREM CallsAreSingle == Spec => []CalledAtMostOnce
  BY Invariance, PTL DEF IndInv

\* The queue lists the queued slots, each once and under its own generation, so
\* that the drain's skip and lost-lifetime branches are dead code; batch, free
\* list and tickets agree with the slots.
THEOREM TablesAreExact == Spec => []TablesExact
  BY Invariance, PTL DEF IndInv, TablesExact

\* Only RunCallback calls, and it calls the head of the batch, which a slot
\* still owns.
LEMMA CallStep ==
    ASSUME IndInv, [Next]_vars, NEW w \in Works, calls'[w] # calls[w]
    PROVE  disposals[w] = 0 /\ \A t \in Threads : w \notin owed[t]
  <1>1. calls' # calls
    OBVIOUS
  <1>2. RunCallback
    BY <1>1 DEF Next, vars, history, Post, PostFails, DiscardPending, Close, Cancel,
       Dispose, BeginDrain, DestroyBegin, TakeBatch, CompleteCallback, EndDrain,
       DestroyDiscard, DestroyDelete, Deleted
  <1>3. batch # <<>> /\ batch \in Seq(Entries) /\ w = batch[1].work
    BY <1>2 DEF RunCallback, IndInv, TypeOK
  <1>4. w \in SlotWorks("Executing")
    <2>1. 1 \in 1..Len(batch)
      BY <1>3, NonEmptyFacts
    <2> QED
      BY <1>3, <2>1, SlotWorksFacts
  <1>5. w \in Held
    BY <1>4 DEF Held
  <1> QED
    BY <1>4, <1>5 DEF IndInv, DisposedExactlyOnce

\* A callback never runs on a payload whose disposal is due or done.
THEOREM CallsPrecedeDisposal == Spec => CallBeforeDispose
  <1>1. IndInv /\ [Next]_vars =>
          [\A w \in Works : calls'[w] # calls[w] =>
             /\ disposals[w] = 0
             /\ \A t \in Threads : w \notin owed[t]]_vars
    BY CallStep
  <1> QED
    BY Invariance, <1>1, PTL DEF Spec, CallBeforeDispose

-----------------------------------------------------------------------------
\* destroy: what is left when it returns.

LEMMA NextDestroy == IndInv /\ DestroyExact /\ [Next]_vars => DestroyExact'
  <1> SUFFICES ASSUME IndInv, DestroyExact, [Next]_vars PROVE DestroyExact'
    OBVIOUS
  <1> USE DispatcherAssumption
  <1>0. TypeOK /\ DrainExact /\ DestroyExact
    BY DEF IndInv
  <1>a. ASSUME UNCHANGED <<open, nslots, slots, drainer, below, phase, destroyer>>,
               \A u \in Threads : u = drainer \/ owed'[u] \subseteq owed[u]
        PROVE  DestroyExact'
    <2>1. SlotWorks("Queued")' = SlotWorks("Queued")
      BY <1>a, SlotWorksUnchanged
    <2> QED
      BY <1>0, <1>a, <2>1 DEF DestroyExact
  <1>1. ASSUME NEW t \in Threads, Post(t) PROVE DestroyExact'
    BY <1>0, <1>1 DEF Post, CanPost, DestroyExact, life
  <1>2. ASSUME NEW t \in Threads, PostFails(t) PROVE DestroyExact'
    BY <1>0, <1>2 DEF PostFails, CanPost, DestroyExact, life
  <1>3. ASSUME NEW t \in Threads, DiscardPending(t) PROVE DestroyExact'
    <2>1. /\ CanCall(t) /\ UNCHANGED <<open, drainer, below, phase, destroyer>>
          /\ owed' = [owed EXCEPT ![t] = @ \cup SlotWorks("Queued")]
      BY <1>3 DEF DiscardPending, Discarded, drainVars, life
    <2> QED
      BY <1>0, <2>1 DEF DestroyExact, CanCall, TypeOK
  <1>4. ASSUME NEW t \in Threads, Close(t) PROVE DestroyExact'
    BY <1>0, <1>4 DEF Close, DestroyExact, life
  <1>5. ASSUME NEW t \in Threads, NEW w \in Accepted, Cancel(t, w) PROVE DestroyExact'
    <2>1. /\ CanCall(t) /\ UNCHANGED <<open, drainer, below, phase, destroyer>>
          /\ owed' = [owed EXCEPT ![t] = @ \cup {w}]
      BY <1>5, CancelWorks DEF Cancel, drainVars, life
    <2> QED
      BY <1>0, <2>1 DEF DestroyExact, CanCall, TypeOK
  <1>6. ASSUME NEW t \in Threads, NEW w \in owed[t], Dispose(t, w) PROVE DestroyExact'
    <2>1. UNCHANGED <<open, nslots, slots, drainer, below, phase, destroyer>>
          /\ owed' = [owed EXCEPT ![t] = @ \ {w}]
      BY <1>6 DEF Dispose, core, drainVars, life
    <2> QED
      BY <1>0, <1>a, <2>1 DEF TypeOK
  <1>7. ASSUME NEW t \in Threads, BeginDrain(t) PROVE DestroyExact'
    BY <1>0, <1>7 DEF BeginDrain, CanCall, DestroyExact, life
  <1>8. ASSUME NEW t \in Threads, DestroyBegin(t) PROVE DestroyExact'
    BY <1>0, <1>8 DEF DestroyBegin, DestroyExact, drainVars
  <1>9. ASSUME NEW limit \in Limits, TakeBatch(limit) PROVE DestroyExact'
    <2>1. /\ drainer # NoThread /\ UNCHANGED <<open, drainer, below, owed, phase, destroyer>>
      BY <1>0, <1>9 DEF TakeBatch, DrainExact, life
    <2> QED
      BY <1>0, <2>1 DEF DestroyExact
  <1>10. ASSUME RunCallback PROVE DestroyExact'
    BY <1>a, <1>10 DEF RunCallback, core, life
  <1>11. ASSUME CompleteCallback PROVE DestroyExact'
    <2>1. /\ drainer # NoThread /\ UNCHANGED <<open, drainer, below, phase, destroyer>>
          /\ owed' = [owed EXCEPT ![drainer] = @ \cup {batch[1].work}]
      BY <1>0, <1>11 DEF CompleteCallback, DrainExact, life
    <2> QED
      BY <1>0, <2>1 DEF DestroyExact, TypeOK
  <1>12. ASSUME EndDrain PROVE DestroyExact'
    <2>1. /\ drainer # NoThread /\ owed[drainer] = below /\ drainer' = NoThread
          /\ below' = {} /\ UNCHANGED <<open, nslots, slots, owed, phase, destroyer>>
      BY <1>0, <1>12 DEF EndDrain, DrainExact, life, core
    <2> QED
      BY <1>0, <2>1 DEF DestroyExact
  <1>13. ASSUME DestroyDiscard PROVE DestroyExact'
    <2>1. /\ phase = "waiting" /\ phase' = "discarding" /\ drainer = NoThread
          /\ Discarded(destroyer)
          /\ UNCHANGED <<open, nslots, allocs, ticket, drainer, below, destroyer>>
          /\ owed' = [owed EXCEPT ![destroyer] = @ \cup SlotWorks("Queued")]
      BY <1>13 DEF DestroyDiscard, Discarded, drainVars, history
    <2>2. destroyer \in Threads
      BY <1>0, <2>1 DEF DestroyExact
    <2>3. SlotWorks("Queued")' = {}
      BY <2>1, <2>2, DiscardedWorks
    <2> QED
      BY <1>0, <2>1, <2>2, <2>3 DEF DestroyExact, TypeOK
  <1>14. ASSUME DestroyDelete PROVE DestroyExact'
    <2>1. /\ phase = "discarding" /\ owed[destroyer] = {}
          /\ UNCHANGED <<open, nslots, slots, drainer, below, owed, destroyer>>
      BY <1>14 DEF DestroyDelete, core, drainVars
    <2>2. SlotWorks("Queued")' = SlotWorks("Queued")
      BY <2>1, SlotWorksUnchanged
    <2> QED
      BY <1>0, <2>1, <2>2 DEF DestroyExact
  <1>15. CASE UNCHANGED vars
    BY <1>a, <1>15 DEF vars, core, drainVars, life
  <1> QED
    BY <1>1, <1>2, <1>3, <1>4, <1>5, <1>6, <1>7, <1>8, <1>9, <1>10, <1>11,
       <1>12, <1>13, <1>14, <1>15 DEF Next, Deleted

\* destroy, waiting for a drain that may still post, cancel and discard, leaves
\* no work behind and has had every accepted payload disposed once.
THEOREM DestructionIsComplete == Spec => []DestroyedIsEmpty
  <1>1. Init => DestroyExact
    BY DEF Init, DestroyExact
  <1>2. IndInv /\ DestroyExact => DestroyedIsEmpty
    <2> SUFFICES ASSUME IndInv, DestroyExact, phase = "deleted"
                 PROVE  Held = {} /\ \A w \in Accepted : disposals[w] = 1
      BY DEF DestroyedIsEmpty
    <2>1. drainer = NoThread /\ SlotWorks("Queued") = {}
          /\ \A u \in Threads : owed[u] = {}
      BY DispatcherAssumption DEF DestroyExact
    <2>2. batch = <<>>
      BY <2>1 DEF IndInv, DrainExact
    <2>3. SlotWorks("Executing") = {}
      BY <2>2, SlotWorksFacts
    <2>4. Held = {}
      BY <2>1, <2>3 DEF Held
    <2> QED
      BY <2>4 DEF IndInv, DisposedExactlyOnce, Accepted
  <1> QED
    BY Invariance, NextDestroy, <1>1, <1>2, PTL DEF Spec

-----------------------------------------------------------------------------
\* The dispatcher implements DeferredWork: each step is a step of the line of
\* work or leaves it alone.

\* A sequence is known by its length and its elements.
LEMMA SeqOfValues ==
    ASSUME NEW S, NEW s \in Seq(S), NEW t, t = [k \in 1..Len(s) |-> s[k]]
    PROVE  t = s
  BY LenProperties

LEMMA QueuedFacts ==
    ASSUME IndInv
    PROVE  /\ queue \in Seq(Tickets) /\ Len(queue) \in Nat
           /\ WaitingWorks \in Seq(Works) /\ Len(WaitingWorks) = Len(queue)
           /\ \A k \in 1..Len(queue) :
                /\ queue[k].slot \in 1..nslots /\ queue[k].slot \in SlotIds
                /\ slots[queue[k].slot].state = "Queued"
                /\ slots[queue[k].slot].work \in Works
                /\ WaitingWorks[k] = slots[queue[k].slot].work
           /\ ToSet(WaitingWorks) = SlotWorks("Queued")
  <1>1. queue \in Seq(Tickets) /\ Len(queue) \in Nat
    BY DEF IndInv, TypeOK
  <1>2. \A k \in 1..Len(queue) :
          /\ queue[k].slot \in 1..nslots /\ queue[k].slot \in SlotIds
          /\ slots[queue[k].slot].state = "Queued"
          /\ slots[queue[k].slot].work \in Works
    BY SlotInUse DEF IndInv, QueueExact, IsQueued
  <1>3. /\ WaitingWorks \in Seq(Works) /\ Len(WaitingWorks) = Len(queue)
        /\ \A k \in 1..Len(queue) : WaitingWorks[k] = slots[queue[k].slot].work
    BY <1>1, <1>2 DEF WaitingWorks
  <1>4. ToSet(WaitingWorks) = SlotWorks("Queued")
    <2>1. ToSet(WaitingWorks) = {slots[queue[k].slot].work : k \in 1..Len(queue)}
      BY <1>3, ToSetFacts
    <2>2. \A i \in 1..nslots : slots[i].state = "Queued" =>
             \E k \in 1..Len(queue) : queue[k].slot = i
      BY DEF IndInv, QueueExact
    <2> QED
      BY <1>2, <2>1, <2>2 DEF SlotWorks
  <1> QED
    BY <1>1, <1>2, <1>3, <1>4

LEMMA BatchFacts ==
    ASSUME IndInv
    PROVE  /\ batch \in Seq(Entries) /\ Len(batch) \in Nat
           /\ BatchWorks \in Seq(Works) /\ Len(BatchWorks) = Len(batch)
           /\ \A k \in 1..Len(batch) : BatchWorks[k] = batch[k].work
  <1>1. batch \in Seq(Entries) /\ Len(batch) \in Nat
    BY DEF IndInv, TypeOK
  <1>2. ASSUME NEW k \in 1..Len(batch) PROVE batch[k].work \in Works
    <2>1. batch[k] \in Entries
      BY <1>1, ElementOfSeq
    <2> QED
      BY <2>1 DEF Entries
  <1> QED
    BY <1>1, <1>2 DEF BatchWorks

\* The line after a step, from the queue and the slots after it.
LEMMA WaitingIs ==
    ASSUME NEW s \in Seq(Works), Len(queue') = Len(s),
           \A k \in 1..Len(s) : slots'[queue'[k].slot].work = s[k]
    PROVE  WaitingWorks' = s
  <1>1. WaitingWorks' = [k \in 1..Len(s) |-> s[k]]
    BY DEF WaitingWorks
  <1> QED
    BY <1>1, SeqOfValues

LEMMA BatchIs ==
    ASSUME NEW s \in Seq(Works), Len(batch') = Len(s),
           \A k \in 1..Len(s) : batch'[k].work = s[k]
    PROVE  BatchWorks' = s
  <1>1. BatchWorks' = [k \in 1..Len(s) |-> s[k]]
    BY DEF BatchWorks
  <1> QED
    BY <1>1, SeqOfValues

LEMMA WaitingUnchanged ==
    ASSUME IndInv, UNCHANGED queue,
           \A i \in SlotIds : slots[i].state = "Queued" => slots'[i].work = slots[i].work
    PROVE  WaitingWorks' = WaitingWorks
  BY QueuedFacts, WaitingIs

LEMMA BatchUnchanged ==
    ASSUME UNCHANGED <<batch, dpc>>
    PROVE  UNCHANGED <<BatchWorks, ReservedWorks, RunningWorks>>
  BY DEF BatchWorks, ReservedWorks, RunningWorks

\* A set of works that is not empty has a latest one.
LEMMA LastWorkFacts ==
    ASSUME IndInv
    PROVE  /\ LastWork \in Nat /\ LastWork <= allocs
           /\ \A v \in Accepted : v <= LastWork
  <1>1. /\ Accepted \subseteq Works /\ \A v \in Accepted : v <= allocs
        /\ allocs \in Nat /\ MaxAllocs \in Nat
    BY SizeFacts DEF IndInv, TicketsExact, Accepted, Works
  <1>2. CASE Accepted = {}
    BY <1>1, <1>2 DEF LastWork
  <1>3. CASE Accepted # {}
    <2> DEFINE I == {MaxAllocs - v : v \in Accepted}
    <2>1. I \in SUBSET Nat /\ I # {}
      <3>1. \A v \in Accepted : MaxAllocs - v \in Nat
        BY <1>1 DEF Works
      <3> QED
        BY <1>3, <3>1
    <2>2. Min(I) \in I /\ \A i \in I : Min(I) <= i
      <3> HIDE DEF I
      <3> QED
        BY <2>1, MinFacts
    <2>3. \E w \in Accepted : \A v \in Accepted : v <= w
      <3>1. PICK w \in Accepted : Min(I) = MaxAllocs - w
        BY <2>2
      <3>2. \A v \in Accepted : MaxAllocs - w <= MaxAllocs - v
        BY <2>2, <3>1
      <3>3. \A v \in Accepted : v <= w
        BY <1>1, <3>2 DEF Works
      <3> QED
        BY <3>3
    <2>4. LastWork \in Accepted /\ \A v \in Accepted : v <= LastWork
      BY <1>3, <2>3 DEF LastWork
    <2> QED
      BY <1>1, <2>4 DEF Works
  <1> QED
    BY <1>2, <1>3

LEMMA PostPromise == ASSUME IndInv, NEW t \in Threads, Post(t) PROVE Promise!Next
  <1> DEFINE w == allocs + 1
  <1>1. PICK i \in SlotIds :
             /\ slots[i].state = "Free"
             /\ w \in Works /\ w \notin Accepted
             /\ slots' = [slots EXCEPT ![i] =
                            [generation |-> slots[i].generation + 1,
                             state |-> "Queued", work |-> w]]
             /\ queue' = Append(queue, [slot |-> i, generation |-> slots[i].generation + 1])
             /\ ticket' = [ticket EXCEPT ![w] =
                             [slot |-> i, generation |-> slots[i].generation + 1]]
             /\ Accepted' = Accepted \cup {w}
             /\ UNCHANGED <<open, batch, dpc, owed, disposals>>
    BY PostFacts
  <1>2. open
    BY <1>1, PostFacts DEF Post, CanPost
  <1>3. w > LastWork /\ LastWork' = w
    <2>1. LastWork < w /\ \A v \in Accepted : v < w
      BY LastWorkFacts, SizeFacts DEF Accepted, Works
    <2>2. Accepted' # {} /\ \A v \in Accepted' : v <= w
      BY <1>1, <2>1, SizeFacts DEF Works, Accepted
    <2>3. \A u \in Accepted' : (\A v \in Accepted' : v <= u) => u = w
      BY <1>1, <2>1, <2>2, SizeFacts DEF Works, Accepted
    <2>4. LastWork' = CHOOSE u \in Accepted' : \A v \in Accepted' : v <= u
      BY <2>2 DEF LastWork
    <2> QED
      BY <1>1, <2>1, <2>2, <2>3, <2>4
  <1> HIDE DEF w
  <1>4. WaitingWorks' = Append(WaitingWorks, w)
    <2> DEFINE tk == [slot |-> i, generation |-> slots[i].generation + 1]
    <2>1. queue' = Append(queue, tk) /\ tk.slot = i
      BY <1>1
    <2> HIDE DEF tk
    <2>2. /\ Len(queue') = Len(queue) + 1 /\ queue'[Len(queue) + 1] = tk
          /\ \A k \in 1..Len(queue) : queue'[k] = queue[k]
      BY <2>1, QueuedFacts
    <2>3. /\ Append(WaitingWorks, w) \in Seq(Works)
          /\ Len(Append(WaitingWorks, w)) = Len(queue) + 1
          /\ \A k \in 1..Len(queue) : Append(WaitingWorks, w)[k] = WaitingWorks[k]
          /\ Append(WaitingWorks, w)[Len(queue) + 1] = w
      BY <1>1, QueuedFacts, AppendProperties
    <2>4. slots'[i].work = w /\ \A j \in SlotIds : j # i => slots'[j] = slots[j]
      BY <1>1 DEF IndInv, TypeOK
    <2>5. \A k \in 1..(Len(queue) + 1) :
             slots'[queue'[k].slot].work = Append(WaitingWorks, w)[k]
      BY <1>1, <2>1, <2>2, <2>3, <2>4, QueuedFacts
    <2> QED
      BY <2>2, <2>3, <2>5, WaitingIs
  <1>5. UNCHANGED <<ReservedWorks, RunningWorks, DueWorks, DisposedWorks>>
    BY <1>1, BatchUnchanged DEF DueWorks, DisposedWorks
  <1>6. Promise!Accept(w)
    BY <1>1, <1>2, <1>3, <1>4, <1>5 DEF Promise!Accept
  <1> QED
    BY <1>1, <1>6 DEF Promise!Next

LEMMA CancelPromise ==
    ASSUME IndInv, NEW t \in Threads, NEW w \in Accepted, Cancel(t, w)
    PROVE  Promise!Next
  <1>1. UNCHANGED <<open, ticket, batch, dpc, disposals>>
    BY DEF Cancel, drainVars
  <1>2. owed' = [owed EXCEPT ![t] = @ \cup {w}]
    BY CancelWorks
  <1>3. PICK k \in 1..Len(queue) :
             /\ queue' = RemoveAt(queue, k) /\ queue[k].slot = ticket[w].slot
    BY DEF Cancel
  <1>4. /\ slots[ticket[w].slot].work = w /\ ticket[w].slot \in 1..nslots
    BY CancelFacts
  <1>5. /\ Len(queue') = Len(queue) - 1
        /\ \A j \in 1..(Len(queue) - 1) : queue'[j] = IF j < k THEN queue[j] ELSE queue[j + 1]
    BY <1>3, QueuedFacts, RemoveAtFacts
  <1>6. \A j \in 1..Len(queue) : j # k =>
           slots'[queue[j].slot].work = slots[queue[j].slot].work
    <2>1. \A j \in 1..Len(queue) : j # k => queue[j].slot # ticket[w].slot
      BY <1>3 DEF IndInv, QueueExact
    <2> QED
      BY <2>1, QueuedFacts DEF Cancel, Released
  <1>7. WaitingWorks' = RemoveAt(WaitingWorks, k)
    <2> DEFINE s == RemoveAt(WaitingWorks, k)
    <2>1. /\ s \in Seq(Works) /\ Len(s) = Len(queue) - 1
          /\ \A j \in 1..(Len(queue) - 1) :
               s[j] = IF j < k THEN WaitingWorks[j] ELSE WaitingWorks[j + 1]
      BY QueuedFacts, RemoveAtFacts
    <2> HIDE DEF s
    <2>2. ASSUME NEW j \in 1..(Len(queue) - 1)
          PROVE  slots'[queue'[j].slot].work = s[j]
      <3>1. CASE j < k
        <4>1. j \in 1..Len(queue) /\ j # k /\ queue'[j] = queue[j] /\ s[j] = WaitingWorks[j]
          BY <1>5, <2>1, <3>1, QueuedFacts
        <4> QED
          BY <1>6, <4>1, QueuedFacts
      <3>2. CASE ~(j < k)
        <4>1. /\ j + 1 \in 1..Len(queue) /\ j + 1 # k /\ queue'[j] = queue[j + 1]
              /\ s[j] = WaitingWorks[j + 1]
          BY <1>5, <2>1, <3>2, QueuedFacts
        <4> QED
          BY <1>6, <4>1, QueuedFacts
      <3> QED
        BY <3>1, <3>2
    <2>3. s = WaitingWorks'
      BY <1>5, <2>1, <2>2, WaitingIs
    <2> QED
      BY <2>3 DEF s
  <1>8. WaitingWorks[k] = w
    BY <1>3, <1>4, QueuedFacts
  <1>9. DueWorks' = DueWorks \cup {WaitingWorks[k]}
    BY <1>2, <1>8 DEF DueWorks, IndInv, TypeOK
  <1>10. UNCHANGED <<LastWork, ReservedWorks, RunningWorks, DisposedWorks>>
    BY <1>1, BatchUnchanged DEF LastWork, Accepted, DisposedWorks
  <1>11. Promise!Withdraw(k)
    BY <1>1, <1>7, <1>9, <1>10 DEF Promise!Withdraw, Promise!RemoveAt, RemoveAt
  <1> QED
    BY <1>11, QueuedFacts DEF Promise!Next

\* discard_pending and destroy: the whole line, if there is one.
LEMMA DiscardPromise ==
    ASSUME IndInv, NEW t \in Threads, Discarded(t),
           UNCHANGED <<open, ticket, batch, dpc, disposals>>
    PROVE  Promise!Next \/ UNCHANGED Promise!vars
  <1>1. UNCHANGED <<open, LastWork, ReservedWorks, RunningWorks, DisposedWorks>>
    BY BatchUnchanged DEF LastWork, Accepted, DisposedWorks
  <1>2. WaitingWorks' = <<>>
    BY DEF Discarded, WaitingWorks
  <1>3. DueWorks' = DueWorks \cup ToSet(WaitingWorks)
    BY QueuedFacts DEF Discarded, DueWorks, IndInv, TypeOK
  <1>4. CASE WaitingWorks = <<>>
    <2>1. ToSet(WaitingWorks) = {}
      BY <1>4 DEF ToSet
    <2> QED
      BY <1>1, <1>2, <1>3, <1>4, <2>1 DEF Promise!vars
  <1>5. CASE WaitingWorks # <<>>
    BY <1>1, <1>2, <1>3, <1>5 DEF Promise!WithdrawAll, Promise!ToSet, ToSet, Promise!Next
  <1> QED
    BY <1>4, <1>5

LEMMA DisposePromise ==
    ASSUME IndInv, NEW t \in Threads, NEW w \in owed[t], Dispose(t, w)
    PROVE  Promise!Next
  <1>1. /\ UNCHANGED <<open, nslots, slots, queue, ticket, batch, dpc>>
        /\ owed' = [owed EXCEPT ![t] = @ \ {w}]
        /\ disposals' = [disposals EXCEPT ![w] = @ + 1]
    BY DEF Dispose, core, drainVars
  <1>2. w \in Works
    BY DEF IndInv, TypeOK
  <1>3. DueWorks' = DueWorks \ {w} /\ w \in DueWorks
    BY <1>1 DEF DueWorks, IndInv, TypeOK, DisposedExactlyOnce
  <1>4. DisposedWorks' = DisposedWorks \cup {w}
    BY <1>1, <1>2 DEF DisposedWorks, IndInv, TypeOK
  <1>5. UNCHANGED <<LastWork, WaitingWorks, ReservedWorks, RunningWorks>>
    BY <1>1, BatchUnchanged DEF LastWork, Accepted, WaitingWorks
  <1>6. Promise!Dispose(w)
    BY <1>1, <1>3, <1>4, <1>5 DEF Promise!Dispose
  <1> QED
    BY <1>3, <1>6 DEF Promise!Next

LEMMA TakeBatchPromise ==
    ASSUME IndInv, NEW limit \in Limits, TakeBatch(limit)
    PROVE  Promise!Next \/ UNCHANGED Promise!vars
  <1>1. /\ dpc = "take" /\ dpc' = "next"
        /\ UNCHANGED <<open, ticket, owed, disposals>>
    BY DEF TakeBatch, history
  <1>2. UNCHANGED <<open, LastWork, DueWorks, DisposedWorks>>
    BY <1>1 DEF LastWork, Accepted, DueWorks, DisposedWorks
  <1>3. batch = <<>> /\ ReservedWorks = BatchWorks /\ RunningWorks = {}
        /\ ReservedWorks' = BatchWorks' /\ RunningWorks' = {}
    BY <1>1 DEF IndInv, DrainExact, ReservedWorks, RunningWorks
  <1>4. BatchWorks = <<>>
    BY <1>3 DEF BatchWorks
  <1>5. PICK n \in 0..Len(queue) :
             /\ Len(batch') = n
             /\ \A k \in 1..n : batch'[k].work = slots[queue[k].slot].work
             /\ Len(queue') = Len(queue) - n
             /\ \A k \in 1..(Len(queue) - n) : queue'[k] = queue[n + k]
    BY TakeBatchFacts
  <1>6. \A i \in SlotIds : slots'[i].work = slots[i].work
    BY DEF TakeBatch
  <1> DEFINE r == SubSeq(WaitingWorks, 1, n)
             s == SubSeq(WaitingWorks, n + 1, Len(WaitingWorks))
  <1>7. n \in Nat /\ n <= Len(queue)
    BY QueuedFacts
  <1>8. /\ r \in Seq(Works) /\ Len(r) = n
        /\ \A k \in 1..n : r[k] = WaitingWorks[k]
    BY <1>7, QueuedFacts
  <1>9. /\ s \in Seq(Works) /\ Len(s) = Len(queue) - n
        /\ \A k \in 1..(Len(queue) - n) : s[k] = WaitingWorks[n + k]
    BY <1>7, QueuedFacts
  <1>10. n = 0 => s = WaitingWorks
    BY QueuedFacts, SubSeqFull
  <1> HIDE DEF r, s
  <1>11. BatchWorks' = r
    <2>1. \A k \in 1..n : k \in 1..Len(queue)
      BY <1>7, QueuedFacts
    <2>2. \A k \in 1..n : batch'[k].work = r[k]
      BY <1>5, <1>8, <2>1, QueuedFacts
    <2> QED
      BY <1>5, <1>8, <2>2, BatchIs
  <1>12. WaitingWorks' = s
    <2>1. \A k \in 1..(Len(queue) - n) : n + k \in 1..Len(queue)
      BY <1>7, QueuedFacts
    <2>2. \A k \in 1..(Len(queue) - n) : slots'[queue'[k].slot].work = s[k]
      BY <1>5, <1>6, <1>9, <2>1, QueuedFacts
    <2> QED
      BY <1>5, <1>9, <2>2, WaitingIs
  <1>13. CASE n = 0
    <2>1. r = <<>>
      BY <1>8, <1>13, EmptySeq
    <2> QED
      BY <1>2, <1>3, <1>4, <1>10, <1>11, <1>12, <1>13, <2>1 DEF Promise!vars
  <1>14. CASE n # 0
    <2>1. n \in 1..Len(WaitingWorks)
      BY <1>7, <1>14, QueuedFacts
    <2>2. Promise!Reserve(n)
      BY <1>2, <1>3, <1>4, <1>11, <1>12 DEF Promise!Reserve, r, s
    <2> QED
      BY <2>1, <2>2 DEF Promise!Next
  <1> QED
    BY <1>13, <1>14

LEMMA RunCallbackPromise == ASSUME IndInv, RunCallback PROVE Promise!Next
  <1>1. /\ dpc = "next" /\ dpc' = "calling" /\ batch # <<>>
        /\ UNCHANGED <<open, nslots, slots, queue, ticket, batch, owed, disposals>>
    BY DEF RunCallback, core
  <1>2. /\ ReservedWorks = BatchWorks /\ RunningWorks = {}
        /\ ReservedWorks' = Tail(BatchWorks) /\ RunningWorks' = {batch[1].work}
    BY <1>1 DEF ReservedWorks, RunningWorks, BatchWorks
  <1>3. BatchWorks # <<>> /\ Head(BatchWorks) = batch[1].work
    <2>1. Len(batch) # 0
      BY <1>1, BatchFacts, EmptySeq
    <2> QED
      BY <2>1, BatchFacts
  <1>4. UNCHANGED <<LastWork, WaitingWorks, DueWorks, DisposedWorks>>
    BY <1>1 DEF LastWork, Accepted, WaitingWorks, DueWorks, DisposedWorks
  <1>5. Promise!Call
    BY <1>1, <1>2, <1>3, <1>4 DEF Promise!Call
  <1> QED
    BY <1>5 DEF Promise!Next

LEMMA CompletePromise == ASSUME IndInv, CompleteCallback PROVE Promise!Next
  <1>1. /\ dpc = "calling" /\ dpc' = "next"
        /\ UNCHANGED <<open, queue, ticket, disposals>>
    BY DEF CompleteCallback, history
  <1>2. /\ owed' = [owed EXCEPT ![drainer] = @ \cup {batch[1].work}]
        /\ drainer \in Threads /\ Released({batch[1].ticket.slot})
        /\ slots[batch[1].ticket.slot].state = "Executing"
        /\ Len(batch) \in Nat \ {0} /\ Len(batch') = Len(batch) - 1
        /\ \A k \in 1..(Len(batch) - 1) : batch'[k] = batch[k + 1]
    BY CompleteFacts DEF IsExecuting
  <1>3. WaitingWorks' = WaitingWorks
    BY <1>1, <1>2, WaitingUnchanged DEF Released
  <1>4. BatchWorks' = Tail(BatchWorks)
    <2> DEFINE s == Tail(BatchWorks)
    <2>1. BatchWorks # <<>>
      BY <1>2, BatchFacts, EmptySeq
    <2>2. /\ s \in Seq(Works) /\ Len(s) = Len(batch) - 1
          /\ \A k \in 1..(Len(batch) - 1) : s[k] = BatchWorks[k + 1]
      BY <2>1, BatchFacts, HeadTailProperties
    <2> HIDE DEF s
    <2>3. \A k \in 1..(Len(batch) - 1) : batch'[k].work = s[k]
      BY <1>2, <2>2, BatchFacts
    <2>4. s = BatchWorks'
      BY <1>2, <2>2, <2>3, BatchIs
    <2> QED
      BY <2>4 DEF s
  <1>5. /\ ReservedWorks' = ReservedWorks /\ RunningWorks = {batch[1].work}
        /\ RunningWorks' = {}
    BY <1>1, <1>4 DEF ReservedWorks, RunningWorks
  <1>6. DueWorks' = DueWorks \cup RunningWorks
    BY <1>2, <1>5 DEF DueWorks, IndInv, TypeOK
  <1>7. UNCHANGED <<LastWork, DisposedWorks>>
    BY <1>1 DEF LastWork, Accepted, DisposedWorks
  <1>8. Promise!Return
    BY <1>1, <1>3, <1>5, <1>6, <1>7 DEF Promise!Return
  <1> QED
    BY <1>8 DEF Promise!Next

LEMMA PromiseStep ==
    ASSUME IndInv, [Next]_vars
    PROVE  Promise!Next \/ UNCHANGED Promise!vars
  <1> DEFINE mapped == <<LastWork, WaitingWorks, ReservedWorks, RunningWorks, DueWorks,
                         DisposedWorks>>
  <1>a. ASSUME UNCHANGED <<nslots, slots, queue, ticket, batch, owed, disposals>>,
               dpc' = "calling" <=> dpc = "calling"
        PROVE  UNCHANGED mapped
    BY <1>a DEF LastWork, Accepted, WaitingWorks, BatchWorks, ReservedWorks, RunningWorks,
                DueWorks, DisposedWorks
  <1>b. ASSUME UNCHANGED mapped, open' = open PROVE UNCHANGED Promise!vars
    BY <1>b DEF Promise!vars
  <1>c. ASSUME UNCHANGED mapped, open, open' = FALSE PROVE Promise!Next
    BY <1>c DEF Promise!Next, Promise!StopAccepting
  <1> HIDE DEF mapped
  <1>1. ASSUME NEW t \in Threads, Post(t) PROVE Promise!Next
    BY <1>1, PostPromise
  <1>2. ASSUME NEW t \in Threads, PostFails(t) PROVE UNCHANGED Promise!vars
    <2>1. UNCHANGED <<open, queue, ticket, batch, dpc, owed, disposals>>
      BY <1>2 DEF PostFails, drainVars
    <2>2. \A i \in SlotIds : slots[i].state = "Queued" => slots'[i].work = slots[i].work
      <3>1. PICK i \in AllocIndices : TakeSlot(i, "Free", NoWork)
        BY <1>2 DEF PostFails
      <3>2. /\ i \in SlotIds /\ slots[i].state = "Free"
            /\ slots' = [slots EXCEPT ![i] = [generation |-> slots[i].generation + 1,
                                             state |-> "Free", work |-> NoWork]]
        BY <1>2, <3>1, AllocFacts DEF PostFails, CanPost
      <3> QED
        BY <3>2 DEF IndInv, TypeOK
    <2>3. WaitingWorks' = WaitingWorks
      BY <2>1, <2>2, WaitingUnchanged
    <2>4. UNCHANGED mapped
      BY <2>1, <2>3, BatchUnchanged DEF mapped, LastWork, Accepted, DueWorks, DisposedWorks
    <2> QED
      BY <1>b, <2>1, <2>4
  <1>3. ASSUME NEW t \in Threads, DiscardPending(t)
        PROVE  Promise!Next \/ UNCHANGED Promise!vars
    BY <1>3, DiscardPromise DEF DiscardPending, drainVars, history
  <1>4. ASSUME NEW t \in Threads, Close(t) PROVE Promise!Next
    BY <1>4, <1>a, <1>c DEF Close, drainVars, history
  <1>5. ASSUME NEW t \in Threads, NEW w \in Accepted, Cancel(t, w) PROVE Promise!Next
    BY <1>5, CancelPromise
  <1>6. ASSUME NEW t \in Threads, NEW w \in owed[t], Dispose(t, w) PROVE Promise!Next
    BY <1>6, DisposePromise
  <1>7. ASSUME NEW t \in Threads, BeginDrain(t) PROVE UNCHANGED Promise!vars
    <2>1. dpc # "calling" /\ dpc' # "calling"
      BY <1>7 DEF BeginDrain, IndInv, DrainExact
    <2> QED
      BY <1>7, <1>a, <1>b, <2>1 DEF BeginDrain, core, history
  <1>8. ASSUME NEW t \in Threads, DestroyBegin(t)
        PROVE  Promise!Next \/ UNCHANGED Promise!vars
    <2>1. UNCHANGED mapped /\ open' = FALSE /\ open \in BOOLEAN
      BY <1>8, <1>a DEF DestroyBegin, drainVars, history, IndInv, TypeOK
    <2> QED
      BY <1>b, <1>c, <2>1
  <1>9. ASSUME NEW limit \in Limits, TakeBatch(limit)
        PROVE  Promise!Next \/ UNCHANGED Promise!vars
    BY <1>9, TakeBatchPromise
  <1>10. ASSUME RunCallback PROVE Promise!Next
    BY <1>10, RunCallbackPromise
  <1>11. ASSUME CompleteCallback PROVE Promise!Next
    BY <1>11, CompletePromise
  <1>12. ASSUME EndDrain PROVE UNCHANGED Promise!vars
    BY <1>12, <1>a, <1>b DEF EndDrain, core, history
  <1>13. ASSUME DestroyDiscard PROVE Promise!Next \/ UNCHANGED Promise!vars
    <2>1. destroyer \in Threads
      BY <1>13 DEF DestroyDiscard, IndInv, TypeOK, DrainExact
    <2> QED
      BY <1>13, <2>1, DiscardPromise DEF DestroyDiscard, drainVars, history
  <1>14. ASSUME DestroyDelete PROVE UNCHANGED Promise!vars
    BY <1>14, <1>a, <1>b DEF DestroyDelete, core, drainVars, history
  <1>15. CASE UNCHANGED vars
    BY <1>15, <1>a, <1>b DEF vars, core, drainVars, history
  <1> QED
    BY <1>1, <1>2, <1>3, <1>4, <1>5, <1>6, <1>7, <1>8, <1>9, <1>10, <1>11,
       <1>12, <1>13, <1>14, <1>15 DEF Next, Deleted

\* dispatcher.h: under every interleaving of the threads the dispatcher is a
\* line of work: posting order, one batch at a time, each work called at most
\* once and disposed after it left the line.  (The fairness of the promise
\* needs that of the dispatcher and stays with TLC.)
THEOREM DispatcherKeepsPromise == Spec => Promise!SafeSpec
  <1>1. Init => Promise!Init
    <2> SUFFICES ASSUME Init PROVE Promise!Init
      OBVIOUS
    <2>1. Accepted = {} /\ DueWorks = {} /\ DisposedWorks = {}
      BY DEF Init, Accepted, DueWorks, DisposedWorks
    <2>2. WaitingWorks = <<>> /\ BatchWorks = <<>>
      BY DEF Init, WaitingWorks, BatchWorks
    <2>3. LastWork = 0 /\ ReservedWorks = <<>> /\ RunningWorks = {} /\ open = TRUE
      BY <2>1, <2>2 DEF Init, LastWork, ReservedWorks, RunningWorks
    <2> QED
      BY <2>1, <2>2, <2>3 DEF Promise!Init
  <1>2. IndInv /\ [Next]_vars => [Promise!Next]_(Promise!vars)
    BY PromiseStep
  <1> QED
    BY Invariance, <1>1, <1>2, PTL DEF Spec, Promise!SafeSpec
=============================================================================
