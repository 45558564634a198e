------------------------ MODULE RemoteProfiler_proofs ------------------------
(***************************************************************************)
(* Theorems about the queue of two indices and about the remote profiler   *)
(* that is built over it.                                                  *)
(*                                                                         *)
(* The queue is a bounded FIFO, for every capacity and every interleaving  *)
(* of its two threads.  The argument is arithmetic on a ring: the slots in *)
(* use are those from the first to the one before tail, the producer       *)
(* touches only the slot at tail, which a queue that is not full leaves    *)
(* unused, and the consumer only the slot at head.  It rests on the        *)
(* assumption about the queue alone.                                       *)
(*                                                                         *)
(* The profiler uses its command queue as the queue demands, a stopped     *)
(* service is idle, what is queued when a connection ends is never sent,   *)
(* and the controls are applied in the order in which they were sent,      *)
(* because the numbers rise from what is applied over the target's queue,  *)
(* the wire and the client's queue to the next number to give.  What the   *)
(* source knows of the frames, once it has read what is on its way, is     *)
(* what the target takes it to know.  For any names, capacities and        *)
(* bounds.                                                                 *)
(***************************************************************************)
EXTENDS RemoteProfiler, SequenceTheorems, TLAPS

-----------------------------------------------------------------------------
(* The ring. *)

\* Increment walks the ring and visits every index once.
LEMMA IncrementFacts ==
    ASSUME NEW i \in Indices
    PROVE  /\ Increment(i) \in Indices /\ Increment(i) # i
           /\ \A j \in Indices : Increment(i) = Increment(j) => i = j
  BY QueueAssumption DEF Indices, Increment

\* Distance counts the steps from one index to another.
LEMMA DistanceFacts ==
    ASSUME NEW i \in Indices, NEW j \in Indices
    PROVE  /\ Distance(i, j) \in 0..Capacity
           /\ Distance(i, j) = 0 <=> i = j
           /\ Plus(i, Distance(i, j)) = j
           /\ Increment(j) # i => Distance(i, Increment(j)) = Distance(i, j) + 1
           /\ i # j => Distance(Increment(i), j) = Distance(i, j) - 1
           /\ Increment(j) = i <=> Distance(i, j) = Capacity
  BY QueueAssumption DEF Indices, Increment, Distance, Plus

\* Plus is the index a number of steps ahead.
LEMMA PlusFacts ==
    ASSUME NEW i \in Indices, NEW k \in 0..Capacity
    PROVE  /\ Plus(i, k) \in Indices
           /\ Distance(i, Plus(i, k)) = k
           /\ Plus(i, 0) = i
           /\ k < Capacity => Plus(Increment(i), k) = Plus(i, k + 1)
  BY QueueAssumption DEF Indices, Increment, Distance, Plus

-----------------------------------------------------------------------------
(* The invariant. *)

\* The slots that hold a value are those from the first to the one before
\* tail, and the slot at tail once the producer has written it.
SlotsExact ==
    \A i \in Indices :
        slots[i] # Nothing <=> \/ Distance(First, i) < Distance(First, tail)
                               \/ putting /\ i = tail

\* A push under way keeps its room, a pop under way its value.
InHand ==
    /\ putting => ~IsFull
    /\ taking => ~IsEmpty

IndInv == QueueTypeOK /\ SlotsExact /\ InHand

\* The queue starts empty, with both indices at zero.
LEMMA InitEstablishes == QueueInit => IndInv
  <1> SUFFICES ASSUME QueueInit PROVE IndInv
    OBVIOUS
  <1>1. 0 \in Indices /\ First = 0
    BY QueueAssumption DEF QueueInit, Indices, First
  <1>2. QueueTypeOK
    BY <1>1 DEF QueueInit, QueueTypeOK
  <1>3. InHand
    BY DEF QueueInit, InHand
  <1>4. \A i \in Indices : slots[i] = Nothing /\ ~(Distance(0, i) < Distance(0, 0))
    BY <1>1, DistanceFacts DEF QueueInit
  <1> QED
    BY <1>1, <1>2, <1>3, <1>4 DEF IndInv, SlotsExact, QueueInit

\* The first slot in use is on the ring.
LEMMA FirstFacts ==
    ASSUME QueueTypeOK
    PROVE  First \in Indices
  BY IncrementFacts DEF QueueTypeOK, First

\* A value may be written at tail: a queue that is not full leaves it free.
LEMMA WriteSlotKeeps ==
    ASSUME IndInv, NEW v \in Items, WriteSlot(v)
    PROVE  IndInv'
  <1>1. QueueTypeOK'
    BY QueueAssumption DEF IndInv, QueueTypeOK, WriteSlot
  <1>2. InHand'
    BY DEF IndInv, InHand, WriteSlot, IsFull, IsEmpty
  <1>3. First \in Indices /\ tail \in Indices /\ First' = First
    BY FirstFacts DEF IndInv, QueueTypeOK, WriteSlot, First
  <1>4. ~(Distance(First, tail) < Distance(First, tail))
    BY <1>3, DistanceFacts
  <1>5. SlotsExact'
    BY <1>3, <1>4, QueueAssumption DEF IndInv, QueueTypeOK, SlotsExact, WriteSlot
  <1> QED
    BY <1>1, <1>2, <1>5 DEF IndInv

\* Moving tail puts the written slot among those in use.
LEMMA PublishTailKeeps ==
    ASSUME IndInv, PublishTail
    PROVE  IndInv'
  <1>1. QueueTypeOK'
    BY IncrementFacts DEF IndInv, QueueTypeOK, PublishTail
  <1>2. First \in Indices /\ tail \in Indices /\ head \in Indices /\ First' = First
    BY FirstFacts DEF IndInv, QueueTypeOK, PublishTail, First
  <1>3. Increment(tail) # head /\ (taking => head # tail)
    BY DEF IndInv, InHand, PublishTail, IsFull, IsEmpty
  <1>4. InHand'
    BY <1>3 DEF InHand, PublishTail, IsEmpty, IsFull
  <1>5. Increment(tail) # First
    BY <1>2, <1>3, IncrementFacts DEF First
  <1>6. Distance(First, Increment(tail)) = Distance(First, tail) + 1
    BY <1>2, <1>5, DistanceFacts
  <1>7. \A i \in Indices : Distance(First, i) = Distance(First, tail) <=> i = tail
    BY <1>2, DistanceFacts
  <1>8. \A i \in Indices :
           Distance(First, i) < Distance(First, tail) + 1
             <=> Distance(First, i) < Distance(First, tail) \/ i = tail
    BY <1>2, <1>7, DistanceFacts
  <1>9. SlotsExact'
    BY <1>2, <1>6, <1>8 DEF IndInv, SlotsExact, PublishTail
  <1> QED
    BY <1>1, <1>4, <1>9 DEF IndInv

\* The value taken leaves its slot, which is no longer the first.
LEMMA EmptySlotKeeps ==
    ASSUME IndInv, EmptySlot
    PROVE  IndInv'
  <1>1. head \in Indices /\ tail \in Indices /\ head # tail /\ First = head
        /\ First' = Increment(head) /\ Increment(head) \in Indices
    BY IncrementFacts DEF IndInv, QueueTypeOK, EmptySlot, IsEmpty, First, Increment
  <1>2. QueueTypeOK'
    BY <1>1 DEF IndInv, QueueTypeOK, EmptySlot
  <1>3. InHand'
    BY <1>1 DEF IndInv, InHand, EmptySlot, IsFull, IsEmpty
  <1>4. Distance(First', tail) = Distance(head, tail) - 1
    BY <1>1, DistanceFacts
  <1>5. \A i \in Indices \ {head} : Distance(First', i) = Distance(head, i) - 1
    BY <1>1, DistanceFacts
  <1>6. Distance(First', head) = Capacity /\ ~(Capacity < Distance(First', tail))
    <2>1. Distance(First', head) = Capacity /\ Distance(First', tail) \in 0..Capacity
      BY <1>1, DistanceFacts
    <2> QED
      BY <2>1, QueueAssumption
  <1>7. ASSUME NEW i \in Indices
        PROVE  slots'[i] # Nothing <=> \/ Distance(First', i) < Distance(First', tail)
                                       \/ putting /\ i = tail
    <2>1. CASE i = head
      BY <2>1, <1>1, <1>6 DEF IndInv, QueueTypeOK, EmptySlot
    <2>2. CASE i # head
      <3>1. slots'[i] = slots[i]
        BY <2>2 DEF IndInv, QueueTypeOK, EmptySlot
      <3>2. Distance(head, i) \in Nat /\ Distance(head, tail) \in Nat
        BY <1>1, DistanceFacts
      <3>3. Distance(First', i) < Distance(First', tail) <=> Distance(head, i) < Distance(head, tail)
        BY <2>2, <3>2, <1>4, <1>5
      <3> QED
        BY <3>1, <3>3, <1>1 DEF IndInv, SlotsExact
    <2> QED
      BY <2>1, <2>2
  <1>8. SlotsExact'
    BY <1>7 DEF SlotsExact, EmptySlot
  <1> QED
    BY <1>2, <1>3, <1>8 DEF IndInv

\* Moving head gives the emptied slot back; the slots in use are the same.
LEMMA PublishHeadKeeps ==
    ASSUME IndInv, PublishHead
    PROVE  IndInv'
  <1>1. QueueTypeOK'
    BY IncrementFacts DEF IndInv, QueueTypeOK, PublishHead
  <1>2. head \in Indices /\ tail \in Indices /\ head # tail /\ (putting => Increment(tail) # head)
    BY DEF IndInv, QueueTypeOK, InHand, PublishHead, IsFull, IsEmpty
  <1>3. Increment(tail) # Increment(head)
    BY <1>2, IncrementFacts
  <1>4. InHand'
    BY <1>2, <1>3 DEF InHand, PublishHead, IsFull, IsEmpty
  <1>5. First' = First
    BY DEF PublishHead, First
  <1>6. SlotsExact'
    BY <1>5 DEF IndInv, SlotsExact, PublishHead
  <1> QED
    BY <1>1, <1>4, <1>6 DEF IndInv

\* Every step keeps the invariant.
LEMMA StepKeeps == IndInv /\ [QueueNext]_queueVars => IndInv'
  <1> SUFFICES ASSUME IndInv, [QueueNext]_queueVars PROVE IndInv'
    OBVIOUS
  <1>1. CASE \E v \in Items : WriteSlot(v)
    BY <1>1, WriteSlotKeeps
  <1>2. CASE PublishTail
    BY <1>2, PublishTailKeeps
  <1>3. CASE EmptySlot
    BY <1>3, EmptySlotKeeps
  <1>4. CASE PublishHead
    BY <1>4, PublishHeadKeeps
  <1>5. CASE UNCHANGED queueVars
    <2>1. First' = First
      BY <1>5 DEF queueVars, First
    <2> QED
      BY <1>5, <2>1 DEF queueVars, IndInv, QueueTypeOK, SlotsExact, InHand, IsFull, IsEmpty
  <1> QED
    BY <1>1, <1>2, <1>3, <1>4, <1>5 DEF QueueNext

\* Type, slots and what is in hand together are inductive.
LEMMA Invariance == QueueSpec => []IndInv
  BY InitEstablishes, StepKeeps, PTL DEF QueueSpec

\* try_push never overwrites a value and try_pop never finds an empty slot:
\* exactly the slots between the indices hold values.
THEOREM SlotsAreExact == QueueSpec => []SlotsExact
  <1>1. IndInv => SlotsExact
    BY DEF IndInv
  <1> QED
    BY Invariance, <1>1, PTL

-----------------------------------------------------------------------------
(* The refinement. *)

ContentsOK ==
    /\ Contents \in Seq(Items)
    /\ Len(Contents) = Distance(First, tail)
    /\ \A k \in 1..Distance(First, tail) : Contents[k] = slots[Plus(First, k - 1)]

\* What waits is a sequence of values as long as the stretch in use.
LEMMA ContentsFacts == IndInv => ContentsOK
  <1> SUFFICES ASSUME IndInv PROVE ContentsOK
    OBVIOUS
  <1> DEFINE n == Distance(First, tail)
  <1>1. First \in Indices /\ tail \in Indices /\ n \in 0..Capacity
    BY FirstFacts, DistanceFacts DEF IndInv, QueueTypeOK
  <1>2. ASSUME NEW k \in 1..n
        PROVE  slots[Plus(First, k - 1)] \in Items
    <2>1. k - 1 \in 0..Capacity /\ k - 1 < n
      BY <1>1, QueueAssumption
    <2>2. Plus(First, k - 1) \in Indices /\ Distance(First, Plus(First, k - 1)) = k - 1
      BY <1>1, <2>1, PlusFacts
    <2>3. slots[Plus(First, k - 1)] # Nothing
      BY <2>1, <2>2 DEF IndInv, SlotsExact
    <2> QED
      BY <2>2, <2>3 DEF IndInv, QueueTypeOK
  <1>3. Contents = [k \in 1..n |-> slots[Plus(First, k - 1)]]
    BY DEF Contents
  <1>4. n \in Nat
    BY <1>1, QueueAssumption
  <1> HIDE DEF n
  <1>5. Contents \in [1..n -> Items]
    BY <1>2, <1>3
  <1>6. Contents \in Seq(Items) /\ Len(Contents) = n
    BY <1>4, <1>5, SeqDef, LenProperties
  <1> QED
    BY <1>3, <1>6 DEF n, ContentsOK

\* The same holds after a step that keeps the invariant.
LEMMA ContentsFactsNext == IndInv' => ContentsOK'
  BY ContentsFacts, PTL

\* A value written and not published is not in the queue yet.
LEMMA WriteSlotStutters ==
    ASSUME IndInv, NEW v \in Items, WriteSlot(v)
    PROVE  UNCHANGED <<Contents, taken>>
  <1> DEFINE n == Distance(First, tail)
  <1>1. First \in Indices /\ tail \in Indices /\ n \in 0..Capacity /\ n \in Nat /\ First' = First
    BY FirstFacts, DistanceFacts, QueueAssumption DEF IndInv, QueueTypeOK, WriteSlot, First
  <1>2. ASSUME NEW k \in 1..n
        PROVE  slots'[Plus(First, k - 1)] = slots[Plus(First, k - 1)]
    <2>1. k - 1 \in 0..Capacity /\ k - 1 # n
      BY <1>1, QueueAssumption
    <2>2. Plus(First, k - 1) \in Indices /\ Plus(First, k - 1) # tail
      BY <1>1, <2>1, PlusFacts
    <2> QED
      BY <2>2 DEF IndInv, QueueTypeOK, WriteSlot
  <1>3. taken' = taken /\ tail' = tail
    BY DEF WriteSlot
  <1> QED
    BY <1>1, <1>2, <1>3 DEF Contents

\* The move of tail puts a value at the end, and there is room for it.
LEMMA PublishTailPuts ==
    ASSUME IndInv, PublishTail
    PROVE  Fifo!Put
  <1> DEFINE n == Distance(First, tail)
  <1>1. First \in Indices /\ tail \in Indices /\ head \in Indices /\ First' = First
    BY FirstFacts DEF IndInv, QueueTypeOK, PublishTail, First
  <1>2. Increment(tail) # head /\ (taking => head # tail)
    BY DEF IndInv, InHand, PublishTail, IsFull, IsEmpty
  <1>3. Increment(tail) # First
    BY <1>1, <1>2, IncrementFacts DEF First
  <1>4. /\ n \in 0..Capacity /\ n # Capacity
        /\ Distance(First, tail') = n + 1
        /\ Plus(First, n) = tail
    BY <1>1, <1>3, DistanceFacts DEF PublishTail
  <1>5. n \in Nat /\ n < Capacity
    BY <1>4, QueueAssumption
  <1>6. slots[tail] \in Items
    BY <1>1 DEF IndInv, QueueTypeOK, SlotsExact, PublishTail
  <1>7. /\ Contents \in Seq(Items) /\ Len(Contents) = n
        /\ \A k \in 1..n : Contents[k] = slots[Plus(First, k - 1)]
    BY ContentsFacts DEF ContentsOK
  <1>8. IndInv'
    BY PublishTailKeeps
  <1>9. /\ Contents' \in Seq(Items) /\ Len(Contents') = n + 1
        /\ \A k \in 1..(n + 1) : Contents'[k] = slots[Plus(First, k - 1)]
    <2>1. /\ Contents' \in Seq(Items)
          /\ Len(Contents') = Distance(First', tail')
          /\ \A k \in 1..Distance(First', tail') : Contents'[k] = slots'[Plus(First', k - 1)]
      BY <1>8, ContentsFactsNext DEF ContentsOK
    <2> QED
      BY <2>1, <1>1, <1>4 DEF PublishTail
  <1> HIDE DEF n
  <1>10. Contents' = Append(Contents, slots[tail])
    <2> DEFINE longer == Append(Contents, slots[tail])
    <2>1. /\ longer \in Seq(Items) /\ Len(longer) = n + 1
          /\ \A k \in 1..n : longer[k] = Contents[k]
          /\ longer[n + 1] = slots[tail]
      BY <1>6, <1>7, AppendProperties
    <2>2. (n + 1) - 1 = n
      BY <1>5
    <2>3. \A k \in 1..(n + 1) : Contents'[k] = longer[k]
      <3> TAKE k \in 1..(n + 1)
      <3>1. CASE k = n + 1
        BY <3>1, <2>1, <2>2, <1>4, <1>5, <1>9
      <3>2. CASE k # n + 1
        <4>1. k \in 1..n
          BY <3>2, <1>5
        <4> QED
          BY <4>1, <2>1, <1>7, <1>9
      <3> QED
        BY <3>1, <3>2
    <2> HIDE DEF longer
    <2>4. Contents' = longer
      BY <2>1, <2>3, <1>9, SeqEqual
    <2> QED
      BY <2>4 DEF longer
  <1>11. taken' = taken
    BY DEF PublishTail
  <1> QED
    BY <1>5, <1>6, <1>7, <1>10, <1>11 DEF Fifo!Put

\* Emptying a slot takes the first value.
LEMMA EmptySlotTakes ==
    ASSUME IndInv, EmptySlot
    PROVE  Fifo!Take
  <1> DEFINE n == Distance(head, tail)
  <1>1. head \in Indices /\ tail \in Indices /\ head # tail /\ First = head
        /\ First' = Increment(head) /\ Increment(head) \in Indices
    BY IncrementFacts DEF IndInv, QueueTypeOK, EmptySlot, IsEmpty, First, Increment
  <1>2. n \in 0..Capacity /\ n # 0 /\ Distance(First', tail) = n - 1 /\ Plus(head, 0) = head
    BY <1>1, DistanceFacts, PlusFacts, QueueAssumption
  <1>3. n \in Nat \ {0} /\ 1 \in 1..n
    BY <1>2, QueueAssumption
  <1>4. /\ Contents \in Seq(Items) /\ Len(Contents) = n
        /\ \A k \in 1..n : Contents[k] = slots[Plus(head, k - 1)]
    BY <1>1, ContentsFacts DEF ContentsOK
  <1>5. /\ Contents' \in Seq(Items) /\ Len(Contents') = n - 1
        /\ \A k \in 1..(n - 1) : Contents'[k] = slots'[Plus(Increment(head), k - 1)]
    <2>1. IndInv'
      BY EmptySlotKeeps
    <2>2. /\ Contents' \in Seq(Items)
          /\ Len(Contents') = Distance(First', tail')
          /\ \A k \in 1..Distance(First', tail') : Contents'[k] = slots'[Plus(First', k - 1)]
      BY <2>1, ContentsFactsNext DEF ContentsOK
    <2>3. tail' = tail
      BY DEF EmptySlot
    <2> QED
      BY <2>2, <2>3, <1>1, <1>2
  <1>6. ASSUME NEW k \in 1..(n - 1)
        PROVE  Contents'[k] = Contents[k + 1]
    <2>1. k - 1 \in 0..Capacity /\ k - 1 < Capacity /\ k \in 0..Capacity /\ k # 0 /\ k + 1 \in 1..n
          /\ (k - 1) + 1 = k /\ (k + 1) - 1 = k
      BY <1>2, <1>3, QueueAssumption
    <2>2. Plus(Increment(head), k - 1) = Plus(head, (k - 1) + 1)
      BY <1>1, <2>1, PlusFacts
    <2>3. Plus(head, k) \in Indices /\ Distance(head, Plus(head, k)) = k /\ Distance(head, head) = 0
      BY <1>1, <2>1, PlusFacts, DistanceFacts
    <2>4. Plus(head, k) # head
      BY <2>1, <2>3
    <2>5. slots'[Plus(head, k)] = slots[Plus(head, k)]
      BY <2>3, <2>4 DEF IndInv, QueueTypeOK, EmptySlot
    <2>6. Contents[k + 1] = slots[Plus(head, k)]
      BY <2>1, <1>4
    <2>7. Contents'[k] = slots'[Plus(head, k)]
      BY <2>1, <2>2, <1>5
    <2> QED
      BY <2>5, <2>6, <2>7
  <1>7. taken' = slots[head]
    BY DEF EmptySlot
  <1>8. Contents[1] = slots[head]
    <2>1. 1 - 1 = 0
      OBVIOUS
    <2> QED
      BY <2>1, <1>2, <1>3, <1>4
  <1> HIDE DEF n
  <1>9. Contents # <<>> /\ Head(Contents) = Contents[1]
        /\ Tail(Contents) \in Seq(Items) /\ Len(Tail(Contents)) = n - 1
        /\ \A k \in 1..(n - 1) : Tail(Contents)[k] = Contents[k + 1]
    BY <1>3, <1>4, HeadTailProperties, EmptySeq
  <1>10. Contents' = Tail(Contents)
    BY <1>5, <1>6, <1>9, SeqEqual
  <1> QED
    BY <1>7, <1>8, <1>9, <1>10 DEF Fifo!Take

\* The move of head changes nothing of what waits.
LEMMA PublishHeadStutters ==
    ASSUME IndInv, PublishHead
    PROVE  UNCHANGED <<Contents, taken>>
  <1>1. First' = First
    BY DEF PublishHead, First
  <1> QED
    BY <1>1 DEF PublishHead, Contents

\* Values are delivered once and in order, and no more than Capacity wait,
\* for every capacity and every interleaving of the two threads.
THEOREM QueueImplementsFifo == QueueSpec => ImplementsFifo
  <1>1. QueueInit => Fifo!Init
    <2> SUFFICES ASSUME QueueInit PROVE Fifo!Init
      OBVIOUS
    <2>1. IndInv
      BY InitEstablishes
    <2>2. First = 0 /\ tail = 0 /\ 0 \in Indices /\ taken = Nothing
      BY QueueAssumption DEF QueueInit, First, Indices
    <2>3. Len(Contents) = 0 /\ Contents \in Seq(Items)
      BY <2>1, <2>2, ContentsFacts, DistanceFacts DEF ContentsOK
    <2>4. Contents = <<>>
      BY <2>3, EmptySeq
    <2> QED
      BY <2>2, <2>4 DEF Fifo!Init
  <1>2. IndInv /\ [QueueNext]_queueVars => [Fifo!Next]_<<Contents, taken>>
    <2> SUFFICES ASSUME IndInv, [QueueNext]_queueVars
                 PROVE  [Fifo!Next]_<<Contents, taken>>
      OBVIOUS
    <2>1. CASE \E v \in Items : WriteSlot(v)
      BY <2>1, WriteSlotStutters
    <2>2. CASE PublishTail
      BY <2>2, PublishTailPuts DEF Fifo!Next
    <2>3. CASE EmptySlot
      BY <2>3, EmptySlotTakes DEF Fifo!Next
    <2>4. CASE PublishHead
      BY <2>4, PublishHeadStutters
    <2>5. CASE UNCHANGED queueVars
      <3>1. First' = First /\ slots' = slots /\ tail' = tail /\ taken' = taken
        BY <2>5 DEF queueVars, First
      <3> QED
        BY <3>1 DEF Contents
    <2> QED
      BY <2>1, <2>2, <2>3, <2>4, <2>5 DEF QueueNext
  <1> QED
    BY Invariance, <1>1, <1>2, PTL DEF QueueSpec, ImplementsFifo, Fifo!Spec

-----------------------------------------------------------------------------
(* The profiler uses the queue. *)

\* Request numbers count up from one.
Numbered == nextRequest \in Nat \ {0}

\* The source numbers what it sends.
LEMMA InitNumbered == Init => Numbered
  BY DEF Init, Numbered

\* A push has a control of its own number; every other access of the queue
\* is one of its steps.
LEMMA SendUsesQueue ==
    ASSUME Numbered, NEW kind \in Kinds, Send(kind)
    PROVE  [QueueNext]_queueVars /\ Numbered'
  <1>1. [id |-> nextRequest, kind |-> kind] \in Items
    BY ProfilerAssumption DEF Numbered, Controls, Send
  <1>2. CASE WriteSlot([id |-> nextRequest, kind |-> kind])
    BY <1>1, <1>2 DEF QueueNext, Send, Numbered
  <1>3. CASE UNCHANGED queueVars
    BY <1>3 DEF Send, Numbered
  <1> QED
    BY <1>2, <1>3 DEF Send

\* Only the source numbers controls, and only the source and the worker use
\* the queue.
LEMMA SourceUsesQueue ==
    ASSUME Numbered, Source
    PROVE  [QueueNext]_queueVars /\ Numbered'
  <1>1. CASE \E kind \in Kinds : Send(kind)
    BY <1>1, SendUsesQueue
  <1>2. CASE SendEnds
    BY <1>2 DEF SendEnds, QueueNext, Numbered, sourceVars
  <1> QED
    BY <1>1, <1>2 DEF Source

\* The worker pops, to send or to discard.
LEMMA WorkerUsesQueue ==
    ASSUME Numbered, Worker
    PROVE  [QueueNext]_queueVars /\ Numbered'
  <1>1. CASE Connect
    BY <1>1 DEF Connect, sourceVars, Numbered
  <1>2. CASE ReceiveHello
    BY <1>2 DEF ReceiveHello, Numbered
  <1>3. CASE HandshakeFails
    BY <1>3 DEF HandshakeFails, sourceVars, Numbered
  <1>4. CASE PopControl
    BY <1>4 DEF PopControl, QueueNext, sourceVars, Numbered
  <1>5. CASE TransmitControl
    BY <1>5 DEF TransmitControl, QueueNext, sourceVars, Numbered
  <1>6. CASE QueueSeenEmpty
    BY <1>6 DEF QueueSeenEmpty, sourceVars, Numbered
  <1>7. CASE ReadMessage
    BY <1>7 DEF ReadMessage, Numbered
  <1>8. CASE WaitTimesOut
    BY <1>8 DEF WaitTimesOut, sourceVars, Numbered
  <1>9. CASE ReadFails
    BY <1>9 DEF ReadFails, sourceVars, Numbered
  <1>10. CASE Release
    BY <1>10 DEF Release, sourceVars, Numbered
  <1>11. CASE DiscardControl
    BY <1>11 DEF DiscardControl, QueueNext, sourceVars, Numbered
  <1>12. CASE DiscardEnds
    BY <1>12 DEF DiscardEnds, sourceVars, Numbered
  <1>13. CASE NotifyDisconnect
    BY <1>13 DEF NotifyDisconnect, Numbered
  <1> QED
    BY <1>1, <1>2, <1>3, <1>4, <1>5, <1>6, <1>7, <1>8, <1>9, <1>10, <1>11, <1>12, <1>13 DEF Worker

\* The target and the faults leave the client alone.
LEMMA TargetLeavesClient ==
    ASSUME IoThread \/ FrameThread \/ Break \/ Crash
    PROVE  UNCHANGED clientVars
  <1>1. CASE IoThread
    <2>1. CASE Accept \/ Greet \/ SendPacket \/ OutboundSeenEmpty
      BY <2>1 DEF Accept, Greet, SendPacket, OutboundSeenEmpty
    <2>2. CASE ReceiveControl \/ PushCommand \/ NothingToReceive
      BY <2>2 DEF ReceiveControl, PushCommand, NothingToReceive
    <2>3. CASE SessionEnds \/ ThreadEnds
      BY <2>3 DEF SessionEnds, ThreadEnds
    <2> QED
      BY <1>1, <2>1, <2>2, <2>3 DEF IoThread
  <1>2. CASE FrameThread
    <2>1. CASE Start \/ PumpBegin \/ ApplyCommand
      BY <2>1 DEF Start, PumpBegin, ApplyCommand
    <2>2. CASE PumpEnd \/ StopBegin \/ StopEnd
      BY <2>2 DEF PumpEnd, StopBegin, StopEnd
    <2> QED
      BY <1>2, <2>1, <2>2 DEF FrameThread
  <1>3. CASE Break \/ Crash
    BY <1>3 DEF Break, Crash
  <1> QED
    BY <1>1, <1>2, <1>3

\* Every step of the profiler is a step of its queue or leaves it alone.
LEMMA StepUsesQueue == Numbered /\ [Next]_vars => [QueueNext]_queueVars /\ Numbered'
  <1> SUFFICES ASSUME Numbered, [Next]_vars PROVE [QueueNext]_queueVars /\ Numbered'
    OBVIOUS
  <1>1. CASE Source
    BY <1>1, SourceUsesQueue
  <1>2. CASE Worker
    BY <1>2, WorkerUsesQueue
  <1>3. CASE UNCHANGED clientVars
    BY <1>3 DEF clientVars, sourceVars, Numbered
  <1>4. CASE UNCHANGED vars
    BY <1>4, <1>3 DEF vars
  <1> QED
    BY <1>1, <1>2, <1>3, <1>4, TargetLeavesClient DEF Next

\* The command queue of the client is used as the queue demands: one thread
\* at a time pushes, one pops.
THEOREM ProfilerUsesQueue == Spec => QueueSpec
  <1>1. Init => QueueInit
    BY DEF Init
  <1> QED
    BY <1>1, InitNumbered, StepUsesQueue, PTL DEF Spec, QueueSpec

\* The client's controls leave its queue once each and in order, whatever the
\* connection and the target do.
THEOREM CommandsAreFifo == Spec => ImplementsFifo
  BY ProfilerUsesQueue, QueueImplementsFifo, PTL

-----------------------------------------------------------------------------
(* A stopped service. *)

\* The I/O thread runs between start and the join in stop, and its socket
\* and what it holds belong to a run of the service.
Lifecycle ==
    /\ frame \in {"idle", "free", "pumping", "stopping"}
    /\ frame = "idle" => io = "off"
    /\ running <=> frame \in {"free", "pumping"}
    /\ served # 0 => running
    /\ hand # Nothing => io = "pushing"

StopInv == Lifecycle /\ StoppedIsIdle

\* A process starts with the service stopped.
LEMMA InitStopped == Init => StopInv
  BY DEF Init, StopInv, Lifecycle, StoppedIsIdle

\* The I/O thread does not run while the service is idle.
LEMMA IoKeepsStopInv ==
    ASSUME StopInv, IoThread
    PROVE  StopInv'
  <1>1. frame # "idle" /\ frame' = frame /\ running' = running
    <2>1. CASE Accept \/ Greet \/ SendPacket \/ OutboundSeenEmpty
      BY <2>1 DEF StopInv, Lifecycle, Accept, Greet, SendPacket, OutboundSeenEmpty, frameVars
    <2>2. CASE ReceiveControl \/ PushCommand \/ NothingToReceive
      BY <2>2 DEF StopInv, Lifecycle, ReceiveControl, PushCommand, NothingToReceive, frameVars
    <2>3. CASE SessionEnds \/ ThreadEnds
      BY <2>3 DEF StopInv, Lifecycle, SessionEnds, ThreadEnds, frameVars
    <2> QED
      BY <2>1, <2>2, <2>3 DEF IoThread
  <1>2. (served' # 0 => running') /\ (hand' # Nothing => io' = "pushing")
    <2>1. CASE Accept
      BY <2>1, <1>1 DEF StopInv, Lifecycle, Accept
    <2>2. CASE Greet \/ SendPacket \/ OutboundSeenEmpty
      BY <2>2, <1>1 DEF StopInv, Lifecycle, Greet, SendPacket, OutboundSeenEmpty
    <2>3. CASE ReceiveControl \/ PushCommand \/ NothingToReceive
      BY <2>3, <1>1 DEF StopInv, Lifecycle, ReceiveControl, PushCommand, NothingToReceive
    <2>4. CASE SessionEnds \/ ThreadEnds
      BY <2>4, <1>1 DEF StopInv, Lifecycle, SessionEnds, ThreadEnds
    <2> QED
      BY <2>1, <2>2, <2>3, <2>4 DEF IoThread
  <1> QED
    BY <1>1, <1>2 DEF StopInv, Lifecycle, StoppedIsIdle

\* stop clears everything once the thread is gone.
LEMMA FrameKeepsStopInv ==
    ASSUME StopInv, FrameThread
    PROVE  StopInv'
  <1>1. CASE Start
    BY <1>1 DEF StopInv, Lifecycle, StoppedIsIdle, Start
  <1>2. CASE PumpBegin
    BY <1>2 DEF StopInv, Lifecycle, StoppedIsIdle, PumpBegin, ioVars
  <1>3. CASE ApplyCommand
    BY <1>3 DEF StopInv, Lifecycle, StoppedIsIdle, ApplyCommand, ioVars
  <1>4. CASE PumpEnd
    BY <1>4 DEF StopInv, Lifecycle, StoppedIsIdle, PumpEnd, ioVars
  <1>5. CASE StopBegin
    BY <1>5 DEF StopInv, Lifecycle, StoppedIsIdle, StopBegin
  <1>6. CASE StopEnd
    BY <1>6 DEF StopInv, Lifecycle, StoppedIsIdle, StopEnd, ioVars
  <1> QED
    BY <1>1, <1>2, <1>3, <1>4, <1>5, <1>6 DEF FrameThread

\* The client and the wire have no part in it.
LEMMA ClientLeavesTarget ==
    ASSUME Source \/ Worker \/ Break
    PROVE  UNCHANGED targetVars
  <1>1. CASE Source
    BY <1>1 DEF Source, Send, SendEnds
  <1>2. CASE Worker
    <2>1. CASE Connect \/ ReceiveHello \/ HandshakeFails
      BY <2>1 DEF Connect, ReceiveHello, HandshakeFails
    <2>2. CASE PopControl \/ TransmitControl \/ QueueSeenEmpty
      BY <2>2 DEF PopControl, TransmitControl, QueueSeenEmpty
    <2>3. CASE ReadMessage \/ WaitTimesOut \/ ReadFails
      BY <2>3 DEF ReadMessage, WaitTimesOut, ReadFails
    <2>4. CASE Release \/ DiscardControl \/ DiscardEnds \/ NotifyDisconnect
      BY <2>4 DEF Release, DiscardControl, DiscardEnds, NotifyDisconnect
    <2> QED
      BY <1>2, <2>1, <2>2, <2>3, <2>4 DEF Worker
  <1>3. CASE Break
    BY <1>3 DEF Break
  <1> QED
    BY <1>1, <1>2, <1>3

\* Every step keeps the invariant.
LEMMA StepKeepsStopInv == StopInv /\ [Next]_vars => StopInv'
  <1> SUFFICES ASSUME StopInv, [Next]_vars PROVE StopInv'
    OBVIOUS
  <1>1. CASE IoThread
    BY <1>1, IoKeepsStopInv
  <1>2. CASE FrameThread
    BY <1>2, FrameKeepsStopInv
  <1>3. CASE UNCHANGED targetVars
    BY <1>3 DEF targetVars, ioVars, frameVars, StopInv, Lifecycle, StoppedIsIdle
  <1>4. CASE Crash
    BY <1>4 DEF Crash, StopInv, Lifecycle, StoppedIsIdle
  <1>5. CASE UNCHANGED vars
    BY <1>5, <1>3 DEF vars
  <1> QED
    BY <1>1, <1>2, <1>3, <1>4, <1>5, ClientLeavesTarget DEF Next

\* A service that is stopped holds nothing of its last run: no command, no
\* packet, no capture, no report of a loss, no thread and no connection.
THEOREM StoppedServiceIsIdle == Spec => []StoppedIsIdle
  <1>1. StopInv => StoppedIsIdle
    BY DEF StopInv
  <1> QED
    BY InitStopped, StepKeepsStopInv, <1>1, PTL DEF Spec

-----------------------------------------------------------------------------
(* What is queued when a connection ends. *)

\* A slot holds a control that was numbered before, no two the same; a
\* control from before the end of a connection is only found in the queue,
\* or in the hand of the worker, while the worker discards.
Slotted == \A i \in Indices : slots[i] # Nothing => slots[i].id \in 1..(nextRequest - 1)
Distinct ==
    \A i, j \in Indices :
        slots[i] # Nothing /\ slots[j] # Nothing /\ slots[i].id = slots[j].id => i = j
Told == stale \subseteq 1..(nextRequest - 1)
NoneStale ==
    worker # "discarding" =>
        /\ \A i \in Indices : slots[i] # Nothing => slots[i].id \notin stale
        /\ taking => taken.id \notin stale
PushedIsNew == putting => slots[tail].id \notin stale
HandOfWorker == taking => worker \in {"serving", "discarding"}

DiscardInv ==
    /\ IndInv /\ Numbered
    /\ Slotted /\ Distinct /\ Told /\ NoneStale /\ PushedIsNew /\ HandOfWorker

\* Nothing is queued at first.
LEMMA InitDiscards == Init => DiscardInv
  <1> SUFFICES ASSUME Init PROVE DiscardInv
    OBVIOUS
  <1>1. IndInv /\ Numbered
    BY InitEstablishes, InitNumbered DEF Init
  <1>2. Slotted /\ Distinct /\ Told /\ NoneStale /\ PushedIsNew /\ HandOfWorker
    BY DEF Init, QueueInit, Slotted, Distinct, Told, NoneStale, PushedIsNew, HandOfWorker
  <1> QED
    BY <1>1, <1>2 DEF DiscardInv

\* The slot at tail is free for a push, and the number of the push is new.
LEMMA SendDiscards ==
    ASSUME DiscardInv, NEW kind \in Kinds, Send(kind)
    PROVE  Slotted' /\ Distinct' /\ Told' /\ NoneStale' /\ PushedIsNew' /\ HandOfWorker'
  <1> DEFINE control == [id |-> nextRequest, kind |-> kind]
  <1>1. /\ nextRequest' = nextRequest + 1 /\ nextRequest \in Nat \ {0}
        /\ stale' = stale /\ worker' = worker
    BY DEF DiscardInv, Numbered, Send
  <1>2. /\ control.id = nextRequest /\ control # Nothing
        /\ stale \subseteq 1..(nextRequest - 1)
        /\ nextRequest \notin stale
    <2>1. control \in Items
      BY ProfilerAssumption DEF DiscardInv, Numbered, Controls, Send
    <2>2. stale \subseteq 1..(nextRequest - 1)
      BY DEF DiscardInv, Told
    <2> QED
      BY <2>1, <2>2, <1>1, QueueAssumption
  <1>3. \A i \in Indices : slots[i] # Nothing =>
           slots[i].id \in 1..(nextRequest - 1) /\ slots[i].id # nextRequest
    BY <1>1 DEF DiscardInv, Slotted
  <1>4. CASE WriteSlot(control)
    <2>1. /\ \A i \in Indices : slots'[i] = IF i = tail THEN control ELSE slots[i]
          /\ tail' = tail /\ taking' = taking /\ taken' = taken /\ tail \in Indices
      BY <1>4 DEF WriteSlot, DiscardInv, IndInv, QueueTypeOK
    <2> HIDE DEF control
    <2>2. Slotted'
      <3>1. \A n \in 1..(nextRequest - 1) : n \in 1..(nextRequest' - 1)
        BY <1>1
      <3>2. nextRequest \in 1..(nextRequest' - 1)
        BY <1>1
      <3> QED
        BY <2>1, <1>2, <1>3, <3>1, <3>2 DEF Slotted
    <2>3. Distinct'
      BY <2>1, <1>2, <1>3 DEF Distinct, DiscardInv
    <2>4. Told'
      BY <1>1, <1>2 DEF Told
    <2>5. NoneStale'
      BY <2>1, <1>1, <1>2 DEF NoneStale, DiscardInv
    <2>6. PushedIsNew'
      BY <2>1, <1>1, <1>2 DEF PushedIsNew
    <2>7. HandOfWorker'
      BY <2>1, <1>1 DEF HandOfWorker, DiscardInv
    <2> QED
      BY <2>2, <2>3, <2>4, <2>5, <2>6, <2>7
  <1>5. CASE UNCHANGED queueVars
    <2>1. slots' = slots /\ tail' = tail /\ putting' = putting /\ taking' = taking /\ taken' = taken
      BY <1>5 DEF queueVars
    <2>2. \A n \in 1..(nextRequest - 1) : n \in 1..(nextRequest' - 1)
      BY <1>1
    <2>3. Slotted' /\ Told'
      BY <2>1, <2>2, <1>1, <1>2, <1>3 DEF Slotted, Told
    <2>4. Distinct' /\ NoneStale' /\ PushedIsNew' /\ HandOfWorker'
      BY <2>1, <1>1 DEF Distinct, NoneStale, PushedIsNew, HandOfWorker, DiscardInv
    <2> QED
      BY <2>3, <2>4
  <1> QED
    BY <1>4, <1>5 DEF Send

\* Steps that touch neither the slots nor a control in hand, and after which
\* the worker discards only if it did before.
LEMMA OtherStepsDiscard ==
    ASSUME DiscardInv,
           slots' = slots, tail' = tail, putting' = putting, taking' = taking, taken' = taken,
           nextRequest' = nextRequest, stale' = stale,
           worker = "discarding" => worker' = "discarding",
           taking => worker' \in {"serving", "discarding"}
    PROVE  Slotted' /\ Distinct' /\ Told' /\ NoneStale' /\ PushedIsNew' /\ HandOfWorker'
  BY DEF DiscardInv, Slotted, Distinct, Told, NoneStale, PushedIsNew, HandOfWorker

\* What is pushed while the worker discards is discarded too; what is pushed
\* later is new.
LEMMA SendEndsDiscards ==
    ASSUME DiscardInv, SendEnds
    PROVE  Slotted' /\ Distinct' /\ Told' /\ NoneStale' /\ PushedIsNew' /\ HandOfWorker'
  BY DEF SendEnds, PublishTail, sourceVars, DiscardInv, Slotted, Distinct, Told, NoneStale,
         PushedIsNew, HandOfWorker

\* A value taken out of its slot is one of the queue.
LEMMA PopDiscards ==
    ASSUME DiscardInv, PopControl
    PROVE  Slotted' /\ Distinct' /\ Told' /\ NoneStale' /\ PushedIsNew' /\ HandOfWorker'
  <1>1. /\ head \in Indices /\ tail \in Indices /\ head # tail /\ First = head
        /\ tail' = tail /\ putting' = putting /\ taken' = slots[head]
        /\ \A i \in Indices : slots'[i] = IF i = head THEN Nothing ELSE slots[i]
        /\ nextRequest' = nextRequest /\ stale' = stale /\ worker' = worker
        /\ worker \in {"serving", "discarding"}
    BY DEF PopControl, EmptySlot, IsEmpty, First, sourceVars, DiscardInv, IndInv, QueueTypeOK
  <1>2. slots[head] # Nothing
    <2>1. Distance(head, head) = 0 /\ Distance(head, tail) \in 0..Capacity /\ Distance(head, tail) # 0
      BY <1>1, DistanceFacts
    <2>2. 0 < Distance(head, tail)
      BY <2>1, QueueAssumption
    <2> QED
      BY <1>1, <2>1, <2>2 DEF DiscardInv, IndInv, SlotsExact
  <1>3. Slotted' /\ Distinct' /\ Told'
    BY <1>1 DEF Slotted, Distinct, Told, DiscardInv
  <1>4. NoneStale' /\ HandOfWorker'
    BY <1>1, <1>2 DEF NoneStale, HandOfWorker, DiscardInv
  <1>5. PushedIsNew'
    BY <1>1 DEF PushedIsNew, DiscardInv
  <1> QED
    BY <1>3, <1>4, <1>5

\* A control that is sent or discarded is out of the queue.
LEMMA UnhandDiscards ==
    ASSUME DiscardInv, TransmitControl \/ DiscardControl
    PROVE  Slotted' /\ Distinct' /\ Told' /\ NoneStale' /\ PushedIsNew' /\ HandOfWorker'
  <1>1. CASE TransmitControl
    BY <1>1 DEF TransmitControl, PublishHead, sourceVars, DiscardInv, Slotted, Distinct, Told,
                NoneStale, PushedIsNew, HandOfWorker
  <1>2. CASE DiscardControl
    BY <1>2 DEF DiscardControl, PublishHead, sourceVars, DiscardInv, Slotted, Distinct, Told,
                NoneStale, PushedIsNew, HandOfWorker
  <1> QED
    BY <1>1, <1>2

\* At the end of a connection the slots in use are those to be discarded; a
\* push under way has a slot, and a number, of its own.
LEMMA ReleaseDiscards ==
    ASSUME DiscardInv, Release
    PROVE  Slotted' /\ Distinct' /\ Told' /\ NoneStale' /\ PushedIsNew' /\ HandOfWorker'
  <1>1. /\ slots' = slots /\ tail' = tail /\ putting' = putting /\ taking' = taking
        /\ nextRequest' = nextRequest /\ worker' = "discarding"
        /\ stale' = stale \cup {Contents[k].id : k \in DOMAIN Contents}
    BY DEF Release, queueVars, sourceVars
  <1>2. First \in Indices /\ tail \in Indices
    BY FirstFacts DEF DiscardInv, IndInv, QueueTypeOK
  <1>3. ASSUME NEW k \in DOMAIN Contents
        PROVE  /\ Plus(First, k - 1) \in Indices /\ Plus(First, k - 1) # tail
               /\ Contents[k] = slots[Plus(First, k - 1)] /\ Contents[k] # Nothing
    <2>1. ContentsOK
      BY ContentsFacts DEF DiscardInv
    <2>2. k \in 1..Distance(First, tail) /\ Distance(First, tail) \in 0..Capacity
      BY <2>1, <1>2, DistanceFacts, LenProperties DEF ContentsOK
    <2>3. k - 1 \in 0..Capacity /\ k - 1 # Distance(First, tail) /\ k - 1 < Distance(First, tail)
      BY <2>2, QueueAssumption
    <2>4. Plus(First, k - 1) \in Indices /\ Distance(First, Plus(First, k - 1)) = k - 1
      BY <1>2, <2>3, PlusFacts
    <2>5. Contents[k] = slots[Plus(First, k - 1)]
      BY <2>1, <2>2 DEF ContentsOK
    <2>6. slots[Plus(First, k - 1)] # Nothing
      BY <2>3, <2>4 DEF DiscardInv, IndInv, SlotsExact
    <2> QED
      BY <2>3, <2>4, <2>5, <2>6
  <1>4. Slotted' /\ Distinct'
    BY <1>1 DEF Slotted, Distinct, DiscardInv
  <1>5. Told'
    <2>1. \A k \in DOMAIN Contents : Contents[k].id \in 1..(nextRequest - 1)
      BY <1>3 DEF DiscardInv, Slotted
    <2> QED
      BY <2>1, <1>1 DEF DiscardInv, Told
  <1>6. NoneStale' /\ HandOfWorker'
    BY <1>1 DEF NoneStale, HandOfWorker
  <1>7. PushedIsNew'
    <2> SUFFICES ASSUME putting PROVE slots[tail].id \notin stale'
      BY <1>1 DEF PushedIsNew
    <2>1. slots[tail] # Nothing
      BY <1>2 DEF DiscardInv, IndInv, SlotsExact
    <2>2. \A k \in DOMAIN Contents : Contents[k].id # slots[tail].id
      BY <1>2, <1>3, <2>1 DEF DiscardInv, Distinct
    <2>3. slots[tail].id \notin stale
      BY DEF DiscardInv, PushedIsNew
    <2> QED
      BY <1>1, <2>2, <2>3
  <1> QED
    BY <1>4, <1>5, <1>6, <1>7

\* The worker stops discarding when nothing is left but a push under way.
LEMMA DiscardEndsDiscards ==
    ASSUME DiscardInv, DiscardEnds
    PROVE  Slotted' /\ Distinct' /\ Told' /\ NoneStale' /\ PushedIsNew' /\ HandOfWorker'
  <1>1. /\ slots' = slots /\ tail' = tail /\ putting' = putting /\ taking' = taking /\ ~taking
        /\ nextRequest' = nextRequest /\ stale' = stale /\ head = tail
    BY DEF DiscardEnds, queueVars, sourceVars, IsEmpty
  <1>2. head \in Indices /\ tail \in Indices /\ First = tail
    BY <1>1 DEF DiscardInv, IndInv, QueueTypeOK, First
  <1>3. ASSUME NEW i \in Indices, slots[i] # Nothing
        PROVE  putting /\ i = tail
    <2>1. Distance(tail, i) \in 0..Capacity /\ Distance(tail, tail) = 0
      BY <1>2, DistanceFacts
    <2>2. ~(Distance(tail, i) < Distance(tail, tail))
      BY <2>1, QueueAssumption
    <2> QED
      BY <2>2, <1>2, <1>3 DEF DiscardInv, IndInv, SlotsExact
  <1>4. NoneStale'
    BY <1>1, <1>3 DEF NoneStale, DiscardInv, PushedIsNew
  <1>5. Slotted' /\ Distinct' /\ Told' /\ PushedIsNew' /\ HandOfWorker'
    BY <1>1 DEF DiscardInv, Slotted, Distinct, Told, PushedIsNew, HandOfWorker
  <1> QED
    BY <1>4, <1>5

\* The worker's other steps use no control.
LEMMA WorkerDiscards ==
    ASSUME DiscardInv, Worker
    PROVE  Slotted' /\ Distinct' /\ Told' /\ NoneStale' /\ PushedIsNew' /\ HandOfWorker'
  <1> USE OtherStepsDiscard
  <1>1. CASE Connect
    BY <1>1 DEF Connect, queueVars, sourceVars, DiscardInv, HandOfWorker
  <1>2. CASE ReceiveHello
    BY <1>2 DEF ReceiveHello, queueVars, DiscardInv, HandOfWorker
  <1>3. CASE HandshakeFails
    BY <1>3 DEF HandshakeFails, queueVars, sourceVars, DiscardInv, HandOfWorker
  <1>4. CASE QueueSeenEmpty
    BY <1>4 DEF QueueSeenEmpty, queueVars, sourceVars, DiscardInv, HandOfWorker
  <1>5. CASE ReadMessage
    BY <1>5 DEF ReadMessage, queueVars, DiscardInv, HandOfWorker
  <1>6. CASE WaitTimesOut
    BY <1>6 DEF WaitTimesOut, queueVars, sourceVars, DiscardInv, HandOfWorker
  <1>7. CASE ReadFails
    BY <1>7 DEF ReadFails, queueVars, sourceVars, DiscardInv, HandOfWorker
  <1>8. CASE NotifyDisconnect
    BY <1>8 DEF NotifyDisconnect, queueVars, DiscardInv, HandOfWorker
  <1> QED
    BY <1>1, <1>2, <1>3, <1>4, <1>5, <1>6, <1>7, <1>8, PopDiscards, UnhandDiscards,
       ReleaseDiscards, DiscardEndsDiscards DEF Worker

\* Every step keeps the invariant.
LEMMA StepDiscards == DiscardInv /\ [Next]_vars => DiscardInv'
  <1> SUFFICES ASSUME DiscardInv, [Next]_vars PROVE DiscardInv'
    OBVIOUS
  <1>1. IndInv' /\ Numbered'
    BY StepUsesQueue, StepKeeps DEF DiscardInv
  <1>2. Slotted' /\ Distinct' /\ Told' /\ NoneStale' /\ PushedIsNew' /\ HandOfWorker'
    <2>1. CASE Source
      BY <2>1, SendDiscards, SendEndsDiscards DEF Source
    <2>2. CASE Worker
      BY <2>2, WorkerDiscards
    <2>3. CASE UNCHANGED clientVars
      BY <2>3, OtherStepsDiscard DEF clientVars, queueVars, sourceVars, DiscardInv, HandOfWorker
    <2>4. CASE UNCHANGED vars
      BY <2>4, <2>3 DEF vars
    <2> QED
      BY <2>1, <2>2, <2>3, <2>4, TargetLeavesClient DEF Next
  <1> QED
    BY <1>1, <1>2 DEF DiscardInv

\* A control that was queued when a connection ended is never sent, to the
\* same target or another.
THEOREM QueuedControlsAreDiscarded == Spec => QueuedIsDiscarded
  <1>1. DiscardInv /\ [Next]_vars =>
           [worker = "serving" /\ taking /\ ~taking' => taken.id \notin stale]_vars
    BY DEF DiscardInv, NoneStale
  <1> QED
    BY InitDiscards, StepDiscards, <1>1, PTL DEF Spec, QueuedIsDiscarded

-----------------------------------------------------------------------------
(* The controls on their way. *)

IsControl(msg) == msg.type = "control"

\* The numbers of the controls the target has, of those on the wire, and of
\* those the client has, with the next one.
TargetIds ==
    {applied} \cup {commands[i].id : i \in DOMAIN commands}
    \cup (IF hand = Nothing THEN {} ELSE {hand.id})
WireIds(wire) ==
    UNION {{wire[c][k].control.id : k \in {k \in DOMAIN wire[c] : IsControl(wire[c][k])}}
            : c \in 1..MaxConnections}
ClientIds ==
    {nextRequest} \cup {slots[i].id : i \in {i \in Indices : slots[i] # Nothing}}
    \cup (IF taking THEN {taken.id} ELSE {})

Precede(A, B) == \A a \in A, b \in B : a < b

\* What is applied is behind what waits to be, which is in order.
TargetRises ==
    /\ \A i \in DOMAIN commands : applied < commands[i].id
    /\ \A i, j \in DOMAIN commands : i < j => commands[i].id < commands[j].id
    /\ hand # Nothing => applied < hand.id /\ \A i \in DOMAIN commands : commands[i].id < hand.id

\* The controls on the wire are in order, connection after connection.
WireRises(wire) ==
    \A c, d \in 1..MaxConnections : \A i \in DOMAIN wire[c], j \in DOMAIN wire[d] :
        /\ IsControl(wire[c][i]) /\ IsControl(wire[d][j])
        /\ c < d \/ (c = d /\ i < j)
        => wire[c][i].control.id < wire[d][j].control.id

\* So are those in the queue, after the one in the hand of the worker.
ClientRises ==
    /\ \A i, j \in Indices :
         slots[i] # Nothing /\ slots[j] # Nothing /\ Distance(First, i) < Distance(First, j)
         => slots[i].id < slots[j].id
    /\ taking => \A i \in Indices : slots[i] # Nothing => taken.id < slots[i].id
    /\ taking => taken.id < nextRequest

InOrder ==
    /\ TargetRises /\ WireRises(toTarget) /\ ClientRises
    /\ Precede(TargetIds, WireIds(toTarget))
    /\ Precede(TargetIds \cup WireIds(toTarget), ClientIds)

\* The variables of the wire have their types.
WireTyped ==
    /\ commands \in Seq(Controls) /\ hand \in Controls \cup {Nothing} /\ applied \in Nat
    /\ toTarget \in [1..MaxConnections -> Seq(ToTargetMsgs)]
    /\ connections \in 0..MaxConnections /\ accepted \in 0..connections
    /\ served \in 0..accepted /\ link \in 0..connections
    /\ taking => taken \in Controls

\* The client writes to its last connection; the target reads the last one it
\* has accepted, and nothing is on the way on those before and on those that
\* are not made; after the first message there are only controls.
WireUsed ==
    /\ worker \in {"greeting", "serving", "waiting", "leaving"} => link = connections /\ link # 0
    /\ io = "accepting" => served = 0
    /\ \A c \in 1..MaxConnections :
         c > connections \/ (c <= accepted /\ c # served) => toTarget[c] = <<>>
    /\ \A c \in 1..MaxConnections : \A k \in DOMAIN toTarget[c] :
         k > 1 \/ (c = served /\ io # "greeting") => IsControl(toTarget[c][k])
    /\ io = "pushing" => hand # Nothing

OrderInv == WireTyped /\ WireUsed /\ InOrder

\* Every number of a control is a natural number.
LEMMA IdsTyped ==
    ASSUME WireTyped
    PROVE  TargetIds \subseteq Nat /\ WireIds(toTarget) \subseteq Nat
  <1>1. \A v \in Controls : v.id \in Nat
    BY ProfilerAssumption DEF Controls
  <1>2. \A i \in DOMAIN commands : commands[i] \in Controls
    BY DEF WireTyped
  <1>3. \A c \in 1..MaxConnections : \A k \in DOMAIN toTarget[c] :
           IsControl(toTarget[c][k]) => toTarget[c][k].control \in Controls
    <2> SUFFICES ASSUME NEW c \in 1..MaxConnections, NEW k \in DOMAIN toTarget[c],
                        IsControl(toTarget[c][k])
                 PROVE  toTarget[c][k].control \in Controls
      OBVIOUS
    <2>1. toTarget[c][k] \in ToTargetMsgs
      BY DEF WireTyped
    <2> QED
      BY <2>1 DEF IsControl, ToTargetMsgs, HelloMsg
  <1>4. TargetIds \subseteq Nat
    BY <1>1, <1>2 DEF WireTyped, TargetIds
  <1>5. WireIds(toTarget) \subseteq Nat
    BY <1>1, <1>3 DEF WireIds
  <1> QED
    BY <1>4, <1>5

\* A wire on which some messages are gone, and no control is new.
Fewer(wire, other) ==
    \A c \in 1..MaxConnections : \E s \in Nat : \A k \in DOMAIN other[c] :
        IsControl(other[c][k]) => k + s \in DOMAIN wire[c] /\ other[c][k] = wire[c][k + s]

LEMMA FewerRises ==
    ASSUME NEW wire, NEW other, Fewer(wire, other), WireRises(wire),
           \A c \in 1..MaxConnections : DOMAIN other[c] \subseteq Nat
    PROVE  WireRises(other) /\ WireIds(other) \subseteq WireIds(wire)
  <1>1. WireIds(other) \subseteq WireIds(wire)
    <2> SUFFICES ASSUME NEW c \in 1..MaxConnections, NEW k \in DOMAIN other[c], IsControl(other[c][k])
                 PROVE  other[c][k].control.id \in WireIds(wire)
      BY DEF WireIds
    <2>1. PICK s \in Nat : k + s \in DOMAIN wire[c] /\ other[c][k] = wire[c][k + s]
      BY DEF Fewer
    <2> QED
      BY <2>1 DEF WireIds
  <1>2. WireRises(other)
    <2> SUFFICES ASSUME NEW c \in 1..MaxConnections, NEW d \in 1..MaxConnections,
                        NEW i \in DOMAIN other[c], NEW j \in DOMAIN other[d],
                        IsControl(other[c][i]), IsControl(other[d][j]),
                        c < d \/ (c = d /\ i < j)
                 PROVE  other[c][i].control.id < other[d][j].control.id
      BY DEF WireRises
    <2>1. PICK s \in Nat : \A k \in DOMAIN other[c] :
             IsControl(other[c][k]) => k + s \in DOMAIN wire[c] /\ other[c][k] = wire[c][k + s]
      BY DEF Fewer
    <2>2. PICK t \in Nat : \A k \in DOMAIN other[d] :
             IsControl(other[d][k]) => k + t \in DOMAIN wire[d] /\ other[d][k] = wire[d][k + t]
      BY DEF Fewer
    <2>3. CASE c < d
      BY <2>1, <2>2, <2>3 DEF WireRises
    <2>4. CASE c = d /\ i < j
      <3>1. i \in Nat /\ j \in Nat /\ i + s < j + s
        BY <2>4
      <3>2. j + s \in DOMAIN wire[d] /\ other[d][j] = wire[d][j + s]
        BY <2>1, <2>4
      <3> QED
        BY <2>1, <2>4, <3>1, <3>2 DEF WireRises
    <2> QED
      BY <2>3, <2>4
  <1> QED
    BY <1>1, <1>2

Sent(wire, c, v) == [wire EXCEPT ![c] = Append(@, [type |-> "control", control |-> v])]

\* A control after all others is sent on the last connection that is used.
LEMMA LongerRises ==
    ASSUME NEW wire \in [1..MaxConnections -> Seq(ToTargetMsgs)], WireRises(wire),
           NEW c \in 1..MaxConnections, NEW v \in Controls, Precede(WireIds(wire), {v.id}),
           \A d \in 1..MaxConnections : c < d => wire[d] = <<>>
    PROVE  WireRises(Sent(wire, c, v)) /\ WireIds(Sent(wire, c, v)) \subseteq WireIds(wire) \cup {v.id}
  <1>a. PICK other : other = Sent(wire, c, v)
    OBVIOUS
  <1> DEFINE msg == [type |-> "control", control |-> v]
  <1>1. PICK n \in Nat : n = Len(wire[c])
    OBVIOUS
  <1>2. /\ msg \in ToTargetMsgs /\ msg.control = v /\ IsControl(msg)
        /\ wire[c] \in Seq(ToTargetMsgs)
    BY DEF ToTargetMsgs, IsControl
  <1> HIDE DEF msg
  <1>3. /\ DOMAIN wire[c] = 1..n /\ DOMAIN other[c] = 1..(n + 1)
        /\ other[c][n + 1] = msg /\ \A k \in 1..n : other[c][k] = wire[c][k]
        /\ \A d \in 1..MaxConnections : d # c => other[d] = wire[d]
    <2>1. other[c] = Append(wire[c], msg)
      BY <1>a DEF Sent, msg
    <2>2. \A d \in 1..MaxConnections : d # c => other[d] = wire[d]
      BY <1>a DEF Sent
    <2> QED
      BY ONLY <1>1, <1>2, <2>1, <2>2, AppendProperties, LenProperties
  <1>4. ASSUME NEW d \in 1..MaxConnections, NEW k \in DOMAIN other[d], IsControl(other[d][k])
        PROVE  \/ d = c /\ k = n + 1 /\ other[d][k].control.id = v.id
               \/ k \in DOMAIN wire[d] /\ other[d][k] = wire[d][k]
    <2>1. CASE d = c /\ k = n + 1
      BY <1>2, <1>3, <2>1
    <2>2. CASE d = c /\ k # n + 1
      <3>1. k \in 1..n
        BY <1>3, <1>4, <2>2
      <3> QED
        BY <1>3, <2>2, <3>1
    <2>3. CASE d # c
      BY <1>3, <1>4, <2>3
    <2> QED
      BY <2>1, <2>2, <2>3
  <1>5. ASSUME NEW d \in 1..MaxConnections, NEW k \in DOMAIN wire[d], IsControl(wire[d][k])
        PROVE  wire[d][k].control.id \in WireIds(wire) /\ wire[d][k].control.id < v.id
    BY <1>5 DEF WireIds, Precede
  <1>6. WireIds(other) \subseteq WireIds(wire) \cup {v.id}
    <2> SUFFICES ASSUME NEW e \in WireIds(other) PROVE e \in WireIds(wire) \cup {v.id}
      OBVIOUS
    <2>1. PICK d \in 1..MaxConnections :
             \E k \in DOMAIN other[d] : IsControl(other[d][k]) /\ e = other[d][k].control.id
      BY DEF WireIds
    <2>2. PICK k \in DOMAIN other[d] : IsControl(other[d][k]) /\ e = other[d][k].control.id
      BY <2>1
    <2> QED
      BY <1>4, <1>5, <2>2
  <1>7. WireRises(other)
    <2> SUFFICES ASSUME NEW d \in 1..MaxConnections, NEW e \in 1..MaxConnections,
                        NEW i \in DOMAIN other[d], NEW j \in DOMAIN other[e],
                        IsControl(other[d][i]), IsControl(other[e][j]),
                        d < e \/ (d = e /\ i < j)
                 PROVE  other[d][i].control.id < other[e][j].control.id
      BY DEF WireRises
    <2>1. CASE d = c /\ i = n + 1
      <3>1. CASE e = c
        <4>1. j \in 1..(n + 1) /\ n + 1 < j
          BY <1>3, <2>1, <3>1
        <4> QED
          BY <1>1, <4>1
      <3>2. CASE e # c
        <4>1. c < e /\ other[e] = wire[e] /\ wire[e] = <<>>
          BY <1>3, <2>1, <3>2
        <4> QED
          BY <4>1
      <3> QED
        BY <3>1, <3>2
    <2>2. CASE i \in DOMAIN wire[d] /\ other[d][i] = wire[d][i]
      <3>1. CASE e = c /\ j = n + 1 /\ other[e][j].control.id = v.id
        BY <1>5, <2>2, <3>1
      <3>2. CASE j \in DOMAIN wire[e] /\ other[e][j] = wire[e][j]
        BY <2>2, <3>2 DEF WireRises
      <3> QED
        BY <1>4, <3>1, <3>2
    <2> QED
      BY <1>4, <2>1, <2>2
  <1> QED
    BY <1>a, <1>6, <1>7

\* Numbers are only given up.
LEMMA StaysInOrder ==
    ASSUME InOrder, TargetRises', WireRises(toTarget'), ClientRises',
           TargetIds' \subseteq TargetIds, WireIds(toTarget') \subseteq WireIds(toTarget),
           ClientIds' \subseteq ClientIds
    PROVE  InOrder'
  BY DEF InOrder, Precede

LEMMA ClientSame ==
    ASSUME UNCHANGED <<slots, head, taking, taken, nextRequest>>
    PROVE  (ClientRises' <=> ClientRises) /\ ClientIds' = ClientIds
  <1>1. First' = First
    BY DEF First
  <1> QED
    BY <1>1 DEF ClientRises, ClientIds

LEMMA TargetSame ==
    ASSUME UNCHANGED <<applied, commands, hand>>
    PROVE  (TargetRises' <=> TargetRises) /\ TargetIds' = TargetIds
  BY DEF TargetRises, TargetIds

\* The client does something with its controls, and the wire stays as it is.
LEMMA ClientMoves ==
    ASSUME OrderInv, UNCHANGED <<toTarget, connections, targetVars>>,
           ClientRises', Precede(TargetIds \cup WireIds(toTarget), ClientIds'),
           taking' => taken' \in Controls, link' \in {0, link},
           worker' \in {"greeting", "serving", "waiting", "leaving"} => link' = connections /\ link' # 0
    PROVE  OrderInv'
  <1>1. /\ UNCHANGED <<applied, commands, hand>>
        /\ io' = io /\ accepted' = accepted /\ served' = served
    BY DEF targetVars, ioVars, frameVars
  <1>2. WireTyped'
    BY <1>1 DEF OrderInv, WireTyped
  <1>3. WireUsed'
    BY <1>1 DEF OrderInv, WireUsed
  <1>4. InOrder'
    BY <1>1, TargetSame DEF OrderInv, InOrder
  <1> QED
    BY <1>2, <1>3, <1>4 DEF OrderInv

\* A new control has the highest number and is put behind the others.
LEMMA SendInOrder ==
    ASSUME OrderInv, DiscardInv, NEW kind \in Kinds, Send(kind)
    PROVE  OrderInv'
  <1> DEFINE control == [id |-> nextRequest, kind |-> kind]
  <1>1. /\ nextRequest' = nextRequest + 1 /\ nextRequest \in Nat \ {0}
        /\ UNCHANGED <<worker, link, toTarget, connections, targetVars>>
    BY DEF Send, wireVars, DiscardInv, Numbered
  <1>2. WireTyped /\ WireUsed /\ InOrder /\ ClientRises
    BY DEF OrderInv, InOrder
  <1>3. \A a \in TargetIds \cup WireIds(toTarget) : a < nextRequest /\ a < nextRequest + 1
    <2>1. \A a \in TargetIds \cup WireIds(toTarget) : a \in Nat /\ a < nextRequest
      BY <1>2, IdsTyped DEF InOrder, Precede, ClientIds
    <2> QED
      BY <1>1, <2>1
  <1>4. CASE WriteSlot(control)
    <2>1. control.id = nextRequest /\ control \in Items /\ control # Nothing
      BY <1>1, ProfilerAssumption, QueueAssumption DEF Controls, Send
    <2>2. /\ First' = First /\ First \in Indices /\ tail \in Indices /\ ~putting
          /\ taking' = taking /\ taken' = taken
          /\ \A i \in Indices : slots'[i] = IF i = tail THEN control ELSE slots[i]
      BY <1>4, FirstFacts DEF WriteSlot, DiscardInv, IndInv, QueueTypeOK, First
    <2> HIDE DEF control
    <2>3. \A i \in Indices : slots[i] # Nothing =>
             /\ Distance(First, i) < Distance(First, tail)
             /\ slots[i].id \in Nat /\ slots[i].id < nextRequest
      BY <1>1, <2>2 DEF DiscardInv, Slotted, IndInv, SlotsExact
    <2>4. \A i \in Indices : Distance(First, i) \in Nat
      BY <2>2, DistanceFacts, QueueAssumption
    <2>5. ClientRises'
      <3>1. ASSUME NEW i \in Indices, NEW j \in Indices, slots'[i] # Nothing, slots'[j] # Nothing,
                   Distance(First, i) < Distance(First, j)
            PROVE  slots'[i].id < slots'[j].id
        <4>1. CASE i = tail
          <5>1. j # tail /\ slots[j] # Nothing
            BY <2>2, <2>4, <3>1, <4>1
          <5> QED
            BY <2>2, <2>3, <2>4, <3>1, <4>1, <5>1
        <4>2. CASE i # tail /\ j = tail
          BY <2>1, <2>2, <2>3, <3>1, <4>2
        <4>3. CASE i # tail /\ j # tail
          BY <1>2, <2>2, <3>1, <4>3 DEF ClientRises
        <4> QED
          BY <4>1, <4>2, <4>3
      <3>2. taking => taken.id < nextRequest /\ \A i \in Indices : slots'[i] # Nothing => taken.id < slots'[i].id
        BY <1>2, <2>1, <2>2 DEF ClientRises
      <3>3. taking => taken.id < nextRequest + 1
        <4>1. taking => taken.id \in Nat
          BY <1>2, ProfilerAssumption DEF WireTyped, Controls
        <4> QED
          BY <1>1, <3>2, <4>1
      <3> QED
        BY <1>1, <2>2, <3>1, <3>2, <3>3 DEF ClientRises
    <2>6. ClientIds' \subseteq ClientIds \cup {nextRequest + 1}
      BY <1>1, <2>1, <2>2 DEF ClientIds
    <2>7. Precede(TargetIds \cup WireIds(toTarget), ClientIds')
      BY <1>2, <1>3, <2>6 DEF InOrder, Precede
    <2> QED
      BY <1>1, <1>2, <2>2, <2>5, <2>7, ClientMoves DEF WireTyped, WireUsed, OrderInv
  <1>5. CASE UNCHANGED queueVars
    <2>1. First' = First /\ slots' = slots /\ taking' = taking /\ taken' = taken
      BY <1>5 DEF queueVars, First
    <2>2. taking => taken.id \in Nat
      BY <1>2, ProfilerAssumption DEF WireTyped, Controls
    <2>3. ClientRises'
      BY <1>1, <1>2, <2>1, <2>2 DEF ClientRises
    <2>4. ClientIds' \subseteq ClientIds \cup {nextRequest + 1}
      BY <1>1, <2>1 DEF ClientIds
    <2>5. Precede(TargetIds \cup WireIds(toTarget), ClientIds')
      BY <1>2, <1>3, <2>4 DEF InOrder, Precede
    <2> QED
      BY <1>1, <1>2, <2>1, <2>3, <2>5, ClientMoves DEF WireTyped, WireUsed, OrderInv
  <1> QED
    BY <1>4, <1>5 DEF Send

\* The control that is taken is the first.
LEMMA PopInOrder ==
    ASSUME OrderInv, DiscardInv, PopControl
    PROVE  OrderInv'
  <1>1. /\ head \in Indices /\ tail \in Indices /\ head # tail /\ First = head /\ ~taking
        /\ First' = Increment(head) /\ taking' /\ taken' = slots[head]
        /\ \A i \in Indices : slots'[i] = IF i = head THEN Nothing ELSE slots[i]
    BY DEF PopControl, EmptySlot, IsEmpty, First, Increment, DiscardInv, IndInv, QueueTypeOK
  <1>2. /\ UNCHANGED <<nextRequest, worker, link, toTarget, connections, targetVars>>
        /\ WireTyped /\ WireUsed /\ InOrder /\ ClientRises
    BY DEF PopControl, sourceVars, wireVars, OrderInv, InOrder
  <1>3. \A i \in Indices : /\ Distance(head, i) \in Nat
                           /\ i # head => 0 < Distance(head, i) /\ Distance(First', i) = Distance(head, i) - 1
    BY <1>1, DistanceFacts, QueueAssumption
  <1>4. Distance(head, head) = 0
    BY <1>1, DistanceFacts
  <1>5. slots[head] # Nothing /\ slots[head] \in Controls
    BY <1>1, <1>3, <1>4, ProfilerAssumption DEF DiscardInv, IndInv, SlotsExact, QueueTypeOK
  <1>6. slots[head].id < nextRequest
    BY <1>1, <1>5 DEF DiscardInv, Slotted, Numbered
  <1>7. ClientRises'
    <2>1. ASSUME NEW i \in Indices, NEW j \in Indices, slots'[i] # Nothing, slots'[j] # Nothing,
                 Distance(First', i) < Distance(First', j)
          PROVE  slots'[i].id < slots'[j].id
      <3>1. i # head /\ j # head /\ slots'[i] = slots[i] /\ slots'[j] = slots[j]
        BY <1>1, <2>1
      <3>2. Distance(head, i) < Distance(head, j)
        BY <1>3, <2>1, <3>1
      <3> QED
        BY <1>1, <1>2, <2>1, <3>1, <3>2 DEF ClientRises
    <2>2. \A i \in Indices : slots'[i] # Nothing => slots[head].id < slots'[i].id
      <3> SUFFICES ASSUME NEW i \in Indices, slots'[i] # Nothing PROVE slots[head].id < slots'[i].id
        OBVIOUS
      <3>1. i # head /\ slots'[i] = slots[i] /\ Distance(head, head) < Distance(head, i)
        BY <1>1, <1>3, <1>4
      <3> QED
        BY <1>1, <1>2, <1>5, <3>1 DEF ClientRises
    <2> QED
      BY <1>1, <1>2, <1>6, <2>1, <2>2 DEF ClientRises
  <1>8. ClientIds' \subseteq ClientIds
    BY <1>1, <1>2, <1>5 DEF ClientIds
  <1>9. Precede(TargetIds \cup WireIds(toTarget), ClientIds')
    BY <1>2, <1>8 DEF InOrder, Precede
  <1> QED
    BY <1>1, <1>2, <1>5, <1>7, <1>9, ClientMoves DEF WireTyped, WireUsed, OrderInv

\* Once it is sent or discarded the client does not have it.
LEMMA UnhandInOrder ==
    ASSUME OrderInv, PublishHead, nextRequest' = nextRequest
    PROVE  ClientRises' /\ ClientIds' \subseteq ClientIds /\ ~taking'
  <1>1. First' = First /\ slots' = slots /\ ~taking' /\ taking
    BY DEF PublishHead, First
  <1> QED
    BY <1>1 DEF ClientRises, ClientIds, OrderInv, InOrder

\* The steps of the client that leave the wire alone.
LEMMA ClientInOrder ==
    ASSUME OrderInv, DiscardInv,
           \/ SendEnds \/ ReceiveHello \/ HandshakeFails \/ QueueSeenEmpty \/ ReadMessage
           \/ WaitTimesOut \/ ReadFails \/ Release \/ DiscardControl \/ DiscardEnds \/ NotifyDisconnect
    PROVE  OrderInv'
  <1>1. ClientRises /\ Precede(TargetIds \cup WireIds(toTarget), ClientIds) /\ (taking => taken \in Controls)
    BY DEF OrderInv, InOrder, WireTyped
  <1>2. /\ UNCHANGED <<nextRequest, toTarget, connections, targetVars>> /\ link' \in {0, link}
        /\ worker' \in {"greeting", "serving", "waiting", "leaving"} => link' = connections /\ link' # 0
    <2> USE DEF OrderInv, WireUsed
    <2>1. CASE SendEnds
      BY <2>1 DEF SendEnds, sourceVars, wireVars
    <2>2. CASE ReceiveHello
      BY <2>2 DEF ReceiveHello
    <2>3. CASE HandshakeFails
      BY <2>3 DEF HandshakeFails, sourceVars
    <2>4. CASE QueueSeenEmpty
      BY <2>4 DEF QueueSeenEmpty, sourceVars, wireVars
    <2>5. CASE ReadMessage
      BY <2>5 DEF ReadMessage
    <2>6. CASE WaitTimesOut
      BY <2>6 DEF WaitTimesOut, sourceVars, wireVars
    <2>7. CASE ReadFails
      BY <2>7 DEF ReadFails, sourceVars, wireVars
    <2>8. CASE Release
      BY <2>8 DEF Release, sourceVars
    <2>9. CASE DiscardControl
      BY <2>9 DEF DiscardControl, sourceVars, wireVars
    <2>10. CASE DiscardEnds
      BY <2>10 DEF DiscardEnds, sourceVars, wireVars
    <2>11. CASE NotifyDisconnect
      BY <2>11 DEF NotifyDisconnect, wireVars
    <2> QED
      BY <2>1, <2>2, <2>3, <2>4, <2>5, <2>6, <2>7, <2>8, <2>9, <2>10, <2>11
  <1>3. ClientRises' /\ ClientIds' \subseteq ClientIds /\ (taking' => taken' \in Controls)
    <2>1. CASE DiscardControl
      BY <1>2, <2>1, UnhandInOrder DEF DiscardControl
    <2>2. CASE SendEnds
      <3>1. UNCHANGED <<slots, head, taking, taken>>
        BY <2>2 DEF SendEnds, PublishTail
      <3> QED
        BY <1>1, <1>2, <3>1, ClientSame
    <2>3. CASE UNCHANGED queueVars
      <3>1. UNCHANGED <<slots, head, taking, taken>>
        BY <2>3 DEF queueVars
      <3> QED
        BY <1>1, <1>2, <3>1, ClientSame
    <2> QED
      BY <2>1, <2>2, <2>3 DEF ReceiveHello, HandshakeFails, QueueSeenEmpty, ReadMessage,
         WaitTimesOut, ReadFails, Release, DiscardEnds, NotifyDisconnect
  <1>4. Precede(TargetIds \cup WireIds(toTarget), ClientIds')
    BY <1>1, <1>3 DEF Precede
  <1> QED
    BY <1>2, <1>3, <1>4, ClientMoves

\* A new connection carries a hello, and no control.
LEMMA ConnectInOrder ==
    ASSUME OrderInv, Connect
    PROVE  OrderInv'
  <1>1. /\ link' = connections + 1 /\ connections' = connections + 1 /\ connections' \in 1..MaxConnections
        /\ toTarget' = [toTarget EXCEPT ![connections + 1] = <<HelloMsg>>]
        /\ UNCHANGED <<slots, head, taking, taken, nextRequest>>
        /\ UNCHANGED <<applied, commands, hand>> /\ UNCHANGED <<io, accepted, served>>
        /\ worker' = "greeting"
    BY ProfilerAssumption
       DEF Connect, queueVars, sourceVars, targetVars, ioVars, frameVars, OrderInv, WireTyped
  <1>2. WireTyped /\ WireUsed /\ InOrder
    BY DEF OrderInv
  <1>3. /\ HelloMsg \in ToTargetMsgs /\ ~IsControl(HelloMsg) /\ <<HelloMsg>> \in Seq(ToTargetMsgs)
        /\ DOMAIN <<HelloMsg>> = {1} /\ <<HelloMsg>>[1] = HelloMsg
    BY DEF ToTargetMsgs, IsControl, HelloMsg
  <1>4. \A c \in 1..MaxConnections : toTarget'[c] = IF c = connections + 1 THEN <<HelloMsg>> ELSE toTarget[c]
    BY <1>1, <1>2 DEF WireTyped
  <1>5. WireTyped'
    <2>1. toTarget' \in [1..MaxConnections -> Seq(ToTargetMsgs)]
      BY <1>1, <1>2, <1>3 DEF WireTyped
    <2>2. /\ connections' \in 0..MaxConnections /\ accepted' \in 0..connections'
          /\ served' \in 0..accepted' /\ link' \in 0..connections'
      BY <1>1, <1>2, ProfilerAssumption DEF WireTyped
    <2> QED
      BY <1>1, <1>2, <2>1, <2>2 DEF WireTyped
  <1>6. WireUsed'
    <2>1. connections + 1 > accepted /\ connections + 1 # served /\ link' # 0
      BY <1>1, <1>2 DEF WireTyped
    <2>2. ASSUME NEW c \in 1..MaxConnections, c > connections' \/ (c <= accepted' /\ c # served')
          PROVE  toTarget'[c] = <<>>
      <3>1. c # connections + 1 /\ (c > connections \/ (c <= accepted /\ c # served))
        BY <1>1, <1>2, <2>1, <2>2 DEF WireTyped
      <3> QED
        BY <1>2, <1>4, <3>1 DEF WireUsed
    <2>3. ASSUME NEW c \in 1..MaxConnections, NEW k \in DOMAIN toTarget'[c],
                 k > 1 \/ (c = served' /\ io' # "greeting")
          PROVE  IsControl(toTarget'[c][k])
      <3>1. c # connections + 1
        BY <1>1, <1>3, <1>4, <2>1, <2>3
      <3> QED
        BY <1>1, <1>2, <1>4, <2>3, <3>1 DEF WireUsed
    <2> QED
      BY <1>1, <1>2, <2>1, <2>2, <2>3 DEF WireUsed
  <1>7. Fewer(toTarget, toTarget')
    <2> SUFFICES ASSUME NEW c \in 1..MaxConnections
                 PROVE  \A k \in DOMAIN toTarget'[c] : IsControl(toTarget'[c][k]) =>
                          k + 0 \in DOMAIN toTarget[c] /\ toTarget'[c][k] = toTarget[c][k + 0]
      BY DEF Fewer
    <2>1. CASE c = connections + 1
      BY <1>3, <1>4, <2>1
    <2>2. CASE c # connections + 1
      <3>1. toTarget'[c] = toTarget[c] /\ toTarget[c] \in Seq(ToTargetMsgs)
        BY <1>2, <1>4, <2>2 DEF WireTyped
      <3> QED
        BY <3>1
    <2> QED
      BY <2>1, <2>2
  <1>8. InOrder'
    <2>1. \A c \in 1..MaxConnections : DOMAIN toTarget'[c] \subseteq Nat
      BY <1>5 DEF WireTyped
    <2>2. WireRises(toTarget') /\ WireIds(toTarget') \subseteq WireIds(toTarget)
      BY <1>2, <1>7, <2>1, FewerRises DEF InOrder
    <2> QED
      BY <1>1, <1>2, <2>2, ClientSame, TargetSame, StaysInOrder DEF InOrder
  <1> QED
    BY <1>5, <1>6, <1>8 DEF OrderInv

\* What is sent is behind all that was sent, on the last connection.
LEMMA TransmitInOrder ==
    ASSUME OrderInv, TransmitControl
    PROVE  OrderInv'
  <1>1. /\ worker = "serving" /\ taking /\ PublishHead /\ worker' \in {"serving", "leaving"}
        /\ UNCHANGED <<link, connections, nextRequest>>
        /\ UNCHANGED <<applied, commands, hand>> /\ UNCHANGED <<io, accepted, served>>
    BY DEF TransmitControl, PublishHead, sourceVars, targetVars, ioVars, frameVars
  <1>2. WireTyped /\ WireUsed /\ InOrder
    BY DEF OrderInv
  <1>3. /\ link = connections /\ link \in 1..MaxConnections /\ taken \in Controls
        /\ taken.id \in Nat
    BY <1>1, <1>2, ProfilerAssumption DEF WireTyped, WireUsed, Controls
  <1>4. ClientRises' /\ ClientIds' \subseteq ClientIds /\ ~taking'
    BY <1>1, UnhandInOrder
  <1>5. TargetRises' /\ TargetIds' = TargetIds
    BY <1>1, <1>2, TargetSame DEF InOrder
  <1>6. CASE toTarget' = toTarget
    <2>1. WireTyped'
      BY <1>1, <1>2, <1>4, <1>6 DEF WireTyped
    <2>2. WireUsed'
      BY <1>1, <1>2, <1>6 DEF WireUsed
    <2>3. InOrder'
      BY <1>2, <1>4, <1>5, <1>6, StaysInOrder DEF InOrder
    <2> QED
      BY <2>1, <2>2, <2>3 DEF OrderInv
  <1>7. CASE /\ TargetOpen(link)
             /\ toTarget' = [toTarget EXCEPT ![link] = Append(@, [type |-> "control", control |-> taken])]
    <2>1. PICK msg : msg = [type |-> "control", control |-> taken]
      OBVIOUS
    <2>2. msg \in ToTargetMsgs /\ IsControl(msg)
      BY <1>3, <2>1 DEF ToTargetMsgs, IsControl
    <2>3. \A c \in 1..MaxConnections :
             toTarget'[c] = IF c = link THEN Append(toTarget[c], msg) ELSE toTarget[c]
      BY <1>2, <1>7, <2>1 DEF WireTyped
    <2>4. WireTyped'
      <3>1. toTarget' \in [1..MaxConnections -> Seq(ToTargetMsgs)]
        BY <1>2, <1>3, <1>7, <2>1, <2>2 DEF WireTyped
      <3> QED
        BY <1>1, <1>2, <1>4, <3>1 DEF WireTyped
    <2>5. WireUsed'
      <3>1. ASSUME NEW c \in 1..MaxConnections, c > connections \/ (c <= accepted /\ c # served)
            PROVE  toTarget'[c] = <<>>
        <4>1. c # link
          BY <1>2, <1>3, <1>7, <3>1 DEF TargetOpen, WireTyped
        <4> QED
          BY <1>2, <2>3, <3>1, <4>1 DEF WireUsed
      <3>2. ASSUME NEW c \in 1..MaxConnections, NEW k \in DOMAIN toTarget'[c],
                   k > 1 \/ (c = served /\ io # "greeting")
            PROVE  IsControl(toTarget'[c][k])
        <4>1. CASE c # link
          BY <1>2, <2>3, <3>2, <4>1 DEF WireUsed
        <4>2. CASE c = link
          <5>1. toTarget'[c] = Append(toTarget[c], msg) /\ toTarget[c] \in Seq(ToTargetMsgs)
            BY <1>2, <2>3, <4>2 DEF WireTyped
          <5>2. k = Len(toTarget[c]) + 1 \/ (k \in DOMAIN toTarget[c] /\ toTarget'[c][k] = toTarget[c][k])
            BY ONLY <2>2, <3>2, <5>1, AppendProperties, LenProperties
          <5>3. toTarget'[c][Len(toTarget[c]) + 1] = msg
            BY ONLY <2>2, <5>1, AppendProperties
          <5> QED
            BY <1>2, <2>2, <3>2, <5>2, <5>3 DEF WireUsed
        <4> QED
          BY <4>1, <4>2
      <3> QED
        BY <1>1, <1>2, <3>1, <3>2 DEF WireUsed
    <2>6. WireRises(toTarget') /\ WireIds(toTarget') \subseteq WireIds(toTarget) \cup {taken.id}
      <3>1. Precede(WireIds(toTarget), {taken.id})
        BY <1>1, <1>2 DEF InOrder, Precede, ClientIds
      <3>2. \A d \in 1..MaxConnections : link < d => toTarget[d] = <<>>
        BY <1>2, <1>3 DEF WireUsed
      <3>3. toTarget \in [1..MaxConnections -> Seq(ToTargetMsgs)] /\ WireRises(toTarget)
        BY <1>2 DEF WireTyped, InOrder
      <3>4. toTarget' = Sent(toTarget, link, taken)
        BY <1>7 DEF Sent
      <3> QED
        BY <1>3, <3>1, <3>2, <3>3, <3>4, LongerRises
    <2>7. ~taking' /\ slots' = slots /\ nextRequest' = nextRequest
      BY <1>1 DEF PublishHead
    <2>8. \A b \in ClientIds' : b \in ClientIds /\ taken.id < b
      BY <1>1, <1>2, <1>4, <2>7 DEF ClientIds, InOrder, ClientRises
    <2>9. Precede(TargetIds, {taken.id})
      BY <1>1, <1>2 DEF InOrder, Precede, ClientIds
    <2>10. InOrder'
      BY <1>2, <1>4, <1>5, <2>6, <2>8, <2>9 DEF InOrder, Precede
    <2> QED
      BY <2>4, <2>5, <2>10 DEF OrderInv
  <1> QED
    BY <1>6, <1>7 DEF TransmitControl, Transmitted

\* A step that gives up numbers on the wire or in the target.
LEMMA TargetMoves ==
    ASSUME OrderInv, UNCHANGED clientVars, WireTyped', WireUsed', TargetRises',
           TargetIds' \subseteq TargetIds, Fewer(toTarget, toTarget')
    PROVE  OrderInv'
  <1>1. UNCHANGED <<slots, head, taking, taken, nextRequest>>
    BY DEF clientVars, queueVars, sourceVars
  <1>2. \A c \in 1..MaxConnections : DOMAIN toTarget'[c] \subseteq Nat
    BY DEF WireTyped
  <1>3. WireRises(toTarget') /\ WireIds(toTarget') \subseteq WireIds(toTarget)
    BY <1>2, FewerRises DEF OrderInv, InOrder
  <1>4. InOrder'
    BY <1>1, <1>3, ClientSame, StaysInOrder DEF OrderInv, InOrder
  <1> QED
    BY <1>4 DEF OrderInv

\* Every connection keeps a first part of what is on its way.
Cut(wire, other) ==
    /\ other \in [1..MaxConnections -> Seq(ToTargetMsgs)]
    /\ \A c \in 1..MaxConnections :
         /\ wire[c] = <<>> => other[c] = <<>>
         /\ \A k \in DOMAIN other[c] : k \in DOMAIN wire[c] /\ other[c][k] = wire[c][k]

LEMMA CutSame ==
    ASSUME WireTyped
    PROVE  Cut(toTarget, toTarget)
  BY DEF WireTyped, Cut

\* The target goes on, or stops, and does not read from the wire.
LEMMA TargetRests ==
    ASSUME OrderInv, UNCHANGED clientVars, connections' = connections, Cut(toTarget, toTarget'),
           commands' \in Seq(Controls), hand' \in Controls \cup {Nothing}, applied' \in Nat,
           accepted' \in 0..connections, served' \in 0..accepted',
           io' = "accepting" => served' = 0,
           \A c \in 1..MaxConnections :
              c <= accepted' /\ c # served' => (c <= accepted /\ c # served) \/ toTarget'[c] = <<>>,
           served' # 0 /\ io' # "greeting" => served' = served /\ io # "greeting",
           io' = "pushing" => hand' # Nothing,
           TargetRises', TargetIds' \subseteq TargetIds
    PROVE  OrderInv'
  <1>1. WireTyped /\ WireUsed
    BY DEF OrderInv
  <1>2. UNCHANGED <<worker, link, taking, taken>>
    BY DEF clientVars, queueVars
  <1>3. WireTyped'
    BY <1>1, <1>2 DEF WireTyped, Cut
  <1>4. WireUsed'
    <2>1. \A c \in 1..MaxConnections : c > connections \/ (c <= accepted' /\ c # served') => toTarget'[c] = <<>>
      BY <1>1 DEF WireUsed, Cut
    <2>2. \A c \in 1..MaxConnections : \A k \in DOMAIN toTarget'[c] :
             k > 1 \/ (c = served' /\ io' # "greeting") => IsControl(toTarget'[c][k])
      BY <1>1 DEF WireUsed, Cut
    <2> QED
      BY <1>1, <1>2, <2>1, <2>2 DEF WireUsed
  <1>5. Fewer(toTarget, toTarget')
    <2>1. \A c \in 1..MaxConnections : \A k \in DOMAIN toTarget'[c] :
             k + 0 \in DOMAIN toTarget[c] /\ toTarget'[c][k] = toTarget[c][k + 0]
      BY DEF Cut
    <2> QED
      BY <2>1 DEF Fewer
  <1> QED
    BY <1>3, <1>4, <1>5, TargetMoves

\* The control received follows those before, and the others follow it.
LEMMA ReceiveInOrder ==
    ASSUME OrderInv, StopInv, ReceiveControl
    PROVE  OrderInv'
  <1>1. WireTyped /\ WireUsed /\ InOrder
    BY DEF OrderInv
  <1>2. /\ UNCHANGED clientVars /\ UNCHANGED <<connections, accepted, served, commands, applied>>
        /\ UNCHANGED <<slots, head, taking, taken, nextRequest, worker, link>>
        /\ io = "waiting" /\ io' = "pushing" /\ hand = Nothing
    BY DEF ReceiveControl, clientVars, queueVars, sourceVars, frameVars, StopInv, Lifecycle
  <1>3. served \in 1..MaxConnections /\ toTarget[served] \in Seq(ToTargetMsgs) /\ toTarget[served] # <<>>
    <2>1. served \in 1..MaxConnections
      BY <1>1, ProfilerAssumption DEF ReceiveControl, WireTyped
    <2> QED
      BY <1>1, <2>1 DEF ReceiveControl, WireTyped
  <1>4. PICK line : line = toTarget[served]
    OBVIOUS
  <1>5. PICK n \in Nat : n = Len(line)
    BY <1>3, <1>4
  <1>6. PICK h : h = Head(line).control
    OBVIOUS
  <1>7. /\ DOMAIN line = 1..n /\ 1 \in 1..n /\ Head(line) = line[1] /\ Tail(line) \in Seq(ToTargetMsgs)
        /\ DOMAIN Tail(line) = 1..(n - 1) /\ \A k \in 1..(n - 1) : Tail(line)[k] = line[k + 1]
        /\ line[1] \in ToTargetMsgs
    BY ONLY <1>3, <1>4, <1>5, HeadTailProperties, LenProperties
  <1>8. IsControl(line[1]) /\ h \in Controls /\ h.id \in Nat
    <2>1. IsControl(line[1])
      BY <1>1, <1>2, <1>3, <1>4, <1>7 DEF WireUsed
    <2>2. line[1].control \in Controls
      BY <1>7, <2>1 DEF IsControl, ToTargetMsgs, HelloMsg
    <2> QED
      BY <1>6, <1>7, <2>1, <2>2, ProfilerAssumption DEF Controls
  <1>9. /\ hand' = h
        /\ \A c \in 1..MaxConnections : toTarget'[c] = IF c = served THEN Tail(line) ELSE toTarget[c]
    BY <1>1, <1>4, <1>6 DEF ReceiveControl, WireTyped
  <1>10. h.id \in WireIds(toTarget)
    BY <1>3, <1>4, <1>6, <1>7, <1>8 DEF WireIds
  <1>11. WireTyped'
    <2>1. toTarget' \in [1..MaxConnections -> Seq(ToTargetMsgs)]
      BY <1>1, <1>3, <1>4, <1>7 DEF ReceiveControl, WireTyped
    <2> QED
      BY <1>1, <1>2, <1>8, <1>9, <2>1 DEF WireTyped
  <1>12. h # Nothing
    BY <1>8, QueueAssumption, ProfilerAssumption
  <1>13. \A k \in 1..(n - 1) : k + 1 \in 1..n /\ k + 1 > 1 /\ 1 < k + 1
    OBVIOUS
  <1>14. WireUsed'
    <2>1. ASSUME NEW c \in 1..MaxConnections, c > connections \/ (c <= accepted /\ c # served)
          PROVE  toTarget'[c] = <<>>
      <3>1. c # served
        BY <1>1, <2>1 DEF WireTyped
      <3> QED
        BY <1>1, <1>9, <2>1, <3>1 DEF WireUsed
    <2>2. ASSUME NEW c \in 1..MaxConnections, NEW k \in DOMAIN toTarget'[c], k > 1 \/ c = served
          PROVE  IsControl(toTarget'[c][k])
      <3>1. CASE c = served
        <4>1. k \in 1..(n - 1) /\ toTarget'[c][k] = toTarget[c][k + 1]
          BY <1>4, <1>7, <1>9, <2>2, <3>1
        <4>2. k + 1 \in DOMAIN toTarget[c] /\ k + 1 > 1
          BY <1>4, <1>7, <1>13, <3>1, <4>1
        <4> QED
          BY <1>1, <4>1, <4>2 DEF WireUsed
      <3>2. CASE c # served
        BY <1>1, <1>9, <2>2, <3>2 DEF WireUsed
      <3> QED
        BY <3>1, <3>2
    <2> QED
      BY <1>1, <1>2, <1>9, <1>12, <2>1, <2>2 DEF WireUsed
  <1>15. Fewer(toTarget, toTarget')
    <2> SUFFICES ASSUME NEW c \in 1..MaxConnections
                 PROVE  \E s \in Nat : \A k \in DOMAIN toTarget'[c] :
                          IsControl(toTarget'[c][k]) =>
                             k + s \in DOMAIN toTarget[c] /\ toTarget'[c][k] = toTarget[c][k + s]
      BY DEF Fewer
    <2>1. CASE c = served
      <3>1. \A k \in DOMAIN toTarget'[c] : k + 1 \in DOMAIN toTarget[c] /\ toTarget'[c][k] = toTarget[c][k + 1]
        BY <1>4, <1>7, <1>9, <1>13, <2>1
      <3> QED
        BY <3>1
    <2>2. CASE c # served
      <3>1. \A k \in DOMAIN toTarget'[c] : k + 0 \in DOMAIN toTarget[c] /\ toTarget'[c][k] = toTarget[c][k + 0]
        BY <1>1, <1>9, <2>2 DEF WireTyped
      <3> QED
        BY <3>1
    <2> QED
      BY <2>1, <2>2
  <1>16. WireRises(toTarget') /\ WireIds(toTarget') \subseteq WireIds(toTarget)
    <2>1. \A c \in 1..MaxConnections : DOMAIN toTarget'[c] \subseteq Nat
      BY <1>11 DEF WireTyped
    <2> QED
      BY <1>1, <1>15, <2>1, FewerRises DEF InOrder
  <1>17. Precede({h.id}, WireIds(toTarget'))
    <2> SUFFICES ASSUME NEW e \in WireIds(toTarget') PROVE h.id < e
      BY DEF Precede
    <2>1. PICK c \in 1..MaxConnections :
             \E k \in DOMAIN toTarget'[c] : IsControl(toTarget'[c][k]) /\ e = toTarget'[c][k].control.id
      BY DEF WireIds
    <2>2. PICK k \in DOMAIN toTarget'[c] : IsControl(toTarget'[c][k]) /\ e = toTarget'[c][k].control.id
      BY <2>1
    <2>3. CASE c = served
      <3>1. k \in 1..(n - 1) /\ toTarget'[c][k] = line[k + 1]
        BY <1>7, <1>9, <2>2, <2>3
      <3>2. line[1].control.id < line[k + 1].control.id
        BY <1>1, <1>3, <1>4, <1>7, <1>8, <1>13, <2>2, <3>1 DEF InOrder, WireRises
      <3> QED
        BY <1>6, <1>7, <2>2, <3>1, <3>2
    <2>4. CASE c # served
      <3>1. toTarget'[c] = toTarget[c] /\ toTarget[c] # <<>>
        BY <1>9, <2>2, <2>4
      <3>2. served < c
        BY <1>1, <2>4, <3>1 DEF WireUsed, WireTyped
      <3>3. line[1].control.id < toTarget[c][k].control.id
        BY <1>1, <1>3, <1>4, <1>7, <1>8, <2>2, <3>1, <3>2 DEF InOrder, WireRises
      <3> QED
        BY <1>6, <1>7, <2>2, <3>1, <3>3
    <2> QED
      BY <2>3, <2>4
  <1>18. /\ TargetIds' \subseteq TargetIds \cup {h.id} /\ \A i \in DOMAIN commands : commands[i].id \in TargetIds
         /\ applied \in TargetIds
    BY <1>2, <1>9 DEF TargetIds
  <1>19. TargetRises'
    <2>1. applied < h.id /\ \A i \in DOMAIN commands : commands[i].id < h.id
      BY <1>1, <1>10, <1>18 DEF InOrder, Precede
    <2> QED
      BY <1>1, <1>2, <1>9, <2>1 DEF TargetRises, InOrder
  <1>20. ClientRises' /\ ClientIds' = ClientIds
    BY <1>1, <1>2, ClientSame DEF InOrder
  <1>21. InOrder'
    BY <1>1, <1>10, <1>16, <1>17, <1>18, <1>19, <1>20 DEF InOrder, Precede
  <1> QED
    BY <1>11, <1>14, <1>21 DEF OrderInv

\* The hello is taken off the wire.
LEMMA GreetInOrder ==
    ASSUME OrderInv, Greet
    PROVE  OrderInv'
  <1>1. WireTyped /\ WireUsed /\ InOrder
    BY DEF OrderInv
  <1>2. /\ UNCHANGED clientVars /\ UNCHANGED <<connections, accepted, served, commands, applied, hand>>
        /\ UNCHANGED <<taking, taken, worker, link>>
        /\ io = "greeting" /\ io' = "serving"
    BY DEF Greet, clientVars, queueVars, frameVars
  <1>3. served \in 1..MaxConnections /\ toTarget[served] \in Seq(ToTargetMsgs) /\ toTarget[served] # <<>>
    <2>1. served \in 1..MaxConnections
      BY <1>1, ProfilerAssumption DEF Greet, WireTyped
    <2> QED
      BY <1>1, <2>1 DEF Greet, WireTyped
  <1>4. PICK line : line = toTarget[served]
    OBVIOUS
  <1>5. PICK n \in Nat : n = Len(line)
    BY <1>3, <1>4
  <1>6. /\ DOMAIN line = 1..n /\ Tail(line) \in Seq(ToTargetMsgs)
        /\ DOMAIN Tail(line) = 1..(n - 1) /\ \A k \in 1..(n - 1) : Tail(line)[k] = line[k + 1]
    BY ONLY <1>3, <1>4, <1>5, HeadTailProperties, LenProperties
  <1>7. \A k \in 1..(n - 1) : k + 1 \in 1..n /\ k + 1 > 1
    OBVIOUS
  <1>8. \A c \in 1..MaxConnections : toTarget'[c] = IF c = served THEN Tail(line) ELSE toTarget[c]
    BY <1>1, <1>4 DEF Greet, WireTyped
  <1>9. WireTyped'
    <2>1. toTarget' \in [1..MaxConnections -> Seq(ToTargetMsgs)]
      BY <1>1, <1>3, <1>4, <1>6 DEF Greet, WireTyped
    <2> QED
      BY <1>1, <1>2, <2>1 DEF WireTyped
  <1>10. \A k \in DOMAIN toTarget'[served] :
            k + 1 \in DOMAIN toTarget[served] /\ k + 1 > 1 /\ toTarget'[served][k] = toTarget[served][k + 1]
    BY <1>3, <1>4, <1>6, <1>7, <1>8
  <1>11. WireUsed'
    <2>1. ASSUME NEW c \in 1..MaxConnections, c > connections \/ (c <= accepted /\ c # served)
          PROVE  toTarget'[c] = <<>>
      <3>1. c # served
        BY <1>1, <2>1 DEF WireTyped
      <3> QED
        BY <1>1, <1>8, <2>1, <3>1 DEF WireUsed
    <2>2. ASSUME NEW c \in 1..MaxConnections, NEW k \in DOMAIN toTarget'[c], k > 1 \/ c = served
          PROVE  IsControl(toTarget'[c][k])
      <3>1. CASE c = served
        BY <1>1, <1>3, <1>10, <2>2, <3>1 DEF WireUsed
      <3>2. CASE c # served
        BY <1>1, <1>8, <2>2, <3>2 DEF WireUsed
      <3> QED
        BY <3>1, <3>2
    <2> QED
      BY <1>1, <1>2, <2>1, <2>2 DEF WireUsed
  <1>12. Fewer(toTarget, toTarget')
    <2> SUFFICES ASSUME NEW c \in 1..MaxConnections
                 PROVE  \E s \in Nat : \A k \in DOMAIN toTarget'[c] :
                          IsControl(toTarget'[c][k]) =>
                             k + s \in DOMAIN toTarget[c] /\ toTarget'[c][k] = toTarget[c][k + s]
      BY DEF Fewer
    <2>1. CASE c = served
      BY <1>10, <2>1
    <2>2. CASE c # served
      <3>1. \A k \in DOMAIN toTarget'[c] : k + 0 \in DOMAIN toTarget[c] /\ toTarget'[c][k] = toTarget[c][k + 0]
        BY <1>1, <1>8, <2>2 DEF WireTyped
      <3> QED
        BY <3>1
    <2> QED
      BY <2>1, <2>2
  <1> QED
    BY <1>1, <1>2, <1>9, <1>11, <1>12, TargetSame, TargetMoves DEF InOrder

\* The I/O thread passes on what it has, or reads nothing.
LEMMA IoInOrder ==
    ASSUME OrderInv, StopInv, IoThread
    PROVE  OrderInv'
  <1>1. WireTyped /\ WireUsed /\ InOrder /\ TargetRises
    BY DEF OrderInv, InOrder
  <1>2. Cut(toTarget, toTarget)
    BY <1>1, CutSame
  <1>3. CASE Accept
    <2>1. /\ UNCHANGED clientVars /\ UNCHANGED <<connections, toTarget, commands, applied, hand>>
          /\ accepted < connections /\ accepted' = accepted + 1 /\ served' = accepted' /\ io' = "greeting"
          /\ served = 0
      BY <1>1, <1>3 DEF Accept, wireVars, frameVars, WireUsed
    <2>2. accepted' \in 0..connections /\ served' \in 0..accepted'
      BY <1>1, <2>1 DEF WireTyped
    <2>3. \A c \in 1..MaxConnections : c <= accepted' /\ c # served' => c <= accepted /\ c # served
      BY <1>1, <2>1 DEF WireTyped
    <2> QED
      BY <1>1, <1>2, <2>1, <2>2, <2>3, TargetSame, TargetRests DEF WireTyped
  <1>4. CASE SendPacket \/ OutboundSeenEmpty \/ NothingToReceive
    <2>1. /\ UNCHANGED clientVars
          /\ UNCHANGED <<connections, toTarget, commands, applied, hand, accepted, served>>
          /\ io \in {"serving", "waiting"} /\ io' \in {"serving", "waiting"}
      BY <1>4 DEF SendPacket, OutboundSeenEmpty, NothingToReceive, wireVars, frameVars
    <2> QED
      BY <1>1, <1>2, <2>1, TargetSame, TargetRests DEF WireTyped
  <1>5. CASE PushCommand
    <2>1. /\ UNCHANGED clientVars
          /\ UNCHANGED <<connections, toTarget, applied, accepted, served>>
          /\ io = "pushing" /\ io' = "serving" /\ hand' = Nothing
          /\ hand # Nothing /\ hand \in Controls /\ commands \in Seq(Controls)
      BY <1>1, <1>5 DEF PushCommand, WireUsed, WireTyped
    <2>2. CASE commands' = commands
      <3>1. TargetRises' /\ TargetIds' \subseteq TargetIds
        BY <1>1, <2>1, <2>2 DEF TargetRises, TargetIds
      <3> QED
        BY <1>1, <1>2, <2>1, <2>2, <3>1, TargetRests DEF WireTyped
    <2>3. CASE commands' = Append(commands, hand)
      <3>1. PICK n \in Nat : n = Len(commands)
        BY <2>1
      <3>2. /\ commands' \in Seq(Controls) /\ DOMAIN commands = 1..n /\ DOMAIN commands' = 1..(n + 1)
            /\ commands'[n + 1] = hand /\ \A k \in 1..n : commands'[k] = commands[k]
        BY ONLY <2>1, <2>3, <3>1, AppendProperties, LenProperties
      <3>3. \A k \in 1..(n + 1) : k = n + 1 \/ k \in 1..n
        OBVIOUS
      <3>4. applied < hand.id
        BY <1>1, <2>1 DEF TargetRises
      <3>5. TargetRises'
        <4>1. \A i \in DOMAIN commands' : applied < commands'[i].id
          BY <1>1, <2>1, <3>2, <3>3, <3>4 DEF TargetRises
        <4>2. ASSUME NEW i \in DOMAIN commands', NEW j \in DOMAIN commands', i < j
              PROVE  commands'[i].id < commands'[j].id
          <5>1. i \in 1..n
            BY <3>2, <4>2
          <5> QED
            BY <1>1, <2>1, <3>2, <3>3, <4>2, <5>1 DEF TargetRises
        <4> QED
          BY <2>1, <4>1, <4>2 DEF TargetRises
      <3>6. TargetIds' \subseteq TargetIds
        BY <2>1, <3>2, <3>3 DEF TargetIds
      <3> QED
        BY <1>1, <1>2, <2>1, <3>2, <3>5, <3>6, TargetRests DEF WireTyped
    <2> QED
      BY <1>5, <2>2, <2>3 DEF PushCommand
  <1>6. CASE SessionEnds
    <2>1. /\ UNCHANGED clientVars /\ UNCHANGED <<connections, accepted, commands, applied, hand>>
          /\ served' = 0 /\ io' = "accepting"
          /\ toTarget' = IF served = 0 THEN toTarget ELSE [toTarget EXCEPT ![served] = <<>>]
      BY <1>6 DEF SessionEnds, frameVars
    <2>2. Cut(toTarget, toTarget')
      <3>1. <<>> \in Seq(ToTargetMsgs) /\ DOMAIN <<>> = {}
        OBVIOUS
      <3>2. toTarget \in [1..MaxConnections -> Seq(ToTargetMsgs)]
        BY <1>1 DEF WireTyped
      <3> QED
        BY <1>2, <2>1, <3>1, <3>2 DEF Cut
    <2>3. \A c \in 1..MaxConnections :
             c <= accepted' /\ c # served' => (c <= accepted /\ c # served) \/ toTarget'[c] = <<>>
      BY <1>1, <2>1 DEF WireTyped
    <2> QED
      BY <1>1, <2>1, <2>2, <2>3, TargetSame, TargetRests DEF WireTyped
  <1>7. CASE ThreadEnds
    <2>1. /\ UNCHANGED clientVars
          /\ UNCHANGED <<connections, toTarget, commands, applied, hand, accepted, served>>
          /\ io' = "off" /\ served = 0
      BY <1>7 DEF ThreadEnds, wireVars, frameVars, StopInv, Lifecycle
    <2> QED
      BY <1>1, <1>2, <2>1, TargetSame, TargetRests DEF WireTyped
  <1> QED
    BY <1>3, <1>4, <1>5, <1>6, <1>7, ReceiveInOrder, GreetInOrder DEF IoThread

\* Nothing is left on any connection.
LEMMA EmptyWire ==
    ASSUME toTarget' = [c \in 1..MaxConnections |-> <<>>]
    PROVE  Cut(toTarget, toTarget')
  <1>1. <<>> \in Seq(ToTargetMsgs) /\ DOMAIN <<>> = {}
    OBVIOUS
  <1>2. /\ toTarget' \in [1..MaxConnections -> Seq(ToTargetMsgs)]
        /\ \A c \in 1..MaxConnections : toTarget'[c] = <<>>
    BY <1>1
  <1> QED
    BY <1>1, <1>2 DEF Cut

\* The frame thread applies the first control and keeps the others.
LEMMA ApplyInOrder ==
    ASSUME OrderInv, ApplyCommand
    PROVE  OrderInv'
  <1>1. WireTyped /\ WireUsed /\ TargetRises
    BY DEF OrderInv, InOrder
  <1>2. /\ UNCHANGED clientVars /\ UNCHANGED <<connections, toTarget, accepted, served, io, hand>>
        /\ commands # <<>> /\ commands \in Seq(Controls)
        /\ commands' = Tail(commands) /\ applied' = Head(commands).id
    BY <1>1 DEF ApplyCommand, wireVars, ioVars, WireTyped
  <1>3. PICK n \in Nat : n = Len(commands)
    BY <1>2
  <1>4. /\ DOMAIN commands = 1..n /\ 1 \in 1..n /\ Head(commands) = commands[1]
        /\ commands' \in Seq(Controls) /\ DOMAIN commands' = 1..(n - 1)
        /\ \A k \in 1..(n - 1) : commands'[k] = commands[k + 1]
    BY ONLY <1>2, <1>3, HeadTailProperties, LenProperties
  <1>5. \A k \in 1..(n - 1) : k + 1 \in 1..n /\ 1 < k + 1
    OBVIOUS
  <1>6. applied' = commands[1].id /\ applied' \in Nat
    <2>1. commands[1] \in Controls
      BY <1>2, <1>4
    <2> QED
      BY <1>2, <1>4, <2>1, ProfilerAssumption DEF Controls
  <1>7. TargetRises'
    <2>1. \A i \in DOMAIN commands' : applied' < commands'[i].id
      BY <1>1, <1>4, <1>5, <1>6 DEF TargetRises
    <2>2. ASSUME NEW i \in DOMAIN commands', NEW j \in DOMAIN commands', i < j
          PROVE  commands'[i].id < commands'[j].id
      <3>1. i + 1 \in 1..n /\ j + 1 \in 1..n /\ i + 1 < j + 1
        BY <1>4, <1>5, <2>2
      <3> QED
        BY <1>1, <1>4, <2>2, <3>1 DEF TargetRises
    <2>3. hand' # Nothing => applied' < hand'.id /\ \A i \in DOMAIN commands' : commands'[i].id < hand'.id
      BY <1>1, <1>2, <1>4, <1>5, <1>6 DEF TargetRises
    <2> QED
      BY <2>1, <2>2, <2>3 DEF TargetRises
  <1>8. TargetIds' \subseteq TargetIds
    BY <1>2, <1>4, <1>5, <1>6 DEF TargetIds
  <1>9. Cut(toTarget, toTarget')
    BY <1>1, <1>2, CutSame
  <1> QED
    BY <1>1, <1>2, <1>4, <1>6, <1>7, <1>8, <1>9, TargetRests DEF WireTyped, WireUsed

\* A service that stops leaves nothing on the wire, and one that dies nothing
\* but what was applied.
LEMMA FrameInOrder ==
    ASSUME OrderInv, StopInv, FrameThread \/ Crash
    PROVE  OrderInv'
  <1>1. WireTyped /\ WireUsed /\ TargetRises
    BY DEF OrderInv, InOrder
  <1>2. Cut(toTarget, toTarget)
    BY <1>1, CutSame
  <1>3. <<>> \in Seq(Controls) /\ DOMAIN <<>> = {}
    OBVIOUS
  <1>4. CASE Start
    <2>1. /\ UNCHANGED clientVars
          /\ UNCHANGED <<connections, toTarget, commands, applied, hand, accepted, served>>
          /\ io' = "accepting" /\ served = 0
      BY <1>4 DEF Start, wireVars, StopInv, StoppedIsIdle
    <2> QED
      BY <1>1, <1>2, <2>1, TargetSame, TargetRests DEF WireTyped
  <1>5. CASE PumpBegin \/ PumpEnd
    <2>1. /\ UNCHANGED clientVars
          /\ UNCHANGED <<connections, toTarget, commands, applied, hand, accepted, served, io>>
      BY <1>5 DEF PumpBegin, PumpEnd, wireVars, ioVars
    <2> QED
      BY <1>1, <1>2, <2>1, TargetSame, TargetRests DEF WireTyped, WireUsed
  <1>6. CASE StopBegin
    <2>1. /\ UNCHANGED clientVars /\ UNCHANGED <<connections, commands, applied, hand, io>>
          /\ served' = 0 /\ accepted' = connections
          /\ toTarget' = [c \in 1..MaxConnections |-> <<>>]
      BY <1>6 DEF StopBegin
    <2>2. connections \in 0..connections /\ 0 \in 0..connections
      BY <1>1, ProfilerAssumption DEF WireTyped
    <2>3. Cut(toTarget, toTarget') /\ \A c \in 1..MaxConnections : toTarget'[c] = <<>>
      BY <2>1, EmptyWire
    <2> QED
      BY <1>1, <2>1, <2>2, <2>3, TargetSame, TargetRests DEF WireTyped, WireUsed
  <1>7. CASE StopEnd
    <2>1. /\ UNCHANGED clientVars
          /\ UNCHANGED <<connections, toTarget, applied, hand, accepted, served, io>>
          /\ commands' = <<>>
      BY <1>7 DEF StopEnd, wireVars, ioVars
    <2>2. TargetRises' /\ TargetIds' \subseteq TargetIds
      BY <1>1, <1>3, <2>1 DEF TargetRises, TargetIds
    <2> QED
      BY <1>1, <1>2, <1>3, <2>1, <2>2, TargetRests DEF WireTyped, WireUsed
  <1>8. CASE Crash
    <2>1. /\ UNCHANGED clientVars /\ UNCHANGED <<connections, applied>>
          /\ served' = 0 /\ accepted' = connections /\ io' = "off" /\ hand' = Nothing
          /\ commands' = <<>> /\ toTarget' = [c \in 1..MaxConnections |-> <<>>]
      BY <1>8 DEF Crash
    <2>2. connections \in 0..connections /\ 0 \in 0..connections
      BY <1>1, ProfilerAssumption DEF WireTyped
    <2>3. Cut(toTarget, toTarget') /\ \A c \in 1..MaxConnections : toTarget'[c] = <<>>
      BY <2>1, EmptyWire
    <2>4. TargetRises' /\ TargetIds' \subseteq TargetIds
      BY <1>1, <1>3, <2>1 DEF TargetRises, TargetIds
    <2> QED
      BY <1>1, <1>3, <2>1, <2>2, <2>3, <2>4, TargetRests DEF WireTyped
  <1> QED
    BY <1>4, <1>5, <1>6, <1>7, <1>8, ApplyInOrder DEF FrameThread

\* A connection that breaks loses what is last on it.
LEMMA BreakInOrder ==
    ASSUME OrderInv, Break
    PROVE  OrderInv'
  <1>1. WireTyped /\ WireUsed /\ TargetRises
    BY DEF OrderInv, InOrder
  <1>2. UNCHANGED clientVars /\ UNCHANGED <<connections, commands, applied, hand, accepted, served, io>>
    BY DEF Break, targetVars, ioVars, frameVars
  <1>3. PICK c \in {link, served} \ ({0} \cup cut) :
           \E kept \in 0..Len(toTarget[c]) : toTarget' = [toTarget EXCEPT ![c] = SubSeq(@, 1, kept)]
    BY DEF Break
  <1>4. c \in 1..MaxConnections
    BY <1>1, <1>3, ProfilerAssumption DEF WireTyped
  <1>5. PICK kept \in 0..Len(toTarget[c]) : toTarget' = [toTarget EXCEPT ![c] = SubSeq(@, 1, kept)]
    BY <1>3
  <1>6. toTarget[c] \in Seq(ToTargetMsgs) /\ toTarget \in [1..MaxConnections -> Seq(ToTargetMsgs)]
    BY <1>1, <1>4 DEF WireTyped
  <1>7. PICK part : part = SubSeq(toTarget[c], 1, kept)
    OBVIOUS
  <1>8. /\ part \in Seq(ToTargetMsgs)
        /\ \A k \in DOMAIN part : k \in DOMAIN toTarget[c] /\ part[k] = toTarget[c][k]
    BY <1>5, <1>6, <1>7
  <1>9. \A d \in 1..MaxConnections : toTarget'[d] = IF d = c THEN part ELSE toTarget[d]
    BY <1>4, <1>5, <1>6, <1>7
  <1>10. toTarget' \in [1..MaxConnections -> Seq(ToTargetMsgs)]
    BY <1>4, <1>5, <1>6, <1>7, <1>8
  <1>11. Cut(toTarget, toTarget')
    <2>1. toTarget[c] = <<>> => part = <<>>
      BY <1>5, <1>7
    <2> QED
      BY <1>8, <1>9, <1>10, <2>1 DEF Cut
  <1> QED
    BY <1>1, <1>2, <1>11, TargetSame, TargetRests DEF WireTyped, WireUsed

\* Nothing has been sent at first.
LEMMA InitInOrder == Init => OrderInv
  <1> SUFFICES ASSUME Init PROVE OrderInv
    OBVIOUS
  <1>1. /\ connections = 0 /\ accepted = 0 /\ served = 0 /\ link = 0 /\ worker = "connecting"
        /\ commands = <<>> /\ hand = Nothing /\ applied = 0 /\ nextRequest = 1 /\ io = "off"
        /\ ~taking /\ toTarget = [c \in 1..MaxConnections |-> <<>>]
        /\ \A i \in Indices : slots[i] = Nothing
    BY DEF Init, QueueInit
  <1>2. /\ <<>> \in Seq(ToTargetMsgs) /\ <<>> \in Seq(Controls) /\ DOMAIN <<>> = {}
        /\ MaxConnections \in Nat
    BY ProfilerAssumption
  <1>3. \A c \in 1..MaxConnections : toTarget[c] = <<>>
    BY <1>1
  <1>4. WireTyped
    <2>1. toTarget \in [1..MaxConnections -> Seq(ToTargetMsgs)]
      BY <1>1, <1>2
    <2> QED
      BY <1>1, <1>2, <2>1 DEF WireTyped
  <1>5. WireUsed
    BY <1>1, <1>2, <1>3 DEF WireUsed
  <1>6. /\ TargetIds = {0} /\ WireIds(toTarget) = {} /\ ClientIds = {1}
    BY <1>1, <1>2, <1>3 DEF TargetIds, WireIds, ClientIds
  <1>7. TargetRises /\ WireRises(toTarget) /\ ClientRises
    BY <1>1, <1>2, <1>3 DEF TargetRises, WireRises, ClientRises
  <1>8. Precede(TargetIds, WireIds(toTarget)) /\ Precede(TargetIds \cup WireIds(toTarget), ClientIds)
    BY <1>6 DEF Precede
  <1> QED
    BY <1>4, <1>5, <1>7, <1>8 DEF OrderInv, InOrder

\* Every step keeps the invariant.
LEMMA StepKeepsOrder == OrderInv /\ StopInv /\ DiscardInv /\ [Next]_vars => OrderInv'
  <1> SUFFICES ASSUME OrderInv, StopInv, DiscardInv, [Next]_vars PROVE OrderInv'
    OBVIOUS
  <1>1. CASE Source
    BY <1>1, SendInOrder, ClientInOrder DEF Source
  <1>2. CASE Worker
    BY <1>2, ConnectInOrder, PopInOrder, TransmitInOrder, ClientInOrder DEF Worker
  <1>3. CASE UNCHANGED vars
    <2>1. /\ UNCHANGED clientVars
          /\ UNCHANGED <<connections, toTarget, commands, applied, hand, accepted, served, io>>
      BY <1>3 DEF vars, wireVars, targetVars, ioVars, frameVars
    <2>2. WireTyped /\ WireUsed /\ TargetRises /\ Cut(toTarget, toTarget')
      BY <2>1, CutSame DEF OrderInv, InOrder
    <2> QED
      BY <2>1, <2>2, TargetSame, TargetRests DEF WireTyped, WireUsed
  <1> QED
    BY <1>1, <1>2, <1>3, IoInOrder, FrameInOrder, BreakInOrder DEF Next

\* No control is applied twice and none overtakes another: whatever breaks,
\* stops or dies, a control that is applied was sent after all those applied
\* before.
THEOREM ControlsStayInOrder == Spec => ControlsInOrder
  <1>1. ASSUME OrderInv PROVE [ApplyCommand => Head(commands).id > applied]_vars
    <2> SUFFICES ASSUME ApplyCommand PROVE Head(commands).id > applied
      OBVIOUS
    <2>1. commands # <<>> /\ commands \in Seq(Controls) /\ applied \in Nat
      BY <1>1 DEF ApplyCommand, OrderInv, WireTyped
    <2>2. 1 \in DOMAIN commands /\ Head(commands) = commands[1] /\ commands[1] \in Controls
      BY <2>1
    <2>3. applied < commands[1].id /\ commands[1].id \in Nat
      BY <1>1, <2>2, ProfilerAssumption DEF OrderInv, InOrder, TargetRises, Controls
    <2> QED
      BY <2>1, <2>2, <2>3
  <1> QED
    BY <1>1, InitInOrder, InitStopped, InitDiscards, StepKeepsOrder, StepKeepsStopInv, StepDiscards,
       PTL DEF Spec, ControlsInOrder

-----------------------------------------------------------------------------
(* The stream to the source.  A view is what the source knows.             *)

Views == [names : SUBSET Names, last : Nat, told : Nat]
View == [names |-> known, last |-> lastFrame, told |-> told]

\* What a source that reads a message knows then.
After(v, msg) ==
    [names |-> IF msg.type = "hello" THEN {}
               ELSE IF msg.type = "names" THEN v.names \cup msg.names ELSE v.names,
     last  |-> IF msg.type = "hello" THEN 0
               ELSE IF msg.type = "frame" THEN msg.number ELSE v.last,
     told  |-> IF msg.type \in {"hello", "frame"} THEN 0
               ELSE IF msg.type = "drop" THEN v.told + msg.count ELSE v.told]

\* A message it can make sense of.
Fits(v, msg) ==
    /\ msg.type = "names" => msg.names \cap v.names = {}
    /\ msg.type = "frame" => msg.name \in v.names /\ (v.last # 0 => msg.number = v.last + v.told + 1)

\* Reading line takes a source from v to w, each message making sense to it.
Reads(views, line) ==
    \A k \in 1..Len(line) : Fits(views[k - 1], line[k]) /\ views[k] = After(views[k - 1], line[k])
Leads(v, line, w) ==
    \E views \in [0..Len(line) -> Views] :
        views[0] = v /\ views[Len(line)] = w /\ Reads(views, line)

\* Sent in this order, the packets of queue are frames with the numbers from
\* n on, those reported as lost left out, up to e.
Numbers(ends, queue) ==
    \A k \in 1..Len(queue) :
        \/ /\ queue[k].body.type = "status" /\ queue[k].names = {} /\ queue[k].drop = 0
           /\ ends[k] = ends[k - 1]
        \/ /\ queue[k].body.type = "frame" /\ queue[k].names = {queue[k].body.name}
           /\ queue[k].body.number = ends[k - 1] + queue[k].drop + 1
           /\ ends[k] = queue[k].body.number
Counts(n, queue, e) ==
    \E ends \in [0..Len(queue) -> Nat] : ends[0] = n /\ ends[Len(queue)] = e /\ Numbers(ends, queue)

\* The worker has a session or waits for one.
Listening == worker \in {"greeting", "serving", "waiting"}
\* What the I/O thread writes reaches it.
Heard == link # 0 /\ served = link /\ link \notin cut /\ io # "greeting"

StreamTyped ==
    /\ known \subseteq Names /\ lastFrame \in Nat /\ told \in Nat
    /\ toClient \in Seq(ToClientMsgs) /\ outbound \in Seq(Packets) /\ sentNames \subseteq Names
    /\ completed \in Nat /\ pending \in 0..completed

\* A hello is the first message of a session, and comes once it is accepted.
HelloFirst ==
    /\ Listening => \A k \in DOMAIN toClient : toClient[k].type = "hello" <=> worker = "greeting" /\ k = 1
    /\ link # 0 /\ (link > accepted \/ (served = link /\ io = "greeting")) =>
         worker = "greeting" /\ toClient = <<>>
    /\ Heard /\ worker = "greeting" => toClient # <<>>

\* n is the last frame that left the queue.  What the source knows when it
\* has read everything is what the target takes it to know.
Continues(n) ==
    /\ Counts(n, outbound, completed - pending)
    /\ Listening => \E w \in Views :
         /\ Leads(View, toClient, w)
         /\ Heard => w.names = sentNames /\ w.told = 0 /\ w.last \in {0, n}

StreamInv == StreamTyped /\ HelloFirst /\ \E n \in Nat : Continues(n)

\* A view stays one.
LEMMA AfterTyped ==
    ASSUME NEW v \in Views, NEW msg \in ToClientMsgs
    PROVE  After(v, msg) \in Views
  <1>1. msg.type = "names" => msg.names \subseteq Names
    BY DEF ToClientMsgs, HelloMsg
  <1>2. msg.type = "frame" => msg.number \in Nat
    BY DEF ToClientMsgs, HelloMsg
  <1>3. msg.type = "drop" => msg.count \in Nat
    BY DEF ToClientMsgs, HelloMsg
  <1> QED
    BY <1>1, <1>2, <1>3 DEF After, Views

LEMMA LeadsNowhere ==
    ASSUME NEW v \in Views
    PROVE  Leads(v, <<>>, v)
  <1>1. PICK views : views = [k \in 0..0 |-> v]
    OBVIOUS
  <1>2. views \in [0..0 -> Views] /\ views[0] = v
    BY <1>1
  <1>3. Len(<<>>) = 0 /\ 1..0 = {}
    OBVIOUS
  <1> QED
    BY <1>2, <1>3 DEF Leads, Reads

\* The first message is read.
LEMMA LeadsTail ==
    ASSUME NEW v \in Views, NEW w, NEW line \in Seq(ToClientMsgs), line # <<>>, Leads(v, line, w)
    PROVE  Fits(v, Head(line)) /\ Leads(After(v, Head(line)), Tail(line), w)
  <1>1. PICK views \in [0..Len(line) -> Views] : views[0] = v /\ views[Len(line)] = w /\ Reads(views, line)
    BY DEF Leads
  <1>2. PICK n \in Nat : n = Len(line)
    OBVIOUS
  <1>3. /\ n >= 1 /\ 1 \in 1..n /\ Head(line) = line[1] /\ Len(Tail(line)) = n - 1 /\ n - 1 \in Nat
        /\ \A k \in 1..(n - 1) : Tail(line)[k] = line[k + 1]
    BY <1>2
  <1>4. Fits(v, Head(line)) /\ views[1] = After(v, Head(line))
    BY <1>1, <1>2, <1>3 DEF Reads
  <1>5. PICK rest : rest = [k \in 0..(n - 1) |-> views[k + 1]]
    OBVIOUS
  <1>6. /\ rest \in [0..(n - 1) -> Views]
        /\ \A k \in 0..(n - 1) : rest[k] = views[k + 1]
    BY <1>1, <1>2, <1>3, <1>5
  <1>7. rest[0] = views[1] /\ rest[n - 1] = w
    BY <1>1, <1>2, <1>3, <1>6
  <1>8. Reads(rest, Tail(line))
    <2> SUFFICES ASSUME NEW k \in 1..(n - 1)
                 PROVE  Fits(rest[k - 1], Tail(line)[k]) /\ rest[k] = After(rest[k - 1], Tail(line)[k])
      BY <1>3 DEF Reads
    <2>1. k + 1 \in 1..n /\ (k + 1) - 1 = k /\ k \in 0..(n - 1) /\ k - 1 \in 0..(n - 1) /\ (k - 1) + 1 = k
      BY <1>3
    <2>2. rest[k - 1] = views[k] /\ rest[k] = views[k + 1] /\ Tail(line)[k] = line[k + 1]
      BY <1>3, <1>6, <2>1
    <2>3. Fits(views[(k + 1) - 1], line[k + 1]) /\ views[k + 1] = After(views[(k + 1) - 1], line[k + 1])
      BY <1>1, <1>2, <2>1 DEF Reads
    <2> QED
      BY <2>1, <2>2, <2>3
  <1> QED
    BY <1>3, <1>4, <1>6, <1>7, <1>8 DEF Leads

\* A line that is cut off is read as far as it goes.
LEMMA LeadsPart ==
    ASSUME NEW v, NEW w, NEW line \in Seq(ToClientMsgs), Leads(v, line, w), NEW n \in 0..Len(line)
    PROVE  \E x \in Views : Leads(v, SubSeq(line, 1, n), x)
  <1>1. PICK views \in [0..Len(line) -> Views] : views[0] = v /\ views[Len(line)] = w /\ Reads(views, line)
    BY DEF Leads
  <1>2. /\ Len(SubSeq(line, 1, n)) = n /\ Len(line) \in Nat
        /\ \A k \in 1..n : SubSeq(line, 1, n)[k] = line[k] /\ k \in 1..Len(line)
    OBVIOUS
  <1>3. PICK some : some = [k \in 0..n |-> views[k]]
    OBVIOUS
  <1>4. some \in [0..n -> Views] /\ \A k \in 0..n : some[k] = views[k]
    BY <1>1, <1>2, <1>3
  <1>5. Reads(some, SubSeq(line, 1, n))
    <2> SUFFICES ASSUME NEW k \in 1..n
                 PROVE  /\ Fits(some[k - 1], SubSeq(line, 1, n)[k])
                        /\ some[k] = After(some[k - 1], SubSeq(line, 1, n)[k])
      BY <1>2 DEF Reads
    <2>1. k \in 0..n /\ k - 1 \in 0..n
      OBVIOUS
    <2> QED
      BY <1>1, <1>2, <1>4, <2>1 DEF Reads
  <1>6. some[0] = v /\ some[n] \in Views
    BY <1>1, <1>4
  <1> QED
    BY <1>2, <1>4, <1>5, <1>6 DEF Leads

\* One more message that makes sense.
LEMMA LeadsOn ==
    ASSUME NEW v, NEW w \in Views, NEW line \in Seq(ToClientMsgs), Leads(v, line, w),
           NEW msg \in ToClientMsgs, Fits(w, msg)
    PROVE  Leads(v, Append(line, msg), After(w, msg))
  <1>1. PICK views \in [0..Len(line) -> Views] : views[0] = v /\ views[Len(line)] = w /\ Reads(views, line)
    BY DEF Leads
  <1>2. PICK n \in Nat : n = Len(line)
    OBVIOUS
  <1>3. /\ Len(Append(line, msg)) = n + 1 /\ Append(line, msg)[n + 1] = msg
        /\ \A k \in 1..n : Append(line, msg)[k] = line[k]
    BY <1>2
  <1>4. PICK more : more = [k \in 0..(n + 1) |-> IF k = n + 1 THEN After(w, msg) ELSE views[k]]
    OBVIOUS
  <1>5. /\ \A k \in 0..n : k \in 0..(n + 1) /\ k # n + 1
        /\ \A k \in 0..(n + 1) : k = n + 1 \/ k \in 0..n
        /\ n + 1 \in 0..(n + 1) /\ n \in 0..n /\ 0 \in 0..n /\ (n + 1) - 1 = n
    OBVIOUS
  <1>6. more[n + 1] = After(w, msg) /\ \A k \in 0..n : more[k] = views[k]
    BY <1>4, <1>5
  <1>7. more \in [0..(n + 1) -> Views]
    BY <1>1, <1>2, <1>4, <1>5, AfterTyped
  <1>8. Reads(more, Append(line, msg))
    <2> SUFFICES ASSUME NEW k \in 1..(n + 1)
                 PROVE  /\ Fits(more[k - 1], Append(line, msg)[k])
                        /\ more[k] = After(more[k - 1], Append(line, msg)[k])
      BY <1>3 DEF Reads
    <2>1. CASE k = n + 1
      BY <1>1, <1>2, <1>3, <1>5, <1>6, <2>1
    <2>2. CASE k # n + 1
      <3>1. k \in 1..n /\ k \in 0..n /\ k - 1 \in 0..n
        BY <2>2
      <3> QED
        BY <1>1, <1>2, <1>3, <1>6, <3>1 DEF Reads
    <2> QED
      BY <2>1, <2>2
  <1>9. more[0] = v
    BY <1>1, <1>5, <1>6
  <1> QED
    BY <1>3, <1>6, <1>7, <1>8, <1>9 DEF Leads

LEMMA CountsNothing ==
    ASSUME NEW n \in Nat
    PROVE  Counts(n, <<>>, n)
  <1>1. PICK ends : ends = [k \in 0..0 |-> n]
    OBVIOUS
  <1>2. ends \in [0..0 -> Nat] /\ ends[0] = n
    BY <1>1
  <1>3. Len(<<>>) = 0 /\ 1..0 = {}
    OBVIOUS
  <1> QED
    BY <1>2, <1>3 DEF Counts, Numbers

\* The packet at the head of the queue, and the number it leaves.
StatusOf(p) == p.body.type = "status" /\ p.names = {} /\ p.drop = 0
FrameOf(p, n) ==
    p.body.type = "frame" /\ p.names = {p.body.name} /\ p.body.number = n + p.drop + 1
Leaves(p, n) == IF p.body.type = "frame" THEN p.body.number ELSE n

LEMMA PacketTyped ==
    ASSUME NEW p \in Packets, NEW n \in Nat
    PROVE  Leaves(p, n) \in Nat /\ p.drop \in Nat
  BY DEF Packets, Leaves

LEMMA CountsTail ==
    ASSUME NEW n \in Nat, NEW e, NEW queue \in Seq(Packets), queue # <<>>, Counts(n, queue, e)
    PROVE  /\ StatusOf(Head(queue)) \/ FrameOf(Head(queue), n)
           /\ Leaves(Head(queue), n) \in Nat /\ Counts(Leaves(Head(queue), n), Tail(queue), e)
  <1>1. PICK ends \in [0..Len(queue) -> Nat] :
           ends[0] = n /\ ends[Len(queue)] = e /\ Numbers(ends, queue)
    BY DEF Counts
  <1>2. PICK m \in Nat : m = Len(queue)
    OBVIOUS
  <1>3. /\ m >= 1 /\ 1 \in 1..m /\ Head(queue) = queue[1] /\ Len(Tail(queue)) = m - 1 /\ m - 1 \in Nat
        /\ \A k \in 1..(m - 1) : Tail(queue)[k] = queue[k + 1]
    BY <1>2
  <1>4. (StatusOf(queue[1]) \/ FrameOf(queue[1], n)) /\ ends[1] = Leaves(queue[1], n)
    BY <1>1, <1>2, <1>3 DEF Numbers, StatusOf, FrameOf, Leaves
  <1>5. PICK rest : rest = [k \in 0..(m - 1) |-> ends[k + 1]]
    OBVIOUS
  <1>6. /\ rest \in [0..(m - 1) -> Nat]
        /\ \A k \in 0..(m - 1) : rest[k] = ends[k + 1]
    BY <1>1, <1>2, <1>3, <1>5
  <1>7. rest[0] = ends[1] /\ rest[m - 1] = e /\ ends[1] \in Nat
    BY <1>1, <1>2, <1>3, <1>6
  <1>8. Numbers(rest, Tail(queue))
    <2> SUFFICES ASSUME NEW k \in 1..(m - 1)
                 PROVE  \/ /\ Tail(queue)[k].body.type = "status" /\ Tail(queue)[k].names = {}
                           /\ Tail(queue)[k].drop = 0 /\ rest[k] = rest[k - 1]
                        \/ /\ Tail(queue)[k].body.type = "frame"
                           /\ Tail(queue)[k].names = {Tail(queue)[k].body.name}
                           /\ Tail(queue)[k].body.number = rest[k - 1] + Tail(queue)[k].drop + 1
                           /\ rest[k] = Tail(queue)[k].body.number
      BY <1>3 DEF Numbers
    <2>1. k + 1 \in 1..m /\ (k + 1) - 1 = k /\ k \in 0..(m - 1) /\ k - 1 \in 0..(m - 1) /\ (k - 1) + 1 = k
      BY <1>3
    <2>2. rest[k - 1] = ends[k] /\ rest[k] = ends[k + 1] /\ Tail(queue)[k] = queue[k + 1]
      BY <1>3, <1>6, <2>1
    <2>3. ends[(k + 1) - 1] = ends[k]
      BY <2>1
    <2> QED
      BY <1>1, <1>2, <2>1, <2>2, <2>3 DEF Numbers
  <1> QED
    BY <1>3, <1>4, <1>6, <1>7, <1>8 DEF Counts

\* One more packet, with the next number or none.
LEMMA CountsOn ==
    ASSUME NEW n, NEW e \in Nat, NEW queue \in Seq(Packets), Counts(n, queue, e),
           NEW p \in Packets, StatusOf(p) \/ FrameOf(p, e)
    PROVE  Counts(n, Append(queue, p), Leaves(p, e))
  <1>1. PICK ends \in [0..Len(queue) -> Nat] :
           ends[0] = n /\ ends[Len(queue)] = e /\ Numbers(ends, queue)
    BY DEF Counts
  <1>2. PICK m \in Nat : m = Len(queue)
    OBVIOUS
  <1>3. /\ Len(Append(queue, p)) = m + 1 /\ Append(queue, p)[m + 1] = p
        /\ \A k \in 1..m : Append(queue, p)[k] = queue[k]
    BY <1>2
  <1>4. PICK more : more = [k \in 0..(m + 1) |-> IF k = m + 1 THEN Leaves(p, e) ELSE ends[k]]
    OBVIOUS
  <1>5. /\ \A k \in 0..m : k \in 0..(m + 1) /\ k # m + 1
        /\ \A k \in 0..(m + 1) : k = m + 1 \/ k \in 0..m
        /\ m + 1 \in 0..(m + 1) /\ m \in 0..m /\ 0 \in 0..m /\ (m + 1) - 1 = m
    OBVIOUS
  <1>6. more[m + 1] = Leaves(p, e) /\ \A k \in 0..m : more[k] = ends[k]
    BY <1>4, <1>5
  <1>7. more \in [0..(m + 1) -> Nat]
    BY <1>1, <1>2, <1>4, <1>5, PacketTyped
  <1>8. PICK longer : longer = Append(queue, p)
    OBVIOUS
  <1>9. Numbers(more, longer)
    <2> SUFFICES ASSUME NEW k \in 1..(m + 1)
                 PROVE  \/ /\ longer[k].body.type = "status" /\ longer[k].names = {}
                           /\ longer[k].drop = 0 /\ more[k] = more[k - 1]
                        \/ /\ longer[k].body.type = "frame" /\ longer[k].names = {longer[k].body.name}
                           /\ longer[k].body.number = more[k - 1] + longer[k].drop + 1
                           /\ more[k] = longer[k].body.number
      BY <1>3, <1>8 DEF Numbers
    <2>1. CASE k = m + 1
      <3>1. longer[k] = p /\ more[k] = Leaves(p, e) /\ more[k - 1] = e
        BY <1>1, <1>2, <1>3, <1>5, <1>6, <1>8, <2>1
      <3> QED
        BY <3>1 DEF StatusOf, FrameOf, Leaves
    <2>2. CASE k # m + 1
      <3>1. k \in 1..m /\ k \in 0..m /\ k - 1 \in 0..m
        BY <2>2
      <3>2. longer[k] = queue[k] /\ more[k] = ends[k] /\ more[k - 1] = ends[k - 1]
        BY <1>3, <1>6, <1>8, <3>1
      <3> QED
        BY <1>1, <1>2, <3>1, <3>2 DEF Numbers
    <2> QED
      BY <2>1, <2>2
  <1>10. more[0] = n
    BY <1>1, <1>5, <1>6
  <1> QED
    BY <1>3, <1>6, <1>7, <1>8, <1>9, <1>10 DEF Counts

\* The messages of a packet bring the source to what the target takes it to
\* know.
LEMMA PacketLeads ==
    ASSUME NEW v, NEW w \in Views, NEW line \in Seq(ToClientMsgs), Leads(v, line, w),
           w.names = sentNames, w.told = 0, NEW n \in Nat, w.last \in {0, n},
           NEW p \in Packets, StatusOf(p) \/ FrameOf(p, n)
    PROVE  \E x \in Views : /\ Leads(v, line \o WireOf(p), x)
                            /\ x.names = sentNames \cup p.names /\ x.told = 0
                            /\ x.last \in {0, Leaves(p, n)}
  <1>1. PICK added : added = p.names \ sentNames
    OBVIOUS
  <1>2. PICK a : a = IF added # {} THEN <<[type |-> "names", names |-> added]>> ELSE <<>>
    OBVIOUS
  <1>3. PICK b : b = IF p.drop # 0 THEN <<[type |-> "drop", count |-> p.drop]>> ELSE <<>>
    OBVIOUS
  <1>4. /\ [type |-> "names", names |-> added] \in ToClientMsgs
        /\ [type |-> "drop", count |-> p.drop] \in ToClientMsgs
        /\ p.body \in ToClientMsgs /\ p.drop \in Nat
    BY <1>1 DEF ToClientMsgs, Packets
  <1>5. a \in Seq(ToClientMsgs) /\ b \in Seq(ToClientMsgs) /\ <<p.body>> \in Seq(ToClientMsgs)
    BY <1>2, <1>3, <1>4
  <1>6. WireOf(p) = a \o b \o <<p.body>>
    BY <1>1, <1>2, <1>3 DEF WireOf
  <1>7. /\ line \o a \in Seq(ToClientMsgs) /\ (line \o a) \o b \in Seq(ToClientMsgs)
        /\ line \o WireOf(p) = Append((line \o a) \o b, p.body)
    <2>1. line \o a \in Seq(ToClientMsgs) /\ a \o b \in Seq(ToClientMsgs)
      BY <1>5
    <2>2. (line \o a) \o b \in Seq(ToClientMsgs) /\ (line \o a) \o b = line \o (a \o b)
      BY ONLY <1>5, <2>1, ConcatAssociative, ConcatProperties
    <2>3. line \o ((a \o b) \o <<p.body>>) = (line \o (a \o b)) \o <<p.body>>
      BY ONLY <1>5, <2>1, ConcatAssociative, line \in Seq(ToClientMsgs)
    <2>4. ((line \o a) \o b) \o <<p.body>> = Append((line \o a) \o b, p.body)
      BY ONLY <1>4, <2>2, AppendIsConcat
    <2> QED
      BY <1>6, <2>1, <2>2, <2>3, <2>4
  <1>a. PICK la \in Seq(ToClientMsgs) : la = line \o a
    BY <1>7
  <1>b. PICK lb \in Seq(ToClientMsgs) : lb = la \o b
    BY <1>7, <1>a
  <1>c. line \o WireOf(p) = Append(lb, p.body)
    BY <1>7, <1>a, <1>b
  <1>8. PICK x \in Views : Leads(v, la, x) /\ x.names = sentNames \cup p.names /\ x.told = 0 /\ x.last = w.last
    <2>1. CASE added = {}
      <3>1. la = line /\ sentNames \cup p.names = sentNames
        BY <1>1, <1>2, <1>a, <2>1
      <3> QED
        BY <3>1
    <2>2. CASE added # {}
      <3>1. PICK msg : msg = [type |-> "names", names |-> added]
        OBVIOUS
      <3>2. /\ la = Append(line, msg) /\ msg \in ToClientMsgs
            /\ msg.type = "names" /\ msg.names = added
        BY <1>2, <1>4, <1>a, <2>2, <3>1
      <3>3. Fits(w, msg)
        BY <1>1, <3>2 DEF Fits
      <3>4. /\ After(w, msg).names = sentNames \cup p.names
            /\ After(w, msg).told = 0 /\ After(w, msg).last = w.last
        BY <1>1, <3>2 DEF After
      <3> QED
        BY <3>2, <3>3, <3>4, LeadsOn, AfterTyped
    <2> QED
      BY <2>1, <2>2
  <1>9. PICK y \in Views : /\ Leads(v, lb, y) /\ y.names = x.names
                           /\ y.told = p.drop /\ y.last = w.last
    <2>1. CASE p.drop = 0
      <3>1. lb = la
        BY <1>3, <1>b, <2>1
      <3> QED
        BY <1>8, <2>1, <3>1
    <2>2. CASE p.drop # 0
      <3>1. PICK msg : msg = [type |-> "drop", count |-> p.drop]
        OBVIOUS
      <3>2. /\ lb = Append(la, msg) /\ msg \in ToClientMsgs
            /\ msg.type = "drop" /\ msg.count = p.drop
        BY <1>3, <1>4, <1>b, <2>2, <3>1
      <3>3. Fits(x, msg)
        BY <3>2 DEF Fits
      <3>4. /\ After(x, msg).names = x.names
            /\ After(x, msg).told = p.drop /\ After(x, msg).last = w.last
        BY <1>4, <1>8, <3>2 DEF After
      <3> QED
        BY <1>8, <3>2, <3>3, <3>4, LeadsOn, AfterTyped
    <2> QED
      BY <2>1, <2>2
  <1>10. Fits(y, p.body)
    BY <1>4, <1>8, <1>9 DEF Fits, StatusOf, FrameOf
  <1>11. /\ After(y, p.body).names = sentNames \cup p.names /\ After(y, p.body).told = 0
         /\ After(y, p.body).last \in {0, Leaves(p, n)}
    BY <1>8, <1>9 DEF After, StatusOf, FrameOf, Leaves
  <1>12. Leads(v, Append(lb, p.body), After(y, p.body)) /\ After(y, p.body) \in Views
    BY ONLY <1>4, <1>9, <1>10, LeadsOn, AfterTyped, y \in Views, lb \in Seq(ToClientMsgs)
  <1> QED
    BY <1>11, <1>12, <1>c

\* What a step has to show.
LEMMA StreamHolds ==
    ASSUME StreamTyped', HelloFirst', NEW n \in Nat, Counts(n, outbound', completed' - pending'),
           Listening' => \E w \in Views :
              /\ Leads(View', toClient', w)
              /\ Heard' => w.names = sentNames' /\ w.told = 0 /\ w.last \in {0, n}
    PROVE  StreamInv'
  BY DEF StreamInv, Continues

\* Only the ends of the stream change.
LEMMA StreamRests ==
    ASSUME StreamInv, OrderInv,
           UNCHANGED <<known, lastFrame, told, toClient, outbound, sentNames, completed, pending>>,
           link' = link, cut \subseteq cut', worker' = "greeting" <=> worker = "greeting", Listening' => Listening,
           link # 0 /\ (link > accepted' \/ (served' = link /\ io' = "greeting"))
              => link > accepted \/ (served = link /\ io = "greeting"),
           link # 0 /\ served' = link /\ io' # "greeting" => served = link /\ io # "greeting"
    PROVE  StreamInv'
  <1>1. PICK n \in Nat : Continues(n)
    BY DEF StreamInv
  <1>2. Heard' => Heard
    BY DEF Heard
  <1>3. StreamTyped'
    BY DEF StreamInv, StreamTyped
  <1>4. HelloFirst'
    BY <1>2 DEF StreamInv, HelloFirst
  <1>5. View' = View
    BY DEF View
  <1> QED
    BY <1>1, <1>2, <1>3, <1>4, <1>5, StreamHolds DEF Continues

\* A new connection has nothing on it.
LEMMA ConnectStreams ==
    ASSUME StreamInv, OrderInv, Connect
    PROVE  StreamInv'
  <1>1. /\ link' = connections + 1 /\ toClient' = <<>> /\ worker' = "greeting"
        /\ UNCHANGED <<known, lastFrame, told, outbound, sentNames, completed, pending, accepted, served, io>>
    BY DEF Connect, sourceVars, targetVars, ioVars, frameVars
  <1>2. PICK n \in Nat : Continues(n)
    BY DEF StreamInv
  <1>3. ~Heard'
    BY <1>1, ProfilerAssumption DEF Heard, OrderInv, WireTyped
  <1>4. StreamTyped'
    BY <1>1 DEF StreamInv, StreamTyped
  <1>5. HelloFirst'
    BY <1>1, <1>3 DEF HelloFirst
  <1>6. View' = View /\ View \in Views
    BY <1>1 DEF View, Views, StreamInv, StreamTyped
  <1> QED
    BY <1>1, <1>2, <1>3, <1>4, <1>5, <1>6, LeadsNowhere, StreamHolds DEF Continues

\* The source reads a message, which makes sense to it.
LEMMA ReadStreams ==
    ASSUME StreamInv, OrderInv, ReceiveHello \/ ReadMessage
    PROVE  StreamInv' /\ Fits(View, Head(toClient))
  <1>1. /\ Listening /\ toClient # <<>> /\ toClient' = Tail(toClient) /\ worker' = "serving"
        /\ UNCHANGED <<link, cut, outbound, sentNames, completed, pending, accepted, served, io>>
    BY DEF ReceiveHello, ReadMessage, Listening, targetVars, ioVars, frameVars
  <1>2. StreamTyped /\ HelloFirst /\ View \in Views
    BY DEF StreamInv, StreamTyped, View, Views
  <1>3. PICK n \in Nat : Continues(n)
    BY DEF StreamInv
  <1>4. PICK w \in Views : Leads(View, toClient, w)
                           /\ (Heard => w.names = sentNames /\ w.told = 0 /\ w.last \in {0, n})
    BY <1>1, <1>3 DEF Continues
  <1>5. PICK len \in Nat : len = Len(toClient)
    BY <1>2 DEF StreamTyped
  <1>6. /\ toClient \in Seq(ToClientMsgs) /\ DOMAIN toClient = 1..len /\ 1 \in 1..len
        /\ Head(toClient) = toClient[1] /\ toClient[1] \in ToClientMsgs
        /\ toClient' \in Seq(ToClientMsgs) /\ DOMAIN toClient' = 1..(len - 1)
        /\ \A k \in 1..(len - 1) : toClient'[k] = toClient[k + 1]
    <2>1. toClient \in Seq(ToClientMsgs)
      BY <1>2 DEF StreamTyped
    <2> QED
      BY ONLY <1>1, <1>5, <2>1, HeadTailProperties, LenProperties
  <1>7. \A k \in 1..(len - 1) : k + 1 \in 1..len /\ k + 1 # 1
    OBVIOUS
  <1>8. toClient[1].type = "hello" <=> worker = "greeting"
    BY <1>1, <1>2, <1>6 DEF HelloFirst
  <1>9. Fits(View, Head(toClient)) /\ Leads(After(View, Head(toClient)), toClient', w)
    BY <1>1, <1>2, <1>4, <1>6, LeadsTail
  <1>10. View' = After(View, Head(toClient))
    <2>1. CASE ReceiveHello
      <3>1. Head(toClient).type = "hello"
        BY <1>6, <1>8, <2>1 DEF ReceiveHello
      <3> QED
        BY <2>1, <3>1 DEF ReceiveHello, View, After
    <2>2. CASE ReadMessage
      <3>1. Head(toClient).type # "hello"
        BY <1>6, <1>8, <2>2 DEF ReadMessage
      <3> QED
        BY <2>2, <3>1 DEF ReadMessage, View, After
    <2> QED
      BY <2>1, <2>2
  <1>11. StreamTyped'
    <2>1. View' \in Views
      BY <1>2, <1>6, <1>10, AfterTyped
    <2>2. known' \subseteq Names /\ lastFrame' \in Nat /\ told' \in Nat
      BY <2>1 DEF View, Views
    <2> QED
      BY <1>1, <1>2, <1>6, <2>2 DEF StreamTyped
  <1>12. HelloFirst'
    <2>1. \A k \in DOMAIN toClient' : toClient'[k].type # "hello"
      BY <1>1, <1>2, <1>6, <1>7 DEF HelloFirst
    <2>2. ~(link # 0 /\ (link > accepted \/ (served = link /\ io = "greeting")))
      BY <1>1, <1>2 DEF HelloFirst
    <2> QED
      BY <1>1, <2>1, <2>2 DEF HelloFirst
  <1>13. Heard' <=> Heard
    BY <1>1 DEF Heard
  <1>14. Counts(n, outbound', completed' - pending')
    BY <1>1, <1>3 DEF Continues
  <1>15. StreamInv'
    BY <1>1, <1>4, <1>9, <1>10, <1>11, <1>12, <1>13, <1>14, StreamHolds
  <1> QED
    BY <1>9, <1>15

\* Without a session nothing is said of the stream.
LEMMA LeaveStreams ==
    ASSUME StreamInv, OrderInv, HandshakeFails \/ Release
    PROVE  StreamInv'
  <1>1. /\ link' = 0 /\ toClient' = <<>> /\ worker' \in {"connecting", "discarding"}
        /\ UNCHANGED <<known, lastFrame, told, outbound, sentNames, completed, pending>>
    BY DEF HandshakeFails, Release, sourceVars, targetVars, ioVars, frameVars
  <1>2. PICK n \in Nat : Continues(n)
    BY DEF StreamInv
  <1>3. StreamTyped'
    BY <1>1 DEF StreamInv, StreamTyped
  <1>4. HelloFirst' /\ ~Listening'
    BY <1>1 DEF HelloFirst, Listening, Heard
  <1> QED
    BY <1>1, <1>2, <1>3, <1>4, StreamHolds DEF Continues

\* The client's other steps do not touch the stream.
LEMMA ClientStreams ==
    ASSUME StreamInv, OrderInv, Source \/ Worker
    PROVE  StreamInv'
  <1>1. CASE Source
    <2>1. UNCHANGED <<known, lastFrame, told, toClient, link, cut, worker, targetVars>>
      BY <1>1 DEF Source, Send, SendEnds, sourceVars, wireVars
    <2> QED
      BY <2>1, StreamRests DEF targetVars, ioVars, frameVars, Listening
  <1>2. CASE PopControl \/ TransmitControl \/ QueueSeenEmpty \/ WaitTimesOut \/ ReadFails
    <2>1. /\ UNCHANGED <<known, lastFrame, told, toClient, link, cut, targetVars>>
          /\ worker' = "greeting" <=> worker = "greeting"
          /\ Listening' => Listening
      BY <1>2 DEF PopControl, TransmitControl, QueueSeenEmpty, WaitTimesOut, ReadFails, sourceVars,
         wireVars, Listening
    <2> QED
      BY <2>1, StreamRests DEF targetVars, ioVars, frameVars
  <1>3. CASE DiscardControl \/ DiscardEnds \/ NotifyDisconnect
    <2>1. /\ UNCHANGED <<known, lastFrame, told, toClient, link, cut, targetVars>>
          /\ worker' = "greeting" <=> worker = "greeting"
          /\ Listening' => Listening
      BY <1>3 DEF DiscardControl, DiscardEnds, NotifyDisconnect, sourceVars, wireVars, Listening
    <2> QED
      BY <2>1, StreamRests DEF targetVars, ioVars, frameVars
  <1> QED
    BY <1>1, <1>2, <1>3, ConnectStreams, ReadStreams, LeaveStreams DEF Worker

\* More messages after the hello.
LEMMA MoreAfterHello ==
    ASSUME NEW line \in Seq(ToClientMsgs), NEW more \in Seq(ToClientMsgs), NEW greeting \in BOOLEAN,
           \A k \in DOMAIN line : line[k].type = "hello" <=> greeting /\ k = 1,
           \A k \in DOMAIN more : more[k].type # "hello",
           greeting => line # <<>>
    PROVE  \A k \in DOMAIN (line \o more) : (line \o more)[k].type = "hello" <=> greeting /\ k = 1
  <1>1. PICK n \in Nat : n = Len(line)
    OBVIOUS
  <1>2. PICK m \in Nat : m = Len(more)
    OBVIOUS
  <1>3. PICK whole : whole = line \o more
    OBVIOUS
  <1>4. /\ DOMAIN line = 1..n /\ DOMAIN more = 1..m /\ DOMAIN whole = 1..(n + m)
        /\ \A k \in 1..n : whole[k] = line[k]
        /\ \A k \in 1..(n + m) : k \in 1..n \/ (k - n \in 1..m /\ whole[k] = more[k - n])
    BY <1>1, <1>2, <1>3
  <1>5. greeting => 1 \in 1..n
    BY <1>1
  <1> QED
    BY <1>3, <1>4, <1>5

\* What a packet spells out is no hello.
LEMMA WireOfTyped ==
    ASSUME NEW p \in Packets
    PROVE  /\ WireOf(p) \in Seq(ToClientMsgs) /\ WireOf(p) # <<>>
           /\ \A k \in DOMAIN WireOf(p) : WireOf(p)[k].type # "hello"
  <1>1. PICK a : a = IF p.names \ sentNames # {} THEN <<[type |-> "names", names |-> p.names \ sentNames]>> ELSE <<>>
    OBVIOUS
  <1>2. PICK b : b = IF p.drop # 0 THEN <<[type |-> "drop", count |-> p.drop]>> ELSE <<>>
    OBVIOUS
  <1>3. /\ [type |-> "names", names |-> p.names \ sentNames] \in ToClientMsgs
        /\ [type |-> "drop", count |-> p.drop] \in ToClientMsgs
        /\ p.body \in ToClientMsgs /\ p.body.type # "hello"
    BY DEF ToClientMsgs, Packets
  <1>4. a \in Seq(ToClientMsgs) /\ \A k \in DOMAIN a : a[k].type # "hello"
    BY <1>1, <1>3
  <1>5. b \in Seq(ToClientMsgs) /\ \A k \in DOMAIN b : b[k].type # "hello"
    BY <1>2, <1>3
  <1>6. /\ a \o b \in Seq(ToClientMsgs)
        /\ \A k \in DOMAIN (a \o b) : (a \o b)[k].type = "hello" <=> FALSE /\ k = 1
    BY <1>4, <1>5, MoreAfterHello
  <1>7. <<p.body>> \in Seq(ToClientMsgs) /\ \A k \in DOMAIN <<p.body>> : <<p.body>>[k].type # "hello"
    BY <1>3
  <1>8. PICK ab \in Seq(ToClientMsgs) : ab = a \o b
    BY <1>6
  <1>9. WireOf(p) = ab \o <<p.body>>
    BY <1>1, <1>2, <1>8 DEF WireOf
  <1>10. /\ ab \o <<p.body>> \in Seq(ToClientMsgs) /\ ab \o <<p.body>> # <<>>
         /\ \A k \in DOMAIN (ab \o <<p.body>>) : (ab \o <<p.body>>)[k].type = "hello" <=> FALSE /\ k = 1
    <2>1. \A k \in DOMAIN ab : ab[k].type = "hello" <=> FALSE /\ k = 1
      BY <1>6, <1>8
    <2>2. ab \o <<p.body>> \in Seq(ToClientMsgs) /\ ab \o <<p.body>> # <<>>
      BY <1>7
    <2> QED
      BY <1>7, <2>1, <2>2, MoreAfterHello
  <1> QED
    BY <1>9, <1>10

\* The session begins with nothing told.
LEMMA GreetStreams ==
    ASSUME StreamInv, OrderInv, Greet
    PROVE  StreamInv'
  <1>1. /\ UNCHANGED <<known, lastFrame, told, outbound, completed, pending>>
        /\ UNCHANGED <<worker, link, cut, accepted, served>>
        /\ io = "greeting" /\ io' = "serving" /\ sentNames' = {} /\ served # 0
        /\ toClient' = IF ClientOpen(served) THEN toClient \o <<HelloMsg>> ELSE toClient
    BY DEF Greet, Returned, clientVars, sourceVars, frameVars
  <1>2. StreamTyped /\ HelloFirst /\ View \in Views /\ View' = View
    BY <1>1 DEF StreamInv, StreamTyped, View, Views
  <1>3. PICK n \in Nat : Continues(n)
    BY DEF StreamInv
  <1>4. ~Heard /\ Counts(n, outbound', completed' - pending')
    BY <1>1, <1>3 DEF Heard, Continues
  <1>5. HelloMsg \in ToClientMsgs /\ HelloMsg.type = "hello"
    BY DEF ToClientMsgs, HelloMsg
  <1>6. CASE ClientOpen(served)
    <2>1. served = link /\ link # 0 /\ worker = "greeting" /\ toClient = <<>>
      BY <1>1, <1>2, <1>6 DEF ClientOpen, HelloFirst
    <2>2. /\ toClient' = <<HelloMsg>> /\ toClient' = Append(<<>>, HelloMsg) /\ toClient' # <<>>
          /\ toClient' \in Seq(ToClientMsgs) /\ DOMAIN toClient' = {1} /\ toClient'[1] = HelloMsg
      BY <1>1, <1>5, <1>6, <2>1
    <2>3. StreamTyped'
      BY <1>1, <1>2, <2>2 DEF StreamTyped
    <2>4. HelloFirst'
      <3>1. ~(link > accepted)
        BY <2>1 DEF OrderInv, WireTyped
      <3> QED
        BY <1>1, <1>5, <2>1, <2>2, <3>1 DEF HelloFirst
    <2>5. PICK x : x = After(View, HelloMsg)
      OBVIOUS
    <2>6. x \in Views /\ x.names = {} /\ x.told = 0 /\ x.last = 0
      BY <1>2, <1>5, <2>5, AfterTyped DEF After
    <2>7. Leads(View, toClient', x)
      <3>1. Leads(View, <<>>, View) /\ Fits(View, HelloMsg) /\ <<>> \in Seq(ToClientMsgs)
        BY <1>2, <1>5, LeadsNowhere DEF Fits
      <3>2. Leads(View, Append(<<>>, HelloMsg), After(View, HelloMsg))
        BY ONLY <1>2, <1>5, <3>1, LeadsOn
      <3> QED
        BY <2>2, <2>5, <3>2
    <2> QED
      BY <1>1, <1>2, <1>4, <2>3, <2>4, <2>6, <2>7, StreamHolds
  <1>7. CASE ~ClientOpen(served)
    <2>1. ~Heard' /\ toClient' = toClient
      BY <1>1, <1>7 DEF Heard, ClientOpen
    <2>2. StreamTyped'
      BY <1>1, <1>2, <2>1 DEF StreamTyped
    <2>3. HelloFirst'
      BY <1>1, <1>2, <2>1 DEF HelloFirst, Listening
    <2>4. Listening' => Listening
      BY <1>1 DEF Listening
    <2> QED
      BY <1>2, <1>3, <1>4, <2>1, <2>2, <2>3, <2>4, StreamHolds DEF Continues
  <1> QED
    BY <1>6, <1>7

\* What is sent is put behind what is on the way, or nobody reads it.
LEMMA ReturnedStreams ==
    ASSUME StreamInv, OrderInv, NEW msgs \in Seq(ToClientMsgs), msgs # <<>>,
           \A k \in DOMAIN msgs : msgs[k].type # "hello",
           UNCHANGED <<known, lastFrame, told, completed, pending, worker, link, cut, accepted, served>>,
           io \in {"serving", "pushing"}, io' = "serving", Returned(msgs),
           outbound' \in Seq(Packets), sentNames' \subseteq Names,
           NEW n \in Nat, Continues(n), NEW m \in Nat, Counts(m, outbound', completed - pending),
           \A w \in Views :
              Leads(View, toClient, w) /\ w.names = sentNames /\ w.told = 0 /\ w.last \in {0, n}
              => \E x \in Views : /\ Leads(View, toClient \o msgs, x)
                                  /\ x.names = sentNames' /\ x.told = 0 /\ x.last \in {0, m}
    PROVE  StreamInv'
  <1>1. StreamTyped /\ HelloFirst /\ View' = View
    BY DEF StreamInv, View
  <1>2. toClient' \in Seq(ToClientMsgs) /\ toClient \in Seq(ToClientMsgs)
    BY <1>1 DEF StreamTyped, Returned
  <1>3. StreamTyped'
    BY <1>1, <1>2 DEF StreamTyped
  <1>4. Heard' = Heard /\ Listening' = Listening
    BY DEF Heard, Listening
  <1>5. link # 0 => (Heard <=> ClientOpen(served))
    BY DEF Heard, ClientOpen
  <1>6. Listening => link # 0
    BY DEF Listening, OrderInv, WireUsed
  <1>7. CASE link # 0 /\ Heard
    <2>1. toClient' = toClient \o msgs
      BY <1>5, <1>7 DEF Returned
    <2>2. toClient' # <<>>
      BY <1>2, <2>1
    <2>3. HelloFirst'
      <3>1. Listening => \A k \in DOMAIN toClient' : toClient'[k].type = "hello" <=> worker = "greeting" /\ k = 1
        <4>1. (worker = "greeting") \in BOOLEAN
          OBVIOUS
        <4> QED
          BY <1>1, <1>2, <1>7, <2>1, <4>1, MoreAfterHello DEF HelloFirst
      <3>2. ~(link > accepted)
        BY <1>7 DEF Heard, OrderInv, WireTyped
      <3> QED
        BY <1>4, <2>2, <3>1, <3>2 DEF HelloFirst
    <2>4. Listening => \E w \in Views : Leads(View, toClient, w) /\ w.names = sentNames /\ w.told = 0 /\ w.last \in {0, n}
      BY <1>7 DEF Continues
    <2>5. Listening => \E x \in Views : /\ Leads(View, toClient', x)
                                        /\ x.names = sentNames' /\ x.told = 0 /\ x.last \in {0, m}
      BY <2>1, <2>4
    <2> QED
      BY <1>1, <1>3, <1>4, <2>3, <2>5, StreamHolds
  <1>8. CASE link # 0 /\ ~Heard
    <2>1. toClient' = toClient
      BY <1>5, <1>8 DEF Returned
    <2>2. HelloFirst'
      BY <1>1, <1>4, <1>8, <2>1 DEF HelloFirst
    <2> QED
      BY <1>1, <1>3, <1>4, <1>8, <2>1, <2>2, StreamHolds DEF Continues
  <1>9. CASE link = 0
    <2>1. HelloFirst' /\ ~Listening'
      BY <1>4, <1>6, <1>9 DEF HelloFirst, Heard
    <2> QED
      BY <1>3, <2>1, StreamHolds
  <1> QED
    BY <1>7, <1>8, <1>9

\* A packet is spelled out.
LEMMA SendPacketStreams ==
    ASSUME StreamInv, OrderInv, SendPacket
    PROVE  StreamInv'
  <1>1. PICK p : p = Head(outbound)
    OBVIOUS
  <1>2. /\ UNCHANGED <<known, lastFrame, told, completed, pending, worker, link, cut, accepted, served>>
        /\ io = "serving" /\ io' = "serving" /\ Returned(WireOf(p)) /\ outbound # <<>>
        /\ outbound' = Tail(outbound) /\ sentNames' = sentNames \cup p.names
    BY <1>1 DEF SendPacket, clientVars, sourceVars
  <1>3. StreamTyped /\ outbound \in Seq(Packets) /\ p \in Packets /\ toClient \in Seq(ToClientMsgs)
    BY <1>1, <1>2 DEF StreamInv, StreamTyped
  <1>4. PICK n \in Nat : Continues(n)
    BY DEF StreamInv
  <1>5. PICK m : m = Leaves(p, n)
    OBVIOUS
  <1>6. m \in Nat /\ (StatusOf(p) \/ FrameOf(p, n)) /\ Counts(m, outbound', completed - pending)
    BY <1>1, <1>2, <1>3, <1>4, <1>5, CountsTail DEF Continues
  <1>7. outbound' \in Seq(Packets) /\ sentNames' \subseteq Names
    BY <1>2, <1>3 DEF StreamTyped, Packets
  <1>8. PICK msgs : msgs = WireOf(p)
    OBVIOUS
  <1>9. msgs \in Seq(ToClientMsgs) /\ msgs # <<>> /\ \A k \in DOMAIN msgs : msgs[k].type # "hello"
    BY <1>3, <1>8, WireOfTyped
  <1>10. ASSUME NEW w \in Views, Leads(View, toClient, w),
                w.names = sentNames, w.told = 0, w.last \in {0, n}
         PROVE  \E x \in Views : /\ Leads(View, toClient \o msgs, x)
                                 /\ x.names = sentNames' /\ x.told = 0 /\ x.last \in {0, m}
    BY <1>2, <1>3, <1>5, <1>6, <1>8, <1>10, PacketLeads
  <1>11. Returned(msgs) /\ io \in {"serving", "pushing"}
    BY <1>2, <1>8
  <1> QED
    BY <1>2, <1>4, <1>6, <1>7, <1>9, <1>10, <1>11, ReturnedStreams

\* The I/O thread's other steps send an error or nothing.
LEMMA IoStreams ==
    ASSUME StreamInv, OrderInv, StopInv, IoThread
    PROVE  StreamInv'
  <1>1. WireTyped /\ WireUsed
    BY DEF OrderInv
  <1>2. CASE Accept
    <2>1. /\ UNCHANGED clientVars /\ UNCHANGED <<toClient, cut, outbound, completed, pending, sentNames>>
          /\ accepted' = accepted + 1 /\ served' = accepted' /\ io' = "greeting"
      BY <1>2 DEF Accept, wireVars, frameVars
    <2>2. \A c \in Nat : c > accepted' \/ c = accepted' => c > accepted
      BY <1>1, <2>1 DEF WireTyped
    <2>3. link \in Nat
      BY <1>1 DEF WireTyped
    <2> QED
      BY <2>1, <2>2, <2>3, StreamRests DEF clientVars, sourceVars, Listening
  <1>3. CASE OutboundSeenEmpty \/ ReceiveControl \/ NothingToReceive
    <2>1. /\ UNCHANGED clientVars
          /\ UNCHANGED <<toClient, cut, outbound, completed, pending, sentNames, accepted, served>>
          /\ io # "greeting" /\ io' # "greeting"
      BY <1>3 DEF OutboundSeenEmpty, ReceiveControl, NothingToReceive, wireVars, frameVars
    <2> QED
      BY <2>1, StreamRests DEF clientVars, sourceVars, Listening
  <1>4. CASE SessionEnds \/ ThreadEnds
    <2>1. /\ UNCHANGED clientVars
          /\ UNCHANGED <<toClient, cut, outbound, completed, pending, sentNames, accepted>>
          /\ served' = 0
      BY <1>4 DEF SessionEnds, ThreadEnds, wireVars, frameVars, StopInv, Lifecycle
    <2> QED
      BY <2>1, StreamRests DEF clientVars, sourceVars, Listening
  <1>5. CASE PushCommand
    <2>1. /\ UNCHANGED clientVars /\ UNCHANGED <<cut, outbound, completed, pending, sentNames, accepted, served>>
          /\ io = "pushing" /\ io' = "serving"
          /\ toClient' = toClient \/ Returned(<<[type |-> "error"]>>)
      BY <1>5 DEF PushCommand
    <2>2. CASE toClient' = toClient
      BY <2>1, <2>2, StreamRests DEF clientVars, sourceVars, Listening
    <2>3. CASE Returned(<<[type |-> "error"]>>)
      <3>1. PICK msg : msg = [type |-> "error"]
        OBVIOUS
      <3>2. PICK msgs : msgs = <<msg>>
        OBVIOUS
      <3>3. /\ msg \in ToClientMsgs /\ msg.type = "error"
            /\ msgs \in Seq(ToClientMsgs) /\ msgs # <<>> /\ \A k \in DOMAIN msgs : msgs[k].type # "hello"
        BY <3>1, <3>2 DEF ToClientMsgs
      <3>4. PICK n \in Nat : Continues(n)
        BY DEF StreamInv
      <3>5. StreamTyped /\ toClient \in Seq(ToClientMsgs) /\ toClient \o msgs = Append(toClient, msg)
        BY <3>2, <3>3 DEF StreamInv, StreamTyped
      <3>6. ASSUME NEW w \in Views, Leads(View, toClient, w),
                   w.names = sentNames, w.told = 0, w.last \in {0, n}
            PROVE  \E x \in Views : /\ Leads(View, toClient \o msgs, x)
                                    /\ x.names = sentNames' /\ x.told = 0 /\ x.last \in {0, n}
        <4>1. Fits(w, msg)
          BY <3>3 DEF Fits
        <4>2. After(w, msg).names = w.names /\ After(w, msg).told = w.told /\ After(w, msg).last = w.last
          BY <3>3 DEF After
        <4>3. Leads(View, Append(toClient, msg), After(w, msg)) /\ After(w, msg) \in Views
          BY ONLY <3>3, <3>5, <3>6, <4>1, LeadsOn, AfterTyped
        <4> QED
          BY <2>1, <3>5, <3>6, <4>2, <4>3
      <3>7. /\ Returned(msgs) /\ io \in {"serving", "pushing"} /\ outbound' \in Seq(Packets)
            /\ sentNames' \subseteq Names /\ Counts(n, outbound', completed - pending)
        BY <2>1, <2>3, <3>1, <3>2, <3>4, <3>5 DEF StreamTyped, Continues
      <3>8. UNCHANGED <<known, lastFrame, told, completed, pending, worker, link, cut, accepted, served>>
        BY <2>1 DEF clientVars, sourceVars
      <3> QED
        BY <2>1, <3>3, <3>4, <3>6, <3>7, <3>8, ReturnedStreams
    <2> QED
      BY <2>1, <2>2, <2>3
  <1> QED
    BY <1>2, <1>3, <1>4, <1>5, GreetStreams, SendPacketStreams DEF IoThread

\* A packet, or none, is put into the queue.
LEMMA QueueStreams ==
    ASSUME StreamInv, OrderInv, UNCHANGED clientVars,
           UNCHANGED <<toClient, cut, sentNames, accepted, served, io>>,
           outbound' \in Seq(Packets), completed' \in Nat, pending' \in 0..completed',
           \A n \in Nat : Counts(n, outbound, completed - pending)
                          => Counts(n, outbound', completed' - pending')
    PROVE  StreamInv'
  <1>1. PICK n \in Nat : Continues(n)
    BY DEF StreamInv
  <1>2. UNCHANGED <<known, lastFrame, told, worker, link>>
    BY DEF clientVars, sourceVars
  <1>3. StreamTyped'
    BY <1>2 DEF StreamInv, StreamTyped
  <1>4. View' = View /\ Listening' = Listening /\ Heard' = Heard
    BY <1>2 DEF View, Listening, Heard
  <1>5. HelloFirst'
    BY <1>2, <1>4 DEF StreamInv, HelloFirst
  <1> QED
    BY <1>1, <1>3, <1>4, <1>5, StreamHolds DEF Continues

\* The queue is emptied when nobody is served.
LEMMA EmptyQueueStreams ==
    ASSUME StreamInv, OrderInv, UNCHANGED clientVars, toClient' = toClient,
           outbound' = <<>>, pending' = 0, completed' \in Nat, sentNames' \subseteq Names,
           served' = 0, accepted' \in Nat, accepted <= accepted'
    PROVE  StreamInv'
  <1>1. PICK n \in Nat : Continues(n)
    BY DEF StreamInv
  <1>2. UNCHANGED <<known, lastFrame, told, worker, link>> /\ link \in Nat /\ accepted \in Nat
    BY DEF clientVars, sourceVars, OrderInv, WireTyped
  <1>3. StreamTyped'
    <2>1. 0 \in 0..completed' /\ <<>> \in Seq(Packets)
      OBVIOUS
    <2> QED
      BY <1>2, <2>1 DEF StreamInv, StreamTyped
  <1>4. View' = View /\ Listening' = Listening /\ ~Heard'
    BY <1>2 DEF View, Listening, Heard
  <1>5. HelloFirst'
    BY <1>2, <1>4 DEF StreamInv, HelloFirst
  <1>6. Counts(completed', outbound', completed' - pending')
    BY CountsNothing
  <1> QED
    BY <1>1, <1>3, <1>4, <1>5, <1>6, StreamHolds DEF Continues

\* A control is acknowledged by a status, if there is room for it.
LEMMA ApplyStreams ==
    ASSUME StreamInv, OrderInv, ApplyCommand
    PROVE  StreamInv'
  <1>1. PICK id : id = Head(commands).id
    OBVIOUS
  <1>2. id \in Nat
    <2>1. Head(commands) \in Controls
      BY DEF ApplyCommand, OrderInv, WireTyped
    <2> QED
      BY <1>1, <2>1, ProfilerAssumption DEF Controls
  <1>3. PICK p : p = [names |-> {}, drop |-> 0, body |-> [type |-> "status", id |-> id]]
    OBVIOUS
  <1>4. p \in Packets /\ StatusOf(p)
    BY <1>2, <1>3 DEF Packets, StatusOf
  <1>5. /\ UNCHANGED clientVars /\ UNCHANGED <<toClient, cut, sentNames, accepted, served, io>>
        /\ completed' = completed /\ pending' = pending
        /\ outbound' = outbound \/ outbound' = Append(outbound, p)
    BY <1>1, <1>3 DEF ApplyCommand, Offered, wireVars, ioVars
  <1>6. StreamTyped
    BY DEF StreamInv
  <1>7. \A n \in Nat : Counts(n, outbound, completed - pending) => Counts(n, Append(outbound, p), completed - pending)
    <2>1. completed - pending \in Nat /\ outbound \in Seq(Packets)
      BY <1>6 DEF StreamTyped
    <2>2. Leaves(p, completed - pending) = completed - pending
      BY <1>4 DEF Leaves, StatusOf
    <2> QED
      BY <1>4, <2>1, <2>2, CountsOn
  <1>8. outbound' \in Seq(Packets) /\ completed' \in Nat /\ pending' \in 0..completed'
    <2>1. outbound \in Seq(Packets) /\ completed \in Nat /\ pending \in 0..completed
      BY <1>6 DEF StreamTyped
    <2> QED
      BY <1>4, <1>5, <2>1
  <1>9. \A n \in Nat : Counts(n, outbound, completed - pending) => Counts(n, outbound', completed' - pending')
    BY <1>5, <1>7
  <1> QED
    BY <1>5, <1>8, <1>9, QueueStreams

\* A frame has the next number, and its packet the number of those that were
\* lost before it; or it is lost.
LEMMA PackStreams ==
    ASSUME StreamInv, OrderInv, PumpEnd
    PROVE  StreamInv'
  <1>1. /\ UNCHANGED clientVars /\ UNCHANGED <<toClient, cut, sentNames, accepted, served, io>>
    BY DEF PumpEnd, wireVars, ioVars
  <1>2. StreamTyped
    BY DEF StreamInv
  <1>3. completed \in Nat /\ pending \in 0..completed /\ outbound \in Seq(Packets)
    BY <1>2 DEF StreamTyped
  <1>4. CASE UNCHANGED <<outbound, pending, completed>>
    BY <1>1, <1>3, <1>4, QueueStreams
  <1>5. ASSUME NEW name \in Names, PackFrame(name)
        PROVE  StreamInv'
    <2>1. PICK p : p = FramePacket(name, completed + 1, pending)
      OBVIOUS
    <2>2. p \in Packets /\ FrameOf(p, completed - pending) /\ Leaves(p, completed - pending) = completed + 1
      BY <1>3, <2>1 DEF FramePacket, Packets, FrameOf, Leaves
    <2>3. completed' = completed + 1
      BY <1>5 DEF PackFrame
    <2>4. CASE Len(outbound) < OutboundCapacity
      <3>1. outbound' = Append(outbound, p) /\ pending' = 0
        BY <1>5, <2>1, <2>4 DEF PackFrame, Offered
      <3>2. completed - pending \in Nat /\ completed' - pending' = completed + 1
        BY <1>3, <2>3, <3>1
      <3>3. outbound' \in Seq(Packets) /\ completed' \in Nat /\ pending' \in 0..completed'
        BY <1>3, <2>2, <2>3, <3>1
      <3>4. \A n \in Nat : Counts(n, outbound, completed - pending) => Counts(n, outbound', completed' - pending')
        BY <1>3, <2>2, <3>1, <3>2, CountsOn
      <3> QED
        BY <1>1, <3>3, <3>4, QueueStreams
    <2>5. CASE ~(Len(outbound) < OutboundCapacity)
      <3>1. outbound' = outbound /\ pending' = pending + 1
        BY <1>5, <2>5 DEF PackFrame, Offered
      <3>2. completed' - pending' = completed - pending /\ completed' \in Nat /\ pending' \in 0..completed'
        BY <1>3, <2>3, <3>1
      <3> QED
        BY <1>1, <1>3, <3>1, <3>2, QueueStreams
    <2> QED
      BY <2>4, <2>5
  <1> QED
    BY <1>4, <1>5 DEF PumpEnd

\* The frame thread, or the end of the process.
LEMMA FrameStreams ==
    ASSUME StreamInv, OrderInv, StopInv, FrameThread \/ Crash
    PROVE  StreamInv'
  <1>1. WireTyped /\ StreamTyped
    BY DEF OrderInv, StreamInv
  <1>2. CASE Start \/ PumpBegin
    <2>1. /\ UNCHANGED clientVars
          /\ UNCHANGED <<toClient, cut, outbound, completed, pending, sentNames, accepted, served>>
          /\ io' = io \/ (served = 0 /\ io' = "accepting")
      BY <1>2 DEF Start, PumpBegin, wireVars, ioVars, StopInv, StoppedIsIdle
    <2> QED
      BY <2>1, StreamRests DEF clientVars, sourceVars, Listening
  <1>3. CASE StopBegin
    <2>1. /\ UNCHANGED clientVars
          /\ UNCHANGED <<toClient, cut, outbound, completed, pending, sentNames>>
          /\ served' = 0 /\ accepted' = connections
      BY <1>3 DEF StopBegin
    <2>2. ~(link > accepted')
      BY <1>1, <2>1 DEF WireTyped
    <2> QED
      BY <2>1, <2>2, StreamRests DEF clientVars, sourceVars, Listening
  <1>4. CASE StopEnd
    <2>1. /\ UNCHANGED clientVars /\ UNCHANGED <<toClient, sentNames, completed, accepted>>
          /\ outbound' = <<>> /\ pending' = 0 /\ served' = 0
      BY <1>4 DEF StopEnd, wireVars, ioVars, StopInv, Lifecycle
    <2>2. accepted' \in Nat /\ accepted <= accepted'
      BY <1>1, <2>1 DEF WireTyped
    <2> QED
      BY <1>1, <2>1, <2>2, EmptyQueueStreams DEF StreamTyped
  <1>5. CASE Crash
    <2>1. /\ UNCHANGED clientVars /\ toClient' = toClient
          /\ sentNames' = {} /\ completed' = 0 /\ accepted' = connections
          /\ outbound' = <<>> /\ pending' = 0 /\ served' = 0
      BY <1>5 DEF Crash
    <2>2. accepted' \in Nat /\ accepted <= accepted'
      BY <1>1, <2>1, ProfilerAssumption DEF WireTyped
    <2> QED
      BY <2>1, <2>2, EmptyQueueStreams
  <1> QED
    BY <1>2, <1>3, <1>4, <1>5, ApplyStreams, PackStreams DEF FrameThread

\* What is cut off a connection was the last of it, and nothing follows.
LEMMA BreakStreams ==
    ASSUME StreamInv, OrderInv, Break
    PROVE  StreamInv'
  <1>1. /\ UNCHANGED <<known, lastFrame, told, worker, link, outbound, sentNames>>
        /\ UNCHANGED <<completed, pending, accepted, served, io>>
    BY DEF Break, clientVars, sourceVars, targetVars, ioVars, frameVars
  <1>2. StreamTyped /\ HelloFirst /\ toClient \in Seq(ToClientMsgs)
    BY DEF StreamInv, StreamTyped
  <1>3. PICK c \in {link, served} \ ({0} \cup cut) :
           /\ cut' = cut \cup {c}
           /\ \E kept \in 0..Len(toClient) :
                 toClient' = IF c = link THEN SubSeq(toClient, 1, kept) ELSE toClient
    BY DEF Break
  <1>4. CASE c = link
    <2>1. PICK kept \in 0..Len(toClient) : toClient' = SubSeq(toClient, 1, kept)
      BY <1>3, <1>4
    <2>2. /\ toClient' \in Seq(ToClientMsgs)
          /\ toClient = <<>> => toClient' = <<>>
          /\ \A k \in DOMAIN toClient' : k \in DOMAIN toClient /\ toClient'[k] = toClient[k]
      BY <1>2, <2>1
    <2>3. StreamTyped'
      BY <1>1, <1>2, <2>2 DEF StreamTyped
    <2>4. View' = View /\ Listening' = Listening /\ ~Heard'
      BY <1>1, <1>3, <1>4 DEF View, Listening, Heard
    <2>5. HelloFirst'
      BY <1>1, <1>2, <2>2, <2>4 DEF HelloFirst
    <2>6. PICK n \in Nat : Continues(n)
      BY DEF StreamInv
    <2>7. Listening => \E x \in Views : Leads(View, toClient', x)
      BY <1>2, <2>1, <2>6, LeadsPart DEF Continues
    <2> QED
      BY <1>1, <2>3, <2>4, <2>5, <2>6, <2>7, StreamHolds DEF Continues
  <1>5. CASE c # link
    <2>1. toClient' = toClient /\ cut \subseteq cut'
      BY <1>3, <1>5
    <2> QED
      BY <1>1, <2>1, StreamRests DEF Listening
  <1> QED
    BY <1>4, <1>5

LEMMA InitStreams == Init => StreamInv
  <1> SUFFICES ASSUME Init PROVE StreamInv
    OBVIOUS
  <1>1. /\ known = {} /\ lastFrame = 0 /\ told = 0 /\ toClient = <<>> /\ outbound = <<>>
        /\ sentNames = {} /\ completed = 0 /\ pending = 0 /\ worker = "connecting" /\ link = 0
    BY DEF Init
  <1>2. StreamTyped
    <2>1. <<>> \in Seq(ToClientMsgs) /\ <<>> \in Seq(Packets) /\ 0 \in 0..0
      OBVIOUS
    <2> QED
      BY <1>1, <2>1 DEF StreamTyped
  <1>3. HelloFirst /\ ~Listening
    BY <1>1 DEF HelloFirst, Listening, Heard
  <1>4. Counts(0, outbound, completed - pending)
    BY <1>1, CountsNothing
  <1> QED
    BY <1>2, <1>3, <1>4 DEF StreamInv, Continues

\* Every step keeps the invariant.
LEMMA StepKeepsStream == StreamInv /\ OrderInv /\ StopInv /\ [Next]_vars => StreamInv'
  <1> SUFFICES ASSUME StreamInv, OrderInv, StopInv, [Next]_vars PROVE StreamInv'
    OBVIOUS
  <1>1. CASE UNCHANGED vars
    BY <1>1, StreamRests DEF vars, clientVars, sourceVars, wireVars, targetVars, ioVars, frameVars, Listening
  <1> QED
    BY <1>1, ClientStreams, IoStreams, FrameStreams, BreakStreams DEF Next

\* The source learns every name once and before the frames that use it, and
\* of every frame that is missing, whatever the queue drops and whenever
\* connections break: what it knows, once it has read all that is on its way,
\* is what the target takes it to know.
THEOREM StreamStaysExact == Spec => StreamExact
  <1> DEFINE Exact == [worker = "waiting" /\ Len(toClient') < Len(toClient) /\ worker' = "serving" =>
         LET msg == Head(toClient) IN
         /\ msg.type = "names" => msg.names \cap known = {}
         /\ msg.type = "frame" =>
              /\ msg.name \in known
              /\ lastFrame # 0 => msg.number = lastFrame + told + 1]_vars
  <1>1. ASSUME StreamInv, OrderInv, [Next]_vars PROVE Exact
    <2> SUFFICES ASSUME worker = "waiting", Len(toClient') < Len(toClient), worker' = "serving", Next
                 PROVE  LET msg == Head(toClient) IN
                        /\ msg.type = "names" => msg.names \cap known = {}
                        /\ msg.type = "frame" =>
                             /\ msg.name \in known
                             /\ lastFrame # 0 => msg.number = lastFrame + told + 1
      BY <1>1
    <2>1. ReadMessage
      <3>1. CASE Worker
        BY <3>1 DEF Worker, Connect, ReceiveHello, HandshakeFails, PopControl, TransmitControl,
           QueueSeenEmpty, WaitTimesOut, ReadFails, Release, DiscardControl, DiscardEnds,
           NotifyDisconnect, wireVars
      <3>2. CASE Source
        BY <3>2 DEF Source, Send, SendEnds
      <3>3. CASE IoThread \/ FrameThread \/ Break \/ Crash
        BY <3>3, TargetLeavesClient DEF clientVars
      <3> QED
        BY <3>1, <3>2, <3>3 DEF Next
    <2>2. Fits(View, Head(toClient))
      BY <1>1, <2>1, ReadStreams
    <2> QED
      BY <2>2 DEF Fits, View
  <1>2. StreamInv /\ OrderInv /\ [Next]_vars => Exact
    BY <1>1
  <1> QED
    BY <1>2, InitStreams, InitInOrder, InitStopped, InitDiscards, StepKeepsStream, StepKeepsOrder,
       StepKeepsStopInv, StepDiscards, PTL DEF Spec, StreamExact

-----------------------------------------------------------------------------
(* The types.  Those of the queue, the wire and the stream are parts of the *)
(* invariants above.                                                        *)

\* The rest: the bounds of the target's queues, and who is where.
RestOK ==
    /\ shown \in 0..MaxConnections /\ nextRequest \in 1..(MaxControls + 1)
    /\ worker \in {"connecting", "greeting", "serving", "waiting", "leaving", "discarding", "notifying"}
    /\ cut \subseteq 1..connections /\ faults \in 0..MaxFaults
    /\ io \in {"off", "accepting", "greeting", "serving", "waiting", "pushing"}
    /\ {running, capturing, fresh} \subseteq BOOLEAN
    /\ Len(commands) <= CommandCapacity /\ Len(outbound) <= OutboundCapacity

\* The client's steps.
LEMMA ClientRest ==
    ASSUME RestOK, OrderInv, Source \/ Worker
    PROVE  RestOK'
  <1>1. UNCHANGED <<cut, faults, io, running, capturing, fresh, commands, outbound>>
    <2>1. UNCHANGED <<cut, faults>>
      <3>1. CASE Source
        BY <3>1 DEF Source, Send, SendEnds, wireVars
      <3>2. CASE Worker
        BY <3>2 DEF Worker, Connect, ReceiveHello, HandshakeFails, PopControl, TransmitControl,
           QueueSeenEmpty, ReadMessage, WaitTimesOut, ReadFails, Release, DiscardControl, DiscardEnds,
           NotifyDisconnect, wireVars
      <3> QED
        BY <3>1, <3>2
    <2> QED
      BY <2>1, ClientLeavesTarget DEF targetVars, ioVars, frameVars
  <1>2. /\ shown' \in 0..MaxConnections /\ nextRequest' \in 1..(MaxControls + 1)
        /\ worker' \in {"connecting", "greeting", "serving", "waiting", "leaving", "discarding", "notifying"}
        /\ connections' \in Nat /\ connections <= connections' /\ connections \in Nat
    <2>1. link \in 0..MaxConnections /\ connections \in Nat
      BY ProfilerAssumption DEF OrderInv, WireTyped
    <2>a. MaxControls \in Nat /\ MaxConnections \in Nat
      BY ProfilerAssumption
    <2>2. CASE Source
      <3>1. /\ UNCHANGED <<shown, worker, connections>>
            /\ nextRequest' = nextRequest \/ (nextRequest <= MaxControls /\ nextRequest' = nextRequest + 1)
        BY <2>2 DEF Source, Send, SendEnds, sourceVars, wireVars
      <3> QED
        BY <2>1, <2>a, <3>1 DEF RestOK
    <2>3. CASE Connect \/ ReceiveHello \/ HandshakeFails \/ NotifyDisconnect
      <3>1. /\ nextRequest' = nextRequest /\ shown' \in {0, link, shown}
            /\ worker' \in {"connecting", "greeting", "serving"}
            /\ connections' = connections \/ connections' = connections + 1
        BY <2>3 DEF Connect, ReceiveHello, HandshakeFails, NotifyDisconnect, sourceVars, wireVars
      <3> QED
        BY <2>1, <2>a, <3>1 DEF RestOK
    <2>4. CASE PopControl \/ TransmitControl \/ QueueSeenEmpty \/ ReadMessage \/ WaitTimesOut \/ ReadFails
               \/ Release \/ DiscardControl \/ DiscardEnds
      BY <2>1, <2>4 DEF RestOK, PopControl, TransmitControl, QueueSeenEmpty, ReadMessage, WaitTimesOut,
         ReadFails, Release, DiscardControl, DiscardEnds, sourceVars, wireVars
    <2> QED
      BY <2>2, <2>3, <2>4 DEF Worker
  <1>3. cut' \subseteq 1..connections'
    BY <1>1, <1>2 DEF RestOK
  <1> QED
    BY <1>1, <1>2, <1>3 DEF RestOK

\* The target's I/O thread puts a control into a queue that has room.
LEMMA IoRest ==
    ASSUME RestOK, OrderInv, StreamInv, IoThread
    PROVE  RestOK'
  <1>1. UNCHANGED <<shown, nextRequest, worker>>
    BY TargetLeavesClient DEF clientVars, sourceVars
  <1>2. UNCHANGED <<connections, cut, faults, running, capturing, fresh>>
    <2>1. CASE Accept \/ Greet \/ SendPacket \/ OutboundSeenEmpty
      BY <2>1 DEF Accept, Greet, SendPacket, OutboundSeenEmpty, wireVars, frameVars
    <2>2. CASE ReceiveControl \/ PushCommand \/ NothingToReceive
      BY <2>2 DEF ReceiveControl, PushCommand, NothingToReceive, wireVars, frameVars
    <2>3. CASE SessionEnds \/ ThreadEnds
      BY <2>3 DEF SessionEnds, ThreadEnds, wireVars, frameVars
    <2> QED
      BY <2>1, <2>2, <2>3 DEF IoThread
  <1>3. io' \in {"off", "accepting", "greeting", "serving", "waiting", "pushing"}
    BY DEF RestOK, IoThread, Accept, Greet, SendPacket, OutboundSeenEmpty, ReceiveControl, PushCommand,
       NothingToReceive, SessionEnds, ThreadEnds
  <1>4. commands \in Seq(Controls) /\ outbound \in Seq(Packets)
    BY DEF OrderInv, WireTyped, StreamInv, StreamTyped
  <1>5. Len(commands') <= CommandCapacity
    <2>1. CASE PushCommand
      BY <1>4, <2>1, ProfilerAssumption DEF RestOK, PushCommand
    <2>2. CASE ~PushCommand
      <3>1. commands' = commands
        BY <2>2 DEF IoThread, Accept, Greet, SendPacket, OutboundSeenEmpty, ReceiveControl,
           NothingToReceive, SessionEnds, ThreadEnds, frameVars
      <3> QED
        BY <3>1 DEF RestOK
    <2> QED
      BY <2>1, <2>2
  <1>6. Len(outbound') <= OutboundCapacity
    <2>1. CASE SendPacket
      BY <1>4, <2>1, ProfilerAssumption DEF RestOK, SendPacket
    <2>2. CASE ~SendPacket
      <3>1. outbound' = outbound
        BY <2>2 DEF IoThread, Accept, Greet, PushCommand, OutboundSeenEmpty, ReceiveControl,
           NothingToReceive, SessionEnds, ThreadEnds, frameVars
      <3> QED
        BY <3>1 DEF RestOK
    <2> QED
      BY <2>1, <2>2
  <1> QED
    BY <1>1, <1>2, <1>3, <1>5, <1>6 DEF RestOK

\* The frame thread takes a control at a time, and offers packets to a queue
\* that may be full.
LEMMA FrameRest ==
    ASSUME RestOK, OrderInv, StreamInv, FrameThread \/ Break \/ Crash
    PROVE  RestOK'
  <1>1. UNCHANGED <<shown, nextRequest, worker>> /\ connections' = connections
    <2>1. connections' = connections
      BY DEF FrameThread, Start, PumpBegin, ApplyCommand, PumpEnd, StopBegin, StopEnd, Break, Crash, wireVars
    <2> QED
      BY <2>1, TargetLeavesClient DEF clientVars, sourceVars
  <1>2. faults' \in 0..MaxFaults
    BY ProfilerAssumption DEF RestOK, FrameThread, Start, PumpBegin, ApplyCommand, PumpEnd, StopBegin,
       StopEnd, Break, Crash, wireVars
  <1>3. cut' \subseteq 1..connections
    <2>1. CASE Break
      <3>1. PICK c \in {link, served} \ ({0} \cup cut) : cut' = cut \cup {c}
        BY <2>1 DEF Break
      <3>2. c \in 1..connections
        BY <3>1, ProfilerAssumption DEF OrderInv, WireTyped
      <3> QED
        BY <3>1, <3>2 DEF RestOK
    <2>2. CASE ~Break
      <3>1. cut' = cut
        BY <2>2 DEF FrameThread, Start, PumpBegin, ApplyCommand, PumpEnd, StopBegin, StopEnd, Crash, wireVars
      <3> QED
        BY <3>1 DEF RestOK
    <2> QED
      BY <2>1, <2>2
  <1>4. io' \in {"off", "accepting", "greeting", "serving", "waiting", "pushing"}
    BY DEF RestOK, FrameThread, Start, PumpBegin, ApplyCommand, PumpEnd, StopBegin, StopEnd, Break,
       Crash, ioVars, targetVars
  <1>5. commands \in Seq(Controls) /\ outbound \in Seq(Packets)
    BY DEF OrderInv, WireTyped, StreamInv, StreamTyped
  <1>6. Len(commands') <= CommandCapacity
    <2>1. CASE ApplyCommand
      BY <1>5, <2>1, ProfilerAssumption DEF RestOK, ApplyCommand
    <2>2. CASE ~ApplyCommand
      <3>1. commands' = commands \/ commands' = <<>>
        BY <2>2 DEF FrameThread, Start, PumpBegin, PumpEnd, StopBegin, StopEnd, Break, Crash, targetVars,
           frameVars
      <3> QED
        BY <3>1, ProfilerAssumption DEF RestOK
    <2> QED
      BY <2>1, <2>2
  <1>7. Len(outbound') <= OutboundCapacity
    <2>1. ASSUME NEW p, Offered(p) PROVE Len(outbound') <= OutboundCapacity
      <3>1. Len(Append(outbound, p)) = Len(outbound) + 1 /\ Len(outbound) \in Nat
        BY <1>5
      <3> QED
        BY <2>1, <3>1, ProfilerAssumption DEF RestOK, Offered
    <2>2. CASE ApplyCommand
      BY <2>1, <2>2 DEF ApplyCommand
    <2>3. CASE PumpEnd
      <3>1. CASE \E name \in Names : PackFrame(name)
        BY <2>1, <3>1 DEF PackFrame
      <3>2. CASE outbound' = outbound
        BY <3>2 DEF RestOK
      <3> QED
        BY <2>3, <3>1, <3>2 DEF PumpEnd
    <2>4. CASE ~ApplyCommand /\ ~PumpEnd
      <3>1. outbound' = outbound \/ outbound' = <<>>
        BY <2>4 DEF FrameThread, Start, PumpBegin, StopBegin, StopEnd, Break, Crash, targetVars,
           frameVars
      <3> QED
        BY <3>1, ProfilerAssumption DEF RestOK
    <2> QED
      BY <2>2, <2>3, <2>4
  <1>8. {running', capturing', fresh'} \subseteq BOOLEAN
    <2>1. running \in BOOLEAN /\ capturing \in BOOLEAN /\ fresh \in BOOLEAN
      BY DEF RestOK
    <2>2. CASE Start \/ PumpBegin
      BY <2>1, <2>2 DEF Start, PumpBegin
    <2>3. CASE ApplyCommand
      BY <2>1, <2>3 DEF ApplyCommand
    <2>4. CASE PumpEnd
      BY <2>1, <2>4 DEF PumpEnd, PackFrame
    <2>5. CASE StopBegin \/ StopEnd \/ Crash \/ Break
      BY <2>1, <2>5 DEF StopBegin, StopEnd, Crash, Break, targetVars, frameVars
    <2> QED
      BY <2>2, <2>3, <2>4, <2>5 DEF FrameThread
  <1> QED
    BY <1>1, <1>2, <1>3, <1>4, <1>6, <1>7, <1>8 DEF RestOK

LEMMA InitRest == Init => RestOK
  <1> SUFFICES ASSUME Init PROVE RestOK
    OBVIOUS
  <1>1. /\ shown = 0 /\ nextRequest = 1 /\ worker = "connecting" /\ cut = {} /\ faults = 0 /\ io = "off"
        /\ commands = <<>> /\ outbound = <<>>
    BY DEF Init
  <1>2. {running, capturing, fresh} \subseteq BOOLEAN
    BY DEF Init
  <1>3. /\ 0 \in 0..MaxConnections /\ 1 \in 1..(MaxControls + 1) /\ 0 \in 0..MaxFaults
        /\ Len(<<>>) <= CommandCapacity /\ Len(<<>>) <= OutboundCapacity
    BY ProfilerAssumption
  <1> QED
    BY <1>1, <1>2, <1>3 DEF RestOK

LEMMA StepKeepsRest == RestOK /\ StreamInv /\ OrderInv /\ [Next]_vars => RestOK'
  <1> SUFFICES ASSUME RestOK, StreamInv, OrderInv, [Next]_vars PROVE RestOK'
    OBVIOUS
  <1>1. CASE UNCHANGED vars
    BY <1>1 DEF vars, clientVars, sourceVars, wireVars, targetVars, ioVars, frameVars, RestOK
  <1> QED
    BY <1>1, ClientRest, IoRest, FrameRest DEF Next

\* Every variable has its type: the target's queues keep within their
\* capacities, and what is applied or stale was sent.
THEOREM ProfilerTypeCorrect == Spec => []TypeOK
  <1>1. ASSUME RestOK, StreamInv, OrderInv, StopInv, DiscardInv PROVE TypeOK
    <2>1. QueueTypeOK /\ stale \subseteq 1..(nextRequest - 1)
      BY <1>1 DEF DiscardInv, IndInv, Told
    <2>2. applied \in 0..(nextRequest - 1)
      <3>1. applied < nextRequest
        BY <1>1 DEF OrderInv, InOrder, Precede, TargetIds, ClientIds
      <3> QED
        BY <1>1, <3>1 DEF OrderInv, WireTyped, RestOK
    <2>3. frame \in {"idle", "free", "pumping", "stopping"}
      BY <1>1 DEF StopInv, Lifecycle
    <2>4. /\ shown \in 0..MaxConnections /\ nextRequest \in 1..(MaxControls + 1)
          /\ worker \in {"connecting", "greeting", "serving", "waiting", "leaving", "discarding", "notifying"}
          /\ cut \subseteq 1..connections /\ faults \in 0..MaxFaults
          /\ io \in {"off", "accepting", "greeting", "serving", "waiting", "pushing"}
          /\ {running, capturing, fresh} \subseteq BOOLEAN
          /\ Len(commands) <= CommandCapacity /\ Len(outbound) <= OutboundCapacity
      BY <1>1 DEF RestOK
    <2>5. /\ commands \in Seq(Controls) /\ hand \in Controls \cup {Nothing}
          /\ toTarget \in [1..MaxConnections -> Seq(ToTargetMsgs)]
          /\ connections \in 0..MaxConnections /\ accepted \in 0..connections
          /\ served \in 0..accepted /\ link \in 0..connections
      BY <1>1 DEF OrderInv, WireTyped
    <2>6. /\ known \subseteq Names /\ {lastFrame, told} \subseteq Nat
          /\ toClient \in Seq(ToClientMsgs) /\ outbound \in Seq(Packets) /\ sentNames \subseteq Names
          /\ completed \in Nat /\ pending \in 0..completed
      BY <1>1 DEF StreamInv, StreamTyped
    <2> QED
      BY <2>1, <2>2, <2>3, <2>4, <2>5, <2>6 DEF TypeOK
  <1> QED
    BY <1>1, InitRest, InitStreams, InitInOrder, InitStopped, InitDiscards, StepKeepsRest,
       StepKeepsStream, StepKeepsOrder, StepKeepsStopInv, StepDiscards, PTL DEF Spec
=============================================================================
