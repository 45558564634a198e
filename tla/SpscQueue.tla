----------------------------- MODULE SpscQueue -----------------------------
(***************************************************************************)
(* The single-producer, single-consumer queue of termin-profiler-remote    *)
(* (bounded_spsc_queue.hpp).  One thread pushes, one pops, and they share  *)
(* nothing but two indices: the producer writes its slot and then moves    *)
(* tail, the consumer empties its slot and then moves head.  The release   *)
(* stores and acquire loads make these writes visible in that order, so    *)
(* each access is a step of its own and the steps interleave.              *)
(***************************************************************************)
EXTENDS Integers, Sequences

CONSTANTS
    Items,
    Capacity,
    Nothing         \* an empty slot

ASSUME QueueAssumption == Capacity \in Nat \ {0} /\ Nothing \notin Items

Indices == 0..Capacity      \* checked_storage_size: one slot more

VARIABLES
    slots,      \* slots_
    head,       \* head_, moved by the consumer
    tail,       \* tail_, moved by the producer
    putting,    \* try_push has written its slot and not moved tail yet
    taking,     \* try_pop has emptied its slot and not moved head yet
    taken       \* the value try_pop returns

queueVars == <<slots, head, tail, putting, taking, taken>>

QueueTypeOK ==
    /\ slots \in [Indices -> Items \cup {Nothing}]
    /\ head \in Indices /\ tail \in Indices
    /\ putting \in BOOLEAN /\ taking \in BOOLEAN
    /\ taken \in Items \cup {Nothing}

QueueInit ==
    /\ slots = [i \in Indices |-> Nothing]
    /\ head = 0 /\ tail = 0
    /\ putting = FALSE /\ taking = FALSE
    /\ taken = Nothing

Increment(i) == IF i = Capacity THEN 0 ELSE i + 1

IsFull == Increment(tail) = head
IsEmpty == head = tail

(* A plausible bug: the queue counts as full only when every slot is used. *)
MutantWriteSlot(v) ==
    /\ ~putting
    /\ slots[tail] = Nothing
    /\ slots' = [slots EXCEPT ![tail] = v]
    /\ putting' = TRUE
    /\ UNCHANGED <<head, tail, taking, taken>>

(* try_push: refused when full. *)
WriteSlot(v) ==
    /\ ~putting
    /\ ~IsFull
    /\ slots' = [slots EXCEPT ![tail] = v]
    /\ putting' = TRUE
    /\ UNCHANGED <<head, tail, taking, taken>>

PublishTail ==
    /\ putting
    /\ tail' = Increment(tail)
    /\ putting' = FALSE
    /\ UNCHANGED <<slots, head, taking, taken>>

(* try_pop: refused when empty. *)
EmptySlot ==
    /\ ~taking
    /\ ~IsEmpty
    /\ taken' = slots[head]
    /\ slots' = [slots EXCEPT ![head] = Nothing]
    /\ taking' = TRUE
    /\ UNCHANGED <<head, tail, putting>>

PublishHead ==
    /\ taking
    /\ head' = Increment(head)
    /\ taking' = FALSE
    /\ UNCHANGED <<slots, tail, putting, taken>>

QueueNext == (\E v \in Items : WriteSlot(v)) \/ PublishTail \/ EmptySlot \/ PublishHead

QueueSpec == QueueInit /\ [][QueueNext]_queueVars

-----------------------------------------------------------------------------
(* The slots in use, and what waits in them. *)

Distance(i, j) == IF j >= i THEN j - i ELSE j - i + Capacity + 1
Plus(i, k) == IF i + k > Capacity THEN i + k - Capacity - 1 ELSE i + k

First == IF taking THEN Increment(head) ELSE head
Contents == [k \in 1..Distance(First, tail) |-> slots[Plus(First, k - 1)]]

(* Every value is delivered once, in order, whatever the two threads do in *)
(* which order: the queue is the abstract one, a value being in it from    *)
(* the move of tail until its slot is emptied.                             *)
Fifo == INSTANCE BoundedFifo WITH queue <- Contents, out <- taken
ImplementsFifo == Fifo!Spec
=============================================================================
