------------------------ MODULE ResourcePool_proofs ------------------------
(***************************************************************************)
(* Proofs about tc_pool for every capacity, every width of the generation, *)
(* every initial capacity and generation and both orders of allocation.    *)
(*                                                                         *)
(* The inductive invariant says why a stale handle stays stale: it lies    *)
(* strictly below the generation of its slot (or the slot is retired);     *)
(* below the generation a growth will give its slot, when the pool is too  *)
(* small to have one; and below the epoch, when there is no pool at all.   *)
(***************************************************************************)
EXTENDS ResourcePool, SequenceTheorems, FiniteSetTheorems, TLAPS

(* A list naming each free slot of such an array once. *)
Lists(list, slotStates, cap) ==
    /\ list \in Seq(0 .. cap - 1)
    /\ \A j, k \in 1 .. Len(list) : list[j] = list[k] => j = k
    /\ \A k \in 1 .. Len(list) : slotStates[list[k]] = "Free"
    /\ \A i \in 0 .. cap - 1 :
          slotStates[i] = "Free" => \E k \in 1 .. Len(list) : list[k] = i

(* No dead handle is at or above the current generation of its slot. *)
DeadBelow ==
    open => \A h \in dead :
        IF h.index < capacity
        THEN \/ h.generation < generations[h.index]
             \/ h.generation = generations[h.index] /\ states[h.index] = "Retired"
        ELSE h.generation < initialGeneration

(* Without a pool the epoch is above all of them, or there will be none. *)
DeadBelowEpoch ==
    ~open => \A h \in dead : epoch.exhausted \/ h.generation < epoch.next

(* A pool starts at the epoch and only moves up from there. *)
EpochBelowPool ==
    /\ open => /\ epoch.initialized
               /\ ~epoch.exhausted
               /\ initialGeneration = epoch.next
               /\ \A i \in Slots : generations[i] >= initialGeneration
    /\ ~open => capacity = 0
    /\ ~epoch.initialized => dead = {}

(* The handles in use are those of the occupied slots. *)
HeldOccupied ==
    /\ \A h \in held : Valid(h)
    /\ \A i \in Slots : states[i] = "Occupied" => Handle(i, generations[i]) \in held

(* A foreach has called back for what it has passed. *)
WalkPassed ==
    /\ walk.since \subseteq held \union dead
    /\ walk.status = "visiting" =>
          \A h \in walk.since \intersect held : h.index < walk.at => h \in walk.seen
    /\ walk.status = "complete" => walk.since \intersect held \subseteq walk.seen

IndInv ==
    /\ TypeOK
    /\ Lists(freeList, states, capacity)
    /\ DeadBelow
    /\ DeadBelowEpoch
    /\ EpochBelowPool
    /\ HeldOccupied
    /\ CountExact
    /\ WalkPassed

-----------------------------------------------------------------------------
(* Lemmas about the operators. *)

(* A growth makes room and stays within the limit. *)
LEMMA GrowthBounds ==
    ASSUME NEW old \in 0 .. MaxCapacity, old < MaxCapacity
    PROVE  Growth(old) \in 0 .. MaxCapacity /\ Growth(old) > old
BY PoolAssumption DEF Growth

(* The list of the slots from first to end names each of them once. *)
LEMMA FreeRangeNames ==
    ASSUME NEW first \in Nat, NEW end \in Nat, first <= end
    PROVE  /\ FreeRange(first, end) \in Seq(0 .. end - 1)
           /\ Len(FreeRange(first, end)) = end - first
           /\ \A k \in 1 .. end - first : FreeRange(first, end)[k] \in first .. end - 1
           /\ \A j, k \in 1 .. end - first :
                 FreeRange(first, end)[j] = FreeRange(first, end)[k] => j = k
           /\ \A i \in first .. end - 1 :
                 \E k \in 1 .. end - first : FreeRange(first, end)[k] = i
<1> DEFINE list == FreeRange(first, end)
<1>1. \A k \in 1 .. end - first :
         /\ list[k] = IF LowFirst THEN end - k ELSE first + k - 1
         /\ list[k] \in 0 .. end - 1
         /\ list[k] \in first .. end - 1
  BY PoolAssumption DEF FreeRange
<1>2. list \in [1 .. end - first -> 0 .. end - 1]
  BY <1>1 DEF FreeRange
<1>3. list \in Seq(0 .. end - 1) /\ Len(list) = end - first
  <2>1. end - first \in Nat
    OBVIOUS
  <2> QED BY <1>2, <2>1
<1>4. \A i \in first .. end - 1 : \E k \in 1 .. end - first : list[k] = i
  <2> SUFFICES ASSUME NEW i \in first .. end - 1
               PROVE  \E k \in 1 .. end - first : list[k] = i
    OBVIOUS
  <2>1. CASE LowFirst
    <3> WITNESS end - i \in 1 .. end - first
    <3> QED BY <1>1, <2>1
  <2>2. CASE ~LowFirst
    <3> WITNESS i - first + 1 \in 1 .. end - first
    <3> QED BY <1>1, <2>2
  <2> QED BY <2>1, <2>2
<1>5. \A j, k \in 1 .. end - first : list[j] = list[k] => j = k
  BY <1>1, PoolAssumption
<1> QED BY <1>1, <1>3, <1>4, <1>5

(* Popping the list and occupying the slot keeps the list exact. *)
LEMMA TakeLists ==
    ASSUME NEW cap \in Nat, NEW slotStates \in [0 .. cap - 1 -> SlotStates],
           NEW list, Lists(list, slotStates, cap), list # <<>>
    PROVE  /\ list[Len(list)] \in 0 .. cap - 1
           /\ slotStates[list[Len(list)]] = "Free"
           /\ Lists(SubSeq(list, 1, Len(list) - 1),
                    [slotStates EXCEPT ![list[Len(list)]] = "Occupied"], cap)
<1> DEFINE n == Len(list)
           rest == SubSeq(list, 1, n - 1)
           after == [slotStates EXCEPT ![list[n]] = "Occupied"]
<1>1. list \in Seq(0 .. cap - 1) /\ n \in Nat \ {0}
  BY EmptySeq DEF Lists
<1>2. n \in 1 .. n /\ list[n] \in 0 .. cap - 1 /\ slotStates[list[n]] = "Free"
  BY <1>1 DEF Lists
<1>3. /\ rest \in Seq(0 .. cap - 1)
      /\ Len(rest) = n - 1
      /\ \A k \in 1 .. n - 1 : rest[k] = list[k]
  BY <1>1
<1>4. \A j, k \in 1 .. n - 1 : rest[j] = rest[k] => j = k
  BY SMTT(30), <1>1, <1>3 DEF Lists
<1>5. \A k \in 1 .. n - 1 : rest[k] # list[n] /\ after[rest[k]] = "Free"
  BY <1>1, <1>2, <1>3 DEF Lists
<1>6. ASSUME NEW i \in 0 .. cap - 1, after[i] = "Free"
      PROVE  \E k \in 1 .. n - 1 : rest[k] = i
  <2>1. i # list[n] /\ slotStates[i] = "Free"
    BY <1>2, <1>6
  <2>2. PICK k \in 1 .. n : list[k] = i
    BY <2>1 DEF Lists
  <2>3. k \in 1 .. n - 1
    BY <1>1, <2>1, <2>2
  <2> QED BY <1>3, <2>2, <2>3
<1> QED BY <1>2, <1>3, <1>4, <1>5, <1>6 DEF Lists

(* A handle of these two numbers, read back. *)
LEMMA HandleFields ==
    /\ \A i, g : Handle(i, g).index = i /\ Handle(i, g).generation = g
    /\ \A i \in 0 .. MaxCapacity - 1, g \in Generation : Handle(i, g) \in Handles
    /\ \A h \in Handles : h = Handle(h.index, h.generation)
    /\ \A h \in Handles : /\ h.index \in 0 .. MaxCapacity - 1
                          /\ h.generation \in Generation
BY DEF Handle, Handles

(* The generation and the state of a slot that is given up. *)
LEMMA Released ==
    ASSUME NEW g \in Generation
    PROVE  /\ ReleasedGeneration(g) \in Generation
           /\ ReleasedState(g) \in {"Free", "Retired"}
           /\ \/ ReleasedGeneration(g) > g
              \/ ReleasedGeneration(g) = g /\ ReleasedState(g) = "Retired"
           /\ ReleasedGeneration(g) >= g
BY PoolAssumption DEF Generation, ReleasedGeneration, ReleasedState

-----------------------------------------------------------------------------
(* What the invariant says of the properties. *)

(* The count follows the set of occupied slots. *)
LEMMA OccupiedFinite ==
    ASSUME TypeOK
    PROVE  IsFiniteSet({i \in Slots : states[i] = "Occupied"})
<1>1. 0 \in Int /\ capacity - 1 \in Int
  BY DEF TypeOK
<1>2. IsFiniteSet(Slots)
  BY <1>1, FS_Interval DEF Slots
<1>3. {i \in Slots : states[i] = "Occupied"} \in SUBSET Slots
  OBVIOUS
<1> QED BY <1>2, <1>3, FS_Subset

LEMMA CountEmpty ==
    ASSUME count' = 0, \A i \in Slots' : states'[i] # "Occupied"
    PROVE  CountExact'
<1>1. {i \in Slots' : states'[i] = "Occupied"} = {}
  OBVIOUS
<1> QED BY <1>1, FS_EmptySet DEF CountExact

LEMMA CountUp ==
    ASSUME TypeOK, CountExact, NEW index,
           {i \in Slots' : states'[i] = "Occupied"} =
              {i \in Slots : states[i] = "Occupied"} \union {index},
           index \notin {i \in Slots : states[i] = "Occupied"},
           count' = count + 1
    PROVE  CountExact'
<1> DEFINE S == {i \in Slots : states[i] = "Occupied"}
<1>1. IsFiniteSet(S) /\ count = Cardinality(S)
  BY OccupiedFinite DEF CountExact
<1>2. Cardinality(S \union {index}) = Cardinality(S) + 1
  BY <1>1, FS_AddElement
<1> QED BY <1>1, <1>2 DEF CountExact

LEMMA CountDown ==
    ASSUME TypeOK, CountExact, NEW index \in {i \in Slots : states[i] = "Occupied"},
           {i \in Slots' : states'[i] = "Occupied"} =
              {i \in Slots : states[i] = "Occupied"} \ {index},
           count' = count - 1
    PROVE  CountExact' /\ count' \in Nat
<1> DEFINE S == {i \in Slots : states[i] = "Occupied"}
<1>1. IsFiniteSet(S) /\ count = Cardinality(S)
  BY OccupiedFinite DEF CountExact
<1>2. /\ Cardinality(S \ {index}) = Cardinality(S) - 1
      /\ IsFiniteSet(S \ {index})
  BY <1>1, FS_RemoveElement
<1>3. Cardinality(S \ {index}) \in Nat
  BY <1>2, FS_CardinalityType
<1> QED BY <1>1, <1>2, <1>3 DEF CountExact

LEMMA IndInvStale ==
    ASSUME IndInv
    PROVE  StaleStaysStale
<1> SUFFICES ASSUME NEW h \in dead, Valid(h)
             PROVE  FALSE
  BY DEF StaleStaysStale
<1>1. h \in Handles
  BY DEF IndInv, TypeOK
<1>2. h.index \in Slots /\ h.generation \in Nat
  BY <1>1, HandleFields DEF Valid, Slots, Generation, IndInv, TypeOK
<1>3. CASE open
  BY <1>2, <1>3 DEF IndInv, DeadBelow, Valid
<1>4. CASE ~open
  BY <1>2, <1>4 DEF IndInv, EpochBelowPool, Slots, TypeOK
<1> QED BY <1>3, <1>4 DEF IndInv, TypeOK

LEMMA IndInvHeld ==
    ASSUME IndInv
    PROVE  HeldIsValid
<1>1. ASSUME NEW h \in held
      PROVE  h \in ValidHandles
  BY <1>1 DEF IndInv, HeldOccupied, ValidHandles, TypeOK
<1>2. ASSUME NEW h \in ValidHandles
      PROVE  h \in held
  <2>1. h \in Handles /\ Valid(h)
    BY DEF ValidHandles
  <2>2. h.index \in Slots /\ states[h.index] = "Occupied"
    BY <2>1, HandleFields DEF Valid, Slots, IndInv, TypeOK
  <2>3. h = Handle(h.index, generations[h.index])
    BY <2>1, HandleFields DEF Valid
  <2> QED BY <2>2, <2>3 DEF IndInv, HeldOccupied
<1> QED BY <1>1, <1>2 DEF HeldIsValid

LEMMA IndInvFreeList ==
    ASSUME IndInv
    PROVE  FreeListExact
<1>1. freeList \in Seq(Slots) /\ DOMAIN freeList = 1 .. Len(freeList)
  BY DEF IndInv, TypeOK
<1>2. \A k \in 1 .. Len(freeList) : freeList[k] \in Slots
  BY <1>1
<1> QED BY <1>1, <1>2 DEF IndInv, Lists, FreeListExact, Slots

LEMMA IndInvWalk ==
    ASSUME IndInv
    PROVE  WalkComplete
BY DEF IndInv, WalkPassed, WalkComplete

(* No handle is both in use and dead. *)
LEMMA HeldNotDead ==
    ASSUME IndInv
    PROVE  held \intersect dead = {}
BY IndInvStale DEF IndInv, HeldOccupied, StaleStaysStale

LEMMA InitInv == Init => IndInv
<1> SUFFICES ASSUME Init PROVE IndInv
  OBVIOUS
<1>1. Slots = {}
  BY DEF Init, Slots
<1>2. TypeOK
  <2>1. 0 \in Generation /\ 0 \in 0 .. MaxCapacity
    BY PoolAssumption DEF Generation
  <2>2. generations \in [Slots -> Generation] /\ states \in [Slots -> SlotStates]
    BY <1>1 DEF Init
  <2>3. freeList \in Seq(Slots)
    BY DEF Init
  <2>4. walk \in [status : {"none", "visiting", "complete"}, at : 0 .. MaxCapacity,
                  since : SUBSET Handles, seen : SUBSET Handles]
    BY <2>1 DEF Init, NoWalk
  <2>5. epoch \in [next : Generation, initialized : BOOLEAN, exhausted : BOOLEAN]
    BY <2>1 DEF Init
  <2> QED BY <2>1, <2>2, <2>3, <2>4, <2>5 DEF Init, TypeOK
<1>3. Lists(freeList, states, capacity)
  BY DEF Init, Lists
<1>4. CountExact
  <2>1. {i \in Slots : states[i] = "Occupied"} = {}
    BY <1>1
  <2> QED BY <2>1, FS_EmptySet DEF Init, CountExact
<1> QED
  BY <1>1, <1>2, <1>3, <1>4 DEF Init, IndInv, DeadBelow, DeadBelowEpoch, EpochBelowPool,
     HeldOccupied, WalkPassed, NoWalk

-----------------------------------------------------------------------------
(* The epoch of a pool that is being initialized. *)
LEMMA Published ==
    ASSUME IndInv, ~open, ~epoch.exhausted
    PROVE  /\ PublishedEpoch \in
                 [next : Generation, initialized : BOOLEAN, exhausted : BOOLEAN]
           /\ PublishedEpoch.initialized
           /\ ~PublishedEpoch.exhausted
           /\ PublishedEpoch.next \in Generation
           /\ \A h \in dead : h.generation < PublishedEpoch.next
<1>1. CASE epoch.initialized
  BY <1>1 DEF IndInv, TypeOK, DeadBelowEpoch, PublishedEpoch
<1>2. CASE ~epoch.initialized
  BY <1>2, PoolAssumption DEF IndInv, TypeOK, EpochBelowPool, PublishedEpoch, Generation
<1> QED BY <1>1, <1>2

LEMMA InitExInv ==
    ASSUME IndInv, NEW initial \in InitialCapacities, InitEx(initial)
    PROVE  IndInv'
<1> USE DEF InitEx
<1>0. initial \in 0 .. MaxCapacity /\ initial \in Nat /\ Slots' = 0 .. initial - 1
  BY PoolAssumption DEF Slots
<1>1. TypeOK'
  <2>1. generations' \in [Slots' -> Generation]
    BY <1>0, Published
  <2>2. states' \in [Slots' -> SlotStates]
    BY <1>0 DEF SlotStates
  <2>3. freeList' \in Seq(Slots')
    BY <1>0, FreeRangeNames
  <2> QED BY <1>0, <2>1, <2>2, <2>3, Published DEF IndInv, TypeOK
<1>2. Lists(freeList, states, capacity)'
  <2>1. \A i \in 0 .. initial - 1 : states'[i] = "Free"
    OBVIOUS
  <2>2. /\ freeList' \in Seq(0 .. initial - 1)
        /\ Len(freeList') = initial
        /\ \A k \in 1 .. initial : freeList'[k] \in 0 .. initial - 1
        /\ \A j, k \in 1 .. initial : freeList'[j] = freeList'[k] => j = k
        /\ \A i \in 0 .. initial - 1 : \E k \in 1 .. initial : freeList'[k] = i
    <3>1. freeList' = FreeRange(0, initial) /\ initial - 0 = initial /\ 0 <= initial
      BY <1>0
    <3> HIDE DEF InitEx
    <3>2. /\ FreeRange(0, initial) \in Seq(0 .. initial - 1)
          /\ Len(FreeRange(0, initial)) = initial - 0
          /\ \A k \in 1 .. initial - 0 : FreeRange(0, initial)[k] \in 0 .. initial - 1
          /\ \A j, k \in 1 .. initial - 0 :
                FreeRange(0, initial)[j] = FreeRange(0, initial)[k] => j = k
          /\ \A i \in 0 .. initial - 1 :
                \E k \in 1 .. initial - 0 : FreeRange(0, initial)[k] = i
      BY <1>0, <3>1, FreeRangeNames
    <3> QED BY <3>1, <3>2
  <2>3. capacity' = initial
    OBVIOUS
  <2> HIDE DEF InitEx
  <2> QED BY <2>1, <2>2, <2>3 DEF Lists
<1>3. DeadBelow' /\ DeadBelowEpoch'
  <2>1. ASSUME NEW h \in dead
        PROVE  /\ h.generation < PublishedEpoch.next
               /\ h.index < initial => generations'[h.index] = PublishedEpoch.next
    <3>1. h.index \in Nat
      BY HandleFields DEF IndInv, TypeOK
    <3> QED BY <1>0, <3>1, Published
  <2> QED BY <2>1 DEF DeadBelow, DeadBelowEpoch
<1>4. EpochBelowPool'
  BY <1>0, Published DEF EpochBelowPool, Generation
<1>5. HeldOccupied'
  <2>1. held = {}
    BY DEF IndInv, HeldOccupied, EpochBelowPool, Valid, Slots, TypeOK, Handles
  <2> QED BY <1>0, <2>1 DEF HeldOccupied, Handle
<1>6. WalkPassed'
  BY DEF IndInv, WalkPassed
<1>7. CountExact'
  <2>1. \A i \in Slots' : states'[i] # "Occupied"
    BY <1>0
  <2> QED BY <2>1, CountEmpty
<1> QED BY <1>1, <1>2, <1>3, <1>4, <1>5, <1>6, <1>7 DEF IndInv

LEMMA InitExFailsInv ==
    ASSUME IndInv, InitExFails
    PROVE  IndInv'
<1> USE DEF InitExFails, pool
<1>1. TypeOK' /\ Lists(freeList, states, capacity)'
  BY Published DEF IndInv, TypeOK, Slots
<1>2. DeadBelow' /\ DeadBelowEpoch' /\ EpochBelowPool'
  BY Published DEF IndInv, DeadBelow, DeadBelowEpoch, EpochBelowPool, Slots
<1>3. HeldOccupied' /\ WalkPassed' /\ CountExact'
  BY DEF IndInv, HeldOccupied, WalkPassed, Valid, Slots, CountExact
<1> QED BY <1>1, <1>2, <1>3 DEF IndInv

(* Everything in use is below the highest generation of the pool. *)
LEMMA HighestGeneration ==
    ASSUME IndInv, open, NEW top \in Slots,
           \A i \in Slots : generations[i] <= generations[top]
    PROVE  \A h \in held \union dead : h.generation <= generations[top]
<1> SUFFICES ASSUME NEW h \in held \union dead
             PROVE  h.generation <= generations[top]
  OBVIOUS
<1>1. h.index \in Nat /\ h.generation \in Nat /\ capacity \in Nat
  BY HandleFields DEF IndInv, TypeOK, Generation
<1>2. /\ generations[top] \in Nat
      /\ initialGeneration \in Nat
      /\ initialGeneration <= generations[top]
  BY PoolAssumption DEF IndInv, TypeOK, EpochBelowPool, Generation
<1>3. CASE h \in held
  BY <1>1, <1>3 DEF IndInv, HeldOccupied, Valid, Slots
<1>4. CASE h \in dead /\ h.index < capacity
  <2>1. h.index \in Slots /\ generations[h.index] \in Nat
    BY <1>1, <1>4 DEF Slots, IndInv, TypeOK, Generation
  <2> QED BY <1>1, <1>2, <1>4, <2>1 DEF IndInv, DeadBelow
<1>5. CASE h \in dead /\ ~(h.index < capacity)
  BY <1>1, <1>2, <1>5 DEF IndInv, DeadBelow
<1> QED BY <1>3, <1>4, <1>5

LEMMA FreePoolInv ==
    ASSUME IndInv, FreePool
    PROVE  IndInv'
<1> USE DEF FreePool
<1>0. Slots' = {}
  BY DEF Slots
<1>1. DeadBelowEpoch' /\ epoch' \in
         [next : Generation, initialized : BOOLEAN, exhausted : BOOLEAN]
      /\ epoch'.initialized
  <2>1. CASE capacity = 0 /\ epoch' = epoch
    <3>1. held = {}
      BY <2>1 DEF IndInv, HeldOccupied, Valid, TypeOK, Handles
    <3>2. \A h \in dead : h.generation < epoch.next
      <4> SUFFICES ASSUME NEW h \in dead PROVE h.generation < epoch.next
        OBVIOUS
      <4>1. h.index \in Nat
        BY HandleFields DEF IndInv, TypeOK
      <4> QED BY <2>1, <4>1 DEF IndInv, DeadBelow, EpochBelowPool
    <3> QED BY <2>1, <3>1, <3>2 DEF DeadBelowEpoch, IndInv, TypeOK, EpochBelowPool
  <2>2. ASSUME NEW top \in Slots,
               \A i \in Slots : generations[i] <= generations[top],
               epoch' = AdvancedEpoch(generations[top])
        PROVE  DeadBelowEpoch' /\ epoch' \in
                  [next : Generation, initialized : BOOLEAN, exhausted : BOOLEAN]
               /\ epoch'.initialized
    <3>1. generations[top] \in Generation
      BY DEF IndInv, TypeOK
    <3>2. epoch.initialized /\ epoch \in
             [next : Generation, initialized : BOOLEAN, exhausted : BOOLEAN]
      BY DEF IndInv, TypeOK, EpochBelowPool
    <3>3. epoch'.initialized /\ epoch' \in
             [next : Generation, initialized : BOOLEAN, exhausted : BOOLEAN]
      BY <2>2, <3>1, <3>2, PoolAssumption DEF AdvancedEpoch, Generation
    <3>4. epoch'.exhausted \/ epoch'.next = generations[top] + 1
      BY <2>2 DEF AdvancedEpoch
    <3>5. \A h \in held \union dead :
             h.generation \in Nat /\ h.generation <= generations[top]
      BY <2>2, HighestGeneration, HandleFields DEF IndInv, TypeOK, Generation
    <3> QED BY <3>1, <3>3, <3>4, <3>5 DEF DeadBelowEpoch, Generation
  <2> QED BY <2>1, <2>2
<1>2. TypeOK'
  <2>1. 0 \in Generation /\ 0 \in 0 .. MaxCapacity
    BY PoolAssumption DEF Generation
  <2>2. generations' \in [Slots' -> Generation] /\ states' \in [Slots' -> SlotStates]
    BY <1>0
  <2>3. freeList' \in Seq(Slots')
    OBVIOUS
  <2>4. walk' = walk /\ held' = {} /\ dead' \in SUBSET Handles
    BY DEF IndInv, TypeOK
  <2> QED BY <1>1, <2>1, <2>2, <2>3, <2>4 DEF IndInv, TypeOK
<1>3. Lists(freeList, states, capacity)'
  BY DEF Lists
<1>4. DeadBelow' /\ EpochBelowPool'
  BY <1>0, <1>1 DEF DeadBelow, EpochBelowPool
<1>5. HeldOccupied' /\ WalkPassed'
  BY <1>0 DEF IndInv, HeldOccupied, WalkPassed
<1>6. CountExact'
  BY <1>0, CountEmpty
<1> QED BY <1>1, <1>2, <1>3, <1>4, <1>5, <1>6 DEF IndInv

LEMMA ClearInv ==
    ASSUME IndInv, Clear
    PROVE  IndInv'
<1> USE DEF Clear
<1>0. /\ Slots' = Slots
      /\ generations \in [Slots -> Generation] /\ states \in [Slots -> SlotStates]
  BY DEF Slots, IndInv, TypeOK
<1>1. \A i \in Slots :
         /\ generations'[i] \in Generation
         /\ states'[i] \in {"Free", "Retired"}
         /\ states[i] = "Retired" => generations'[i] = generations[i]
                                     /\ states'[i] = "Retired"
         /\ states[i] = "Occupied" =>
               \/ generations'[i] > generations[i]
               \/ generations'[i] = generations[i] /\ states'[i] = "Retired"
         /\ generations'[i] >= generations[i]
  <2> SUFFICES ASSUME NEW i \in Slots
               PROVE  /\ generations'[i] \in Generation
                      /\ states'[i] \in {"Free", "Retired"}
                      /\ states[i] = "Retired" => generations'[i] = generations[i]
                                                  /\ states'[i] = "Retired"
                      /\ states[i] = "Occupied" =>
                            \/ generations'[i] > generations[i]
                            \/ generations'[i] = generations[i] /\ states'[i] = "Retired"
                      /\ generations'[i] >= generations[i]
    OBVIOUS
  <2>1. generations[i] \in Generation /\ generations[i] \in Nat
    BY <1>0 DEF Generation
  <2>2. CASE states[i] = "Occupied"
    BY <2>1, <2>2, Released
  <2>3. CASE states[i] # "Occupied"
    BY <1>0, <2>1, <2>3 DEF SlotStates
  <2> QED BY <2>2, <2>3
<1>2. Lists(freeList, states, capacity)'
  <2>0. PICK n \in 0 .. capacity : \E list \in [1 .. n -> Slots] :
           Rebuilt(list, states') /\ freeList' = list
    OBVIOUS
  <2>1. PICK list \in [1 .. n -> Slots] :
           Rebuilt(list, states') /\ freeList' = list
    BY <2>0
  <2>2. n \in Nat /\ list \in Seq(Slots) /\ Len(list) = n
    BY DEF IndInv, TypeOK
  <2>3. \A j, k \in 1 .. n : list[j] = list[k] => j = k
    <3>1. \A j, k \in 1 .. n : j < k => list[j] < list[k]
      BY <2>1 DEF Rebuilt
    <3>2. \A k \in 1 .. n : list[k] \in Int
      BY DEF Slots
    <3> QED BY <3>1, <3>2
  <2>4. \A k \in 1 .. n : states'[list[k]] = "Free"
    BY <2>1 DEF Rebuilt
  <2>5. ASSUME NEW i \in Slots, states'[i] = "Free"
        PROVE  \E k \in 1 .. n : list[k] = i
    <3>1. i \in {list[k] : k \in DOMAIN list}
      BY <1>0, <2>1, <2>5 DEF Rebuilt
    <3> QED BY <2>2, <3>1
  <2> QED BY <1>0, <2>1, <2>2, <2>3, <2>4, <2>5 DEF Lists, Slots
<1>3. TypeOK'
  <2>1. freeList' \in Seq(Slots')
    BY <1>2 DEF Lists, Slots
  <2>2. generations' \in [Slots' -> Generation] /\ states' \in [Slots' -> SlotStates]
    BY <1>0, <1>1 DEF SlotStates
  <2> QED BY <2>1, <2>2 DEF IndInv, TypeOK
<1>4. DeadBelow'
  <2> SUFFICES ASSUME NEW h \in held \union dead
               PROVE  IF h.index < capacity
                      THEN \/ h.generation < generations'[h.index]
                           \/ /\ h.generation = generations'[h.index]
                              /\ states'[h.index] = "Retired"
                      ELSE h.generation < initialGeneration
    BY DEF DeadBelow
  <2>1. h.index \in Nat /\ h.generation \in Nat
    BY HandleFields DEF IndInv, TypeOK, Generation
  <2>2. CASE h \in held
    <3>1. h.index \in Slots /\ states[h.index] = "Occupied"
          /\ generations[h.index] = h.generation
      BY <2>1, <2>2 DEF IndInv, HeldOccupied, Valid, Slots, TypeOK
    <3>2. h.index < capacity /\ generations'[h.index] \in Nat
      BY <1>1, <2>1, <3>1 DEF Slots, Generation, IndInv, TypeOK
    <3> QED BY <1>1, <2>1, <3>1, <3>2
  <2>3. CASE h \in dead /\ h.index < capacity
    <3>1. h.index \in Slots
      BY <2>1, <2>3 DEF Slots, IndInv, TypeOK
    <3>2. generations[h.index] \in Nat /\ generations'[h.index] \in Nat
      BY <1>0, <1>1, <3>1 DEF Generation
    <3> QED BY <1>1, <2>1, <2>3, <3>1, <3>2 DEF IndInv, DeadBelow
  <2>4. CASE h \in dead /\ ~(h.index < capacity)
    BY <2>4 DEF IndInv, DeadBelow
  <2> QED BY <2>2, <2>3, <2>4
<1>5. DeadBelowEpoch'
  BY DEF DeadBelowEpoch
<1>6. EpochBelowPool'
  <2>1. \A i \in Slots : generations'[i] >= initialGeneration
    <3>1. \A i \in Slots : generations[i] >= initialGeneration
                           /\ generations[i] \in Nat /\ generations'[i] \in Nat
      BY <1>0, <1>1 DEF IndInv, EpochBelowPool, Generation
    <3>2. initialGeneration \in Nat
      BY DEF IndInv, TypeOK, Generation
    <3> QED BY <1>1, <3>1, <3>2
  <2> QED BY <1>0, <2>1 DEF IndInv, EpochBelowPool
<1>7. HeldOccupied' /\ WalkPassed'
  BY <1>0, <1>1 DEF IndInv, HeldOccupied, WalkPassed
<1>8. CountExact'
  <2>1. \A i \in Slots' : states'[i] # "Occupied"
    BY <1>0, <1>1
  <2> QED BY <2>1, CountEmpty
<1> QED BY <1>2, <1>3, <1>4, <1>5, <1>6, <1>7, <1>8 DEF IndInv

-----------------------------------------------------------------------------
(* tc_pool_alloc takes a free slot of a pool that is as the invariant says *)
(* (its own, or the one it has just grown).                                *)
LEMMA TakeInv ==
    ASSUME IndInv, open, NEW cap \in 0 .. MaxCapacity, capacity' = cap, capacity <= cap,
           NEW list, NEW slotGenerations \in [0 .. cap - 1 -> Generation],
           NEW slotStates \in [0 .. cap - 1 -> SlotStates],
           Lists(list, slotStates, cap), list # <<>>,
           \A i \in Slots : /\ slotGenerations[i] = generations[i]
                            /\ slotStates[i] = states[i],
           \A i \in 0 .. cap - 1 : i \notin Slots =>
                 slotGenerations[i] = initialGeneration /\ slotStates[i] = "Free",
           Take(list, slotGenerations, slotStates)
    PROVE  IndInv'
<1> DEFINE index == list[Len(list)]
<1>0. /\ index \in 0 .. cap - 1 /\ index \in Nat /\ capacity \in Nat
      /\ slotStates[index] = "Free"
      /\ Lists(SubSeq(list, 1, Len(list) - 1),
               [slotStates EXCEPT ![index] = "Occupied"], cap)
      /\ Slots' = 0 .. cap - 1
  <2>1. cap \in Nat /\ capacity \in Nat
    BY PoolAssumption DEF IndInv, TypeOK
  <2>2. Slots' = 0 .. cap - 1
    BY DEF Slots
  <2>3. /\ list[Len(list)] \in 0 .. cap - 1
        /\ slotStates[list[Len(list)]] = "Free"
        /\ Lists(SubSeq(list, 1, Len(list) - 1),
                 [slotStates EXCEPT ![list[Len(list)]] = "Occupied"], cap)
    BY <2>1, TakeLists
  <2>4. index \in Nat
    BY <2>1, <2>3
  <2> QED BY <2>1, <2>2, <2>3, <2>4
<1>1. /\ freeList' = SubSeq(list, 1, Len(list) - 1)
      /\ generations' = slotGenerations
      /\ states' = [slotStates EXCEPT ![index] = "Occupied"]
      /\ count' = count + 1
      /\ held' = held \union {Handle(index, slotGenerations[index])}
      /\ UNCHANGED <<open, initialGeneration, epoch, walk, dead>>
  BY DEF Take
<1> HIDE DEF index
<1>2. /\ index \in Slots'
      /\ states' \in [Slots' -> SlotStates]
      /\ generations' \in [Slots' -> Generation]
      /\ Handle(index, slotGenerations[index]) \in Handles
  <2>1. index \in 0 .. MaxCapacity - 1 /\ slotGenerations[index] \in Generation
    BY <1>0, PoolAssumption
  <2> QED BY <1>0, <1>1, <2>1, HandleFields DEF SlotStates
<1>3. TypeOK'
  <2>1. freeList' \in Seq(Slots')
    BY <1>0, <1>1 DEF Lists
  <2>2. capacity' \in 0 .. MaxCapacity /\ count' \in Nat
    BY <1>1 DEF IndInv, TypeOK
  <2>3. held' \in SUBSET Handles
    BY <1>1, <1>2 DEF IndInv, TypeOK
  <2> QED BY <1>1, <1>2, <2>1, <2>2, <2>3 DEF IndInv, TypeOK
<1>4. Lists(freeList, states, capacity)'
  BY <1>0, <1>1 DEF Lists
<1>5. DeadBelow'
  <2> SUFFICES ASSUME NEW h \in dead
               PROVE  IF h.index < capacity'
                      THEN \/ h.generation < generations'[h.index]
                           \/ /\ h.generation = generations'[h.index]
                              /\ states'[h.index] = "Retired"
                      ELSE h.generation < initialGeneration
    BY <1>1 DEF DeadBelow
  <2>1. h.index \in Nat /\ h.generation \in Nat
    BY HandleFields DEF IndInv, TypeOK, Generation
  <2>2. CASE h.index < capacity
    <3>1. h.index \in Slots /\ h.index \in Slots'
      BY <1>0, <2>1, <2>2 DEF Slots
    <3>2. \/ h.generation < generations[h.index]
          \/ h.generation = generations[h.index] /\ states[h.index] = "Retired"
      BY <2>2 DEF IndInv, DeadBelow
    <3>3. generations'[h.index] = generations[h.index]
      BY <1>1, <3>1
    <3>4. states[h.index] = "Retired" => states'[h.index] = "Retired"
      BY <1>0, <1>1, <1>2, <3>1
    <3> QED BY <1>0, <2>1, <2>2, <3>2, <3>3, <3>4
  <2>3. CASE ~(h.index < capacity)
    <3>1. h.generation < initialGeneration
      BY <2>3 DEF IndInv, DeadBelow
    <3>2. h.index < cap => h.index \in 0 .. cap - 1 /\ h.index \notin Slots
      BY <1>0, <2>1, <2>3 DEF Slots
    <3>4. h.index < cap => generations'[h.index] = initialGeneration
      BY <1>1, <3>2
    <3> QED BY <3>1, <3>4
  <2> QED BY <2>2, <2>3
<1>6. DeadBelowEpoch'
  BY <1>1 DEF DeadBelowEpoch
<1>7. EpochBelowPool'
  <2>1. \A i \in Slots' : generations'[i] >= initialGeneration
    <3>1. initialGeneration \in Nat
      BY DEF IndInv, TypeOK, Generation
    <3>2. \A i \in Slots : generations[i] >= initialGeneration
      BY DEF IndInv, EpochBelowPool
    <3>3. \A i \in 0 .. cap - 1 : generations'[i] = slotGenerations[i]
      BY <1>1
    <3> QED BY <1>0, <3>1, <3>2, <3>3
  <2> QED BY <1>1, <2>1 DEF IndInv, EpochBelowPool
<1>8. HeldOccupied'
  <2>1. ASSUME NEW h \in held
        PROVE  Valid(h)'
    <3>1. h.index \in Slots /\ states[h.index] = "Occupied"
          /\ generations[h.index] = h.generation
      BY HandleFields DEF IndInv, HeldOccupied, Valid, Slots, TypeOK
    <3>2. h.index < capacity' /\ h.index \in Slots'
      BY <1>0, <3>1 DEF Slots
    <3>3. h.index # index
      BY <1>0, <3>1
    <3> QED BY <1>0, <1>1, <3>1, <3>2, <3>3 DEF Valid
  <2>2. Valid(Handle(index, slotGenerations[index]))'
    <3>1. states'[index] = "Occupied" /\ index < cap
      BY <1>0, <1>1
    <3> QED BY <1>1, <3>1 DEF Valid, Handle
  <2>3. ASSUME NEW i \in Slots', states'[i] = "Occupied"
        PROVE  Handle(i, generations'[i]) \in held'
    <3>1. CASE i = index
      BY <1>1, <3>1
    <3>2. CASE i # index
      <4>1. slotStates[i] = "Occupied"
        BY <1>0, <1>1, <2>3, <3>2
      <4>2. i \in Slots /\ states[i] = "Occupied" /\ generations'[i] = generations[i]
        BY <1>0, <1>1, <4>1
      <4> QED BY <1>1, <4>2 DEF IndInv, HeldOccupied
    <3> QED BY <3>1, <3>2
  <2> QED BY <1>1, <2>1, <2>2, <2>3 DEF HeldOccupied
<1>9. WalkPassed'
  <2>1. Handle(index, slotGenerations[index]) \notin held \union dead
    <3> DEFINE new == Handle(index, slotGenerations[index])
    <3>1. new.index = index /\ new.generation = slotGenerations[index]
      BY HandleFields
    <3>2. new \notin held
      <4> SUFFICES ASSUME new \in held PROVE FALSE
        OBVIOUS
      <4>1. index \in Slots /\ states[index] = "Occupied"
        BY <1>0, <3>1 DEF IndInv, HeldOccupied, Valid, Slots
      <4> QED BY <1>0, <4>1
    <3>3. new \notin dead
      <4> SUFFICES ASSUME new \in dead PROVE FALSE
        OBVIOUS
      <4>1. slotGenerations[index] \in Nat /\ initialGeneration \in Nat
        BY <1>0 DEF Generation, IndInv, TypeOK
      <4>2. CASE index \in Slots
        BY <1>0, <3>1, <4>1, <4>2 DEF IndInv, DeadBelow, Slots
      <4>3. CASE index \notin Slots
        <5>1. ~(index < capacity) /\ slotGenerations[index] = initialGeneration
          BY <1>0, <4>3 DEF Slots
        <5>2. slotGenerations[index] < initialGeneration
          BY <3>1, <5>1 DEF IndInv, DeadBelow
        <5> QED BY <4>1, <5>1, <5>2
      <4> QED BY <4>2, <4>3
    <3> QED BY <3>2, <3>3
  <2>2. walk.since \intersect held' = walk.since \intersect held
    BY <1>1, <2>1 DEF IndInv, WalkPassed
  <2> QED BY <1>1, <2>2 DEF IndInv, WalkPassed
<1>10. CountExact'
  <2>1. index \notin {i \in Slots : states[i] = "Occupied"}
    BY <1>0
  <2>2. \A i \in Slots' : states'[i] = "Occupied" <=>
           i = index \/ (i \in Slots /\ states[i] = "Occupied")
    BY <1>0, <1>1, <1>2
  <2>3. Slots \subseteq Slots'
    BY <1>0 DEF Slots
  <2>4. {i \in Slots' : states'[i] = "Occupied"} =
           {i \in Slots : states[i] = "Occupied"} \union {index}
    BY <1>2, <2>2, <2>3
  <2> QED BY <1>1, <2>1, <2>4, CountUp DEF IndInv
<1> QED BY <1>3, <1>4, <1>5, <1>6, <1>7, <1>8, <1>9, <1>10 DEF IndInv

LEMMA AllocInv ==
    ASSUME IndInv, Alloc
    PROVE  IndInv'
<1>1. capacity' = capacity /\ capacity \in 0 .. MaxCapacity /\ Slots = 0 .. capacity' - 1
  BY DEF Alloc, IndInv, TypeOK, Slots
<1>2. /\ generations \in [0 .. capacity' - 1 -> Generation]
      /\ states \in [0 .. capacity' - 1 -> SlotStates]
      /\ Lists(freeList, states, capacity')
      /\ capacity <= capacity'
  BY <1>1 DEF IndInv, TypeOK, Slots
<1>3. \A i \in 0 .. capacity' - 1 : i \in Slots
  BY <1>1
<1> QED BY <1>1, <1>2, <1>3, TakeInv DEF Alloc

LEMMA AllocGrowsInv ==
    ASSUME IndInv, AllocGrows
    PROVE  IndInv'
<1> DEFINE new == Growth(capacity)
           list == FreeRange(capacity, new)
           grownGenerations == Extended(generations, new, initialGeneration)
           grownStates == Extended(states, new, "Free")
<1>1. /\ open /\ capacity' = new /\ freeList = <<>>
      /\ Take(list, grownGenerations, grownStates)
      /\ capacity \in 0 .. MaxCapacity /\ capacity < MaxCapacity /\ capacity \in Nat
      /\ Slots = 0 .. capacity - 1
  BY DEF AllocGrows, IndInv, TypeOK, Slots
<1>2. new \in 0 .. MaxCapacity /\ new > capacity /\ new \in Nat
  BY <1>1, GrowthBounds
<1> HIDE DEF new
<1>3. /\ grownGenerations \in [0 .. new - 1 -> Generation]
      /\ \A i \in 0 .. capacity - 1 : grownGenerations[i] = generations[i]
      /\ \A i \in capacity .. new - 1 : grownGenerations[i] = initialGeneration
  <2>1. /\ generations \in [0 .. capacity - 1 -> Generation]
        /\ initialGeneration \in Generation
        /\ capacity <= new /\ capacity \in Nat /\ new \in Nat
    BY <1>1, <1>2 DEF IndInv, TypeOK
  <2> HIDE DEF grownGenerations
  <2>2. /\ Extended(generations, new, initialGeneration) \in [0 .. new - 1 -> Generation]
        /\ \A i \in 0 .. capacity - 1 :
              Extended(generations, new, initialGeneration)[i] = generations[i]
        /\ \A i \in capacity .. new - 1 :
              Extended(generations, new, initialGeneration)[i] = initialGeneration
    BY <2>1 DEF Extended
  <2> QED BY <2>2 DEF grownGenerations
<1>4. /\ grownStates \in [0 .. new - 1 -> SlotStates]
      /\ \A i \in 0 .. capacity - 1 : grownStates[i] = states[i]
      /\ \A i \in capacity .. new - 1 : grownStates[i] = "Free"
  <2>1. "Free" \in SlotStates /\ states \in [0 .. capacity - 1 -> SlotStates]
    BY <1>1 DEF SlotStates, IndInv, TypeOK
  <2>2. capacity <= new /\ capacity \in Nat /\ new \in Nat
    BY <1>1, <1>2
  <2> HIDE DEF grownStates
  <2>3. /\ Extended(states, new, "Free") \in [0 .. new - 1 -> SlotStates]
        /\ \A i \in 0 .. capacity - 1 : Extended(states, new, "Free")[i] = states[i]
        /\ \A i \in capacity .. new - 1 : Extended(states, new, "Free")[i] = "Free"
    BY <2>1, <2>2 DEF Extended
  <2> QED BY <2>3 DEF grownStates
<1>5. /\ list \in Seq(0 .. new - 1)
      /\ Len(list) = new - capacity
      /\ \A k \in 1 .. new - capacity : list[k] \in capacity .. new - 1
      /\ \A j, k \in 1 .. new - capacity : list[j] = list[k] => j = k
      /\ \A i \in capacity .. new - 1 : \E k \in 1 .. new - capacity : list[k] = i
  <2>1. capacity <= new /\ capacity \in Nat /\ new \in Nat
    BY <1>1, <1>2
  <2> QED BY <2>1, FreeRangeNames
<1> HIDE DEF list, grownGenerations, grownStates
<1>6. Lists(list, grownStates, new) /\ list # <<>>
  <2>1. \A i \in 0 .. capacity - 1 : states[i] # "Free"
    BY <1>1 DEF IndInv, Lists
  <2>2. \A i \in 0 .. new - 1 : grownStates[i] = "Free" => i \in capacity .. new - 1
    BY <1>1, <1>2, <1>4, <2>1
  <2>3. list # <<>>
    BY <1>1, <1>2, <1>5
  <2> QED BY <1>4, <1>5, <2>2, <2>3 DEF Lists
<1>7. \A i \in 0 .. new - 1 : i \notin Slots => i \in capacity .. new - 1
  BY <1>1, <1>2
<1>8. capacity' \in 0 .. MaxCapacity /\ capacity <= capacity'
  BY <1>1, <1>2
<1> QED BY <1>1, <1>3, <1>4, <1>6, <1>7, <1>8, TakeInv

(* Returning a slot to the list that does not name it yet. *)
LEMMA GiveLists ==
    ASSUME NEW cap \in Nat, NEW slotStates \in [0 .. cap - 1 -> SlotStates],
           NEW list, Lists(list, slotStates, cap),
           NEW index \in 0 .. cap - 1, slotStates[index] # "Free"
    PROVE  /\ Lists(Append(list, index), [slotStates EXCEPT ![index] = "Free"], cap)
           /\ Lists(list, [slotStates EXCEPT ![index] = "Retired"], cap)
<1> DEFINE n == Len(list)
           longer == Append(list, index)
           after == [slotStates EXCEPT ![index] = "Free"]
<1>1. list \in Seq(0 .. cap - 1) /\ n \in Nat
  BY DEF Lists
<1>2. /\ longer \in Seq(0 .. cap - 1)
      /\ Len(longer) = n + 1
      /\ longer[n + 1] = index
      /\ \A k \in 1 .. n : longer[k] = list[k]
  BY <1>1
<1>3. \A k \in 1 .. n : list[k] # index
  BY DEF Lists
<1>4. \A j, k \in 1 .. n + 1 : longer[j] = longer[k] => j = k
  <2>1. \A j, k \in 1 .. n : list[j] = list[k] => j = k
    BY DEF Lists
  <2>2. \A k \in 1 .. n + 1 : k \in 1 .. n \/ k = n + 1
    BY <1>1
  <2> QED BY <1>2, <1>3, <2>1, <2>2
<1>5. \A k \in 1 .. n + 1 : after[longer[k]] = "Free"
  <2>1. \A k \in 1 .. n : slotStates[list[k]] = "Free" /\ list[k] \in 0 .. cap - 1
    BY <1>1 DEF Lists
  <2>2. \A k \in 1 .. n + 1 : k \in 1 .. n \/ k = n + 1
    BY <1>1
  <2> QED BY <1>2, <1>3, <2>1, <2>2
<1>6. ASSUME NEW i \in 0 .. cap - 1, after[i] = "Free"
      PROVE  \E k \in 1 .. n + 1 : longer[k] = i
  <2>1. CASE i = index
    BY <1>1, <1>2, <2>1
  <2>2. CASE i # index
    <3>1. slotStates[i] = "Free"
      BY <1>6, <2>2
    <3>2. PICK k \in 1 .. n : list[k] = i
      BY <3>1 DEF Lists
    <3> QED BY <1>1, <1>2, <3>2
  <2> QED BY <2>1, <2>2
<1>7. Lists(longer, after, cap)
  BY <1>2, <1>4, <1>5, <1>6 DEF Lists
<1>8. Lists(list, [slotStates EXCEPT ![index] = "Retired"], cap)
  BY <1>1, <1>3 DEF Lists
<1> QED BY <1>7, <1>8

LEMMA FreeSlotInv ==
    ASSUME IndInv, NEW h \in held \union dead, FreeSlot(h)
    PROVE  IndInv'
<1> DEFINE i == h.index
           g == generations[i]
<1>0. /\ i \in Slots /\ states[i] = "Occupied" /\ g = h.generation /\ h \in Handles
      /\ generations \in [Slots -> Generation] /\ states \in [Slots -> SlotStates]
      /\ g \in Generation /\ open /\ h = Handle(i, g)
  <2>1. h \in Handles /\ Valid(h)
    BY DEF FreeSlot, IndInv, TypeOK
  <2>2. h.index \in Slots
    BY <2>1, HandleFields DEF Valid, Slots, IndInv, TypeOK
  <2>3. open
    BY <2>2 DEF IndInv, TypeOK, EpochBelowPool, Slots
  <2> QED BY <2>1, <2>2, <2>3, HandleFields DEF Valid, IndInv, TypeOK
<1>1. /\ generations' = [generations EXCEPT ![i] = ReleasedGeneration(g)]
      /\ states' = [states EXCEPT ![i] = ReleasedState(g)]
      /\ freeList' = IF ReleasedState(g) = "Free" THEN Append(freeList, i) ELSE freeList
      /\ held' = held \ {h}
      /\ dead' = dead \union {h}
      /\ UNCHANGED <<open, capacity, initialGeneration, epoch, walk>>
      /\ Slots' = Slots
  BY DEF FreeSlot, Slots
<1>2. /\ ReleasedGeneration(g) \in Generation
      /\ ReleasedState(g) \in {"Free", "Retired"}
      /\ \/ ReleasedGeneration(g) > g
         \/ ReleasedGeneration(g) = g /\ ReleasedState(g) = "Retired"
  BY <1>0, Released
<1>3. Lists(freeList, states, capacity)'
  <2>1. /\ capacity \in Nat /\ states \in [0 .. capacity - 1 -> SlotStates]
        /\ i \in 0 .. capacity - 1 /\ states[i] # "Free"
        /\ Lists(freeList, states, capacity)
    BY <1>0 DEF Slots, IndInv, TypeOK
  <2>2. /\ Lists(Append(freeList, i), [states EXCEPT ![i] = "Free"], capacity)
        /\ Lists(freeList, [states EXCEPT ![i] = "Retired"], capacity)
    <3> HIDE DEF i
    <3> QED BY <2>1, GiveLists
  <2> QED BY <1>1, <1>2, <2>2
<1>5. DeadBelow'
  <2> SUFFICES ASSUME NEW d \in dead \union {h}
               PROVE  IF d.index < capacity
                      THEN \/ d.generation < generations'[d.index]
                           \/ /\ d.generation = generations'[d.index]
                              /\ states'[d.index] = "Retired"
                      ELSE d.generation < initialGeneration
    BY <1>1 DEF DeadBelow
  <2>1. d.index \in Nat /\ d.generation \in Nat /\ g \in Nat
    BY <1>0, HandleFields DEF IndInv, TypeOK, Generation
  <2>2. CASE d = h
    <3>1. i < capacity
      BY <1>0 DEF Slots, IndInv, TypeOK
    <3>2. generations'[i] = ReleasedGeneration(g) /\ states'[i] = ReleasedState(g)
      BY <1>0, <1>1
    <3>3. ReleasedGeneration(g) \in Nat
      BY <1>2 DEF Generation
    <3> QED BY <1>0, <1>2, <2>1, <2>2, <3>1, <3>2, <3>3
  <2>3. CASE d # h /\ d.index < capacity
    <3>1. d.index \in Slots
      BY <2>1, <2>3 DEF Slots, IndInv, TypeOK
    <3>2. \/ d.generation < generations[d.index]
          \/ d.generation = generations[d.index] /\ states[d.index] = "Retired"
      BY <1>0, <2>3 DEF IndInv, DeadBelow
    <3>3. CASE d.index # i
      BY <1>0, <1>1, <2>3, <3>1, <3>2, <3>3
    <3>4. CASE d.index = i
      <4>1. d.generation < g
        BY <1>0, <3>2, <3>4
      <4>2. generations'[d.index] = ReleasedGeneration(g)
        BY <1>0, <1>1, <3>4
      <4>3. ReleasedGeneration(g) \in Nat
        BY <1>2 DEF Generation
      <4> HIDE DEF g
      <4> QED BY <1>2, <2>1, <2>3, <4>1, <4>2, <4>3
    <3> QED BY <3>3, <3>4
  <2>4. CASE d # h /\ ~(d.index < capacity)
    BY <1>0, <2>4 DEF IndInv, DeadBelow
  <2> QED BY <2>2, <2>3, <2>4
<1>6. DeadBelowEpoch'
  BY <1>0, <1>1 DEF DeadBelowEpoch
<1>7. EpochBelowPool'
  <2>1. \A k \in Slots : generations'[k] >= initialGeneration
    <3> SUFFICES ASSUME NEW k \in Slots PROVE generations'[k] >= initialGeneration
      OBVIOUS
    <3>1. generations[k] >= initialGeneration /\ initialGeneration \in Nat
      BY <1>0 DEF IndInv, EpochBelowPool, TypeOK, Generation
    <3>2. CASE k # i
      BY <1>0, <1>1, <3>1, <3>2
    <3>3. CASE k = i
      <4>1. generations'[k] = ReleasedGeneration(g) /\ g >= initialGeneration
        BY <1>0, <1>1, <3>1, <3>3
      <4>2. ReleasedGeneration(g) \in Nat /\ g \in Nat
        BY <1>0, <1>2 DEF Generation
      <4> HIDE DEF g
      <4> QED BY <1>2, <3>1, <4>1, <4>2
    <3> QED BY <3>2, <3>3
  <2> QED BY <1>0, <1>1, <2>1 DEF IndInv, EpochBelowPool
<1>8. HeldOccupied'
  <2>1. ASSUME NEW k \in held, k # h
        PROVE  Valid(k)'
    <3>1. k \in Handles /\ Valid(k)
      BY DEF IndInv, HeldOccupied, TypeOK
    <3>2. k.index \in Slots
      BY <3>1, HandleFields DEF Valid, Slots, IndInv, TypeOK
    <3>3. k.index # i
      BY <1>0, <2>1, <3>1, HandleFields DEF Valid
    <3> QED BY <1>0, <1>1, <3>1, <3>2, <3>3 DEF Valid
  <2>2. ASSUME NEW k \in Slots, states'[k] = "Occupied"
        PROVE  Handle(k, generations'[k]) \in held \ {h}
    <3>1. k # i
      BY <1>0, <1>1, <1>2, <2>2
    <3>2. states[k] = "Occupied" /\ generations'[k] = generations[k]
      BY <1>0, <1>1, <2>2, <3>1
    <3>3. Handle(k, generations[k]) # h
      BY <3>1, HandleFields
    <3> QED BY <3>2, <3>3 DEF IndInv, HeldOccupied
  <2> QED BY <1>1, <2>1, <2>2 DEF HeldOccupied
<1>9. WalkPassed'
  <2>1. h \in held
    BY <1>0 DEF IndInv, HeldOccupied
  <2> QED BY <1>1, <2>1 DEF IndInv, WalkPassed
<1>10. CountExact' /\ count' \in Nat
  <2>1. i \in {k \in Slots : states[k] = "Occupied"}
    BY <1>0
  <2>2. {k \in Slots' : states'[k] = "Occupied"} =
           {k \in Slots : states[k] = "Occupied"} \ {i}
    BY <1>0, <1>1, <1>2
  <2>3. count' = count - 1
    BY DEF FreeSlot
  <2> HIDE DEF i
  <2> QED BY <2>1, <2>2, <2>3, CountDown DEF IndInv
<1>11. TypeOK'
  <2>1. generations' \in [Slots' -> Generation] /\ states' \in [Slots' -> SlotStates]
    BY <1>0, <1>1, <1>2 DEF SlotStates
  <2>2. freeList' \in Seq(Slots')
    BY <1>3 DEF Lists, Slots
  <2>3. held' \in SUBSET Handles /\ dead' \in SUBSET Handles
    BY <1>0, <1>1 DEF IndInv, TypeOK
  <2> QED BY <1>0, <1>1, <1>10, <2>1, <2>2, <2>3 DEF IndInv, TypeOK
<1> QED BY <1>3, <1>5, <1>6, <1>7, <1>8, <1>9, <1>10, <1>11 DEF IndInv

-----------------------------------------------------------------------------
(* tc_pool_foreach changes nothing but its own cursor. *)
LEMMA ForeachInv ==
    ASSUME IndInv, UNCHANGED <<pool, epoch, held, dead>>,
           walk' \in [status : {"none", "visiting", "complete"}, at : 0 .. MaxCapacity,
                      since : SUBSET Handles, seen : SUBSET Handles],
           WalkPassed'
    PROVE  IndInv'
<1> USE DEF pool
<1>1. Slots' = Slots
  BY DEF Slots
<1>2. TypeOK' /\ Lists(freeList, states, capacity)'
  BY <1>1 DEF IndInv, TypeOK
<1>3. DeadBelow' /\ DeadBelowEpoch' /\ EpochBelowPool'
  BY <1>1 DEF IndInv, DeadBelow, DeadBelowEpoch, EpochBelowPool
<1>4. HeldOccupied' /\ CountExact'
  BY <1>1 DEF IndInv, HeldOccupied, Valid, CountExact
<1> QED BY <1>2, <1>3, <1>4 DEF IndInv

LEMMA ForeachStartInv ==
    ASSUME IndInv, ForeachStart
    PROVE  IndInv'
<1>1. walk' \in [status : {"none", "visiting", "complete"}, at : 0 .. MaxCapacity,
                 since : SUBSET Handles, seen : SUBSET Handles]
  BY PoolAssumption DEF ForeachStart, IndInv, TypeOK
<1>2. \A h \in held : ~(h.index < 0)
  BY HandleFields DEF IndInv, TypeOK
<1>3. WalkPassed'
  BY <1>2 DEF ForeachStart, WalkPassed
<1> QED BY <1>1, <1>3, ForeachInv DEF ForeachStart

LEMMA ForeachVisitInv ==
    ASSUME IndInv, NEW i \in Slots, ForeachVisit(i)
    PROVE  IndInv'
<1> DEFINE called == Handle(i, generations[i])
<1>1. /\ walk.status = "visiting" /\ walk.at <= i /\ walk.at \in Nat
      /\ \A k \in walk.at .. i - 1 : states[k] # "Occupied"
      /\ walk' = [status |-> "visiting", at |-> i + 1, since |-> walk.since,
                  seen |-> walk.seen \union {called}]
      /\ held' = held /\ dead' = dead
      /\ i \in Nat /\ i + 1 \in 0 .. MaxCapacity /\ called \in Handles
  <2>1. i \in 0 .. MaxCapacity - 1 /\ generations[i] \in Generation
    BY PoolAssumption DEF IndInv, TypeOK, Slots
  <2> QED BY <2>1, HandleFields, PoolAssumption DEF ForeachVisit, IndInv, TypeOK
<1>2. walk' \in [status : {"none", "visiting", "complete"}, at : 0 .. MaxCapacity,
                 since : SUBSET Handles, seen : SUBSET Handles]
  <2>1. walk.since \in SUBSET Handles /\ walk.seen \in SUBSET Handles
    BY DEF IndInv, TypeOK
  <2> QED BY <1>1, <2>1
<1>3. WalkPassed'
  <2>1. ASSUME NEW h \in walk.since \intersect held, h.index < i + 1
        PROVE  h \in walk.seen \union {called}
    <3>1. /\ h \in Handles /\ h.index \in Nat /\ Valid(h)
          /\ h = Handle(h.index, h.generation)
      BY HandleFields DEF IndInv, TypeOK, HeldOccupied
    <3>2. CASE h.index < walk.at
      BY <1>1, <3>2 DEF IndInv, WalkPassed
    <3>3. CASE ~(h.index < walk.at)
      <4>1. h.index = i
        <5>1. h.index \in walk.at .. i
          BY <1>1, <2>1, <3>1, <3>3
        <5>2. states[h.index] = "Occupied"
          BY <3>1 DEF Valid
        <5> QED BY <1>1, <5>1, <5>2
      <4>2. h.generation = generations[i]
        BY <3>1, <4>1 DEF Valid
      <4> QED BY <3>1, <4>1, <4>2
    <3> QED BY <3>2, <3>3
  <2> HIDE DEF called
  <2>2. walk.since \subseteq held \union dead
    BY DEF IndInv, WalkPassed
  <2> QED BY <1>1, <2>1, <2>2 DEF WalkPassed
<1> QED BY <1>2, <1>3, ForeachInv DEF ForeachVisit

LEMMA ForeachStopInv ==
    ASSUME IndInv, ForeachStop
    PROVE  IndInv'
<1>1. walk' \in [status : {"none", "visiting", "complete"}, at : 0 .. MaxCapacity,
                 since : SUBSET Handles, seen : SUBSET Handles]
  BY PoolAssumption DEF ForeachStop, NoWalk
<1>2. WalkPassed'
  BY DEF ForeachStop, NoWalk, WalkPassed
<1> QED BY <1>1, <1>2, ForeachInv DEF ForeachStop

LEMMA ForeachEndInv ==
    ASSUME IndInv, ForeachEnd
    PROVE  IndInv'
<1>1. walk' \in [status : {"none", "visiting", "complete"}, at : 0 .. MaxCapacity,
                 since : SUBSET Handles, seen : SUBSET Handles]
  <2>1. walk.since \in SUBSET Handles /\ walk.seen \in SUBSET Handles
    BY DEF IndInv, TypeOK
  <2> QED BY <2>1, PoolAssumption DEF ForeachEnd
<1>2. \A h \in walk.since \intersect held : h \in walk.seen
  <2> SUFFICES ASSUME NEW h \in walk.since \intersect held
               PROVE  h \in walk.seen
    OBVIOUS
  <2>1. h.index \in Nat /\ Valid(h) /\ capacity \in Nat /\ walk.at \in Nat
    BY HandleFields DEF IndInv, TypeOK, HeldOccupied
  <2>2. h.index < walk.at
    BY <2>1 DEF ForeachEnd, Valid
  <2> QED BY <2>2 DEF ForeachEnd, IndInv, WalkPassed
<1>3. WalkPassed'
  BY <1>2 DEF ForeachEnd, IndInv, WalkPassed
<1> QED BY <1>1, <1>3, ForeachInv DEF ForeachEnd

-----------------------------------------------------------------------------
LEMMA StepInv ==
    ASSUME IndInv, [Next]_vars
    PROVE  IndInv'
<1>1. ASSUME NEW initial \in InitialCapacities, InitEx(initial)
      PROVE  IndInv'
  BY <1>1, InitExInv
<1>2. CASE InitExFails
  BY <1>2, InitExFailsInv
<1>3. CASE UNCHANGED vars
  <2>1. UNCHANGED <<pool, epoch, held, dead>> /\ walk' = walk
    BY <1>3 DEF vars
  <2>2. WalkPassed' /\ walk' \in
           [status : {"none", "visiting", "complete"}, at : 0 .. MaxCapacity,
            since : SUBSET Handles, seen : SUBSET Handles]
    BY <2>1 DEF IndInv, WalkPassed, TypeOK
  <2> QED BY <2>1, <2>2, ForeachInv
<1>4. CASE FreePool
  BY <1>4, FreePoolInv
<1>5. CASE Clear
  BY <1>5, ClearInv
<1>6. CASE Alloc
  BY <1>6, AllocInv
<1>7. CASE AllocGrows
  BY <1>7, AllocGrowsInv
<1>8. ASSUME NEW h \in held \union dead, FreeSlot(h)
      PROVE  IndInv'
  BY <1>8, FreeSlotInv
<1>9. CASE ForeachStart
  BY <1>9, ForeachStartInv
<1>10. ASSUME NEW i \in Slots, ForeachVisit(i)
       PROVE  IndInv'
  BY <1>10, ForeachVisitInv
<1>11. CASE ForeachStop
  BY <1>11, ForeachStopInv
<1>12. CASE ForeachEnd
  BY <1>12, ForeachEndInv
<1> QED
  BY <1>1, <1>2, <1>3, <1>4, <1>5, <1>6, <1>7, <1>8, <1>9, <1>10, <1>11, <1>12
     DEF Next, InitExRefused

LEMMA Invariance == Spec => []IndInv
BY InitInv, StepInv, PTL DEF Spec

(* Every variable keeps its type: no index leaves the arrays, no           *)
(* generation its width, and the count does not wrap below zero.           *)
THEOREM TypeCorrect == Spec => []TypeOK
<1>1. IndInv => TypeOK
  BY DEF IndInv
<1> QED BY <1>1, Invariance, PTL

(* A handle that was given up is refused for ever, whatever became of its  *)
(* slot and of its pool.                                                   *)
THEOREM StaleHandlesStayStale == Spec => []StaleStaysStale
BY IndInvStale, Invariance, PTL

(* A handle is accepted as long as it was not given up. *)
THEOREM HeldHandlesStayValid == Spec => []HeldIsValid
BY IndInvHeld, Invariance, PTL

(* The free list is a listing of the free slots, through growth, clearing  *)
(* and retirement, and the count is the number of occupied ones.           *)
THEOREM FreeListIsExact == Spec => [](FreeListExact /\ CountExact)
<1>1. IndInv => FreeListExact /\ CountExact
  BY IndInvFreeList DEF IndInv
<1> QED BY <1>1, Invariance, PTL

(* A foreach that was not stopped called back for every survivor. *)
THEOREM WalksAreComplete == Spec => []WalkComplete
BY IndInvWalk, Invariance, PTL

-----------------------------------------------------------------------------
(* What a step does to the handles in use and to the dead ones. *)
LEMMA HandleSteps ==
    ASSUME TypeOK', HeldIsValid', StaleStaysStale, StaleStaysStale', [Next]_vars
    PROVE  \/ \E h \in Handles \ (held \union dead) :
                held' = held \union {h} /\ dead' = dead
           \/ \E S \in SUBSET held :
                held' = held \ S /\ dead' = dead \union S
<1> DEFINE Same == held' = held \ {} /\ dead' = dead \union {}
           Gone == held' = held \ held /\ dead' = dead \union held
           New == \E h \in Handles \ (held \union dead) :
                     held' = held \union {h} /\ dead' = dead
<1>1. Same \/ Gone \/ New \/ \E h \in held : held' = held \ {h}
                                              /\ dead' = dead \union {h}
  <2>1. CASE FreePool \/ Clear
    BY <2>1 DEF FreePool, Clear
  <2>2. ASSUME NEW list, NEW slotGenerations, NEW slotStates,
               Take(list, slotGenerations, slotStates)
        PROVE  New \/ Same
    <3> DEFINE h == Handle(list[Len(list)], slotGenerations[list[Len(list)]])
    <3>1. held' = held \union {h} /\ dead' = dead
      BY <2>2 DEF Take
    <3>2. held' \in SUBSET Handles /\ held' \intersect dead' = {}
      <4>1. \A k \in held' : k \in Handles /\ Valid(k)'
        BY DEF TypeOK, HeldIsValid, ValidHandles
      <4>2. \A k \in dead' : ~Valid(k)'
        BY DEF StaleStaysStale
      <4> QED BY <4>1, <4>2
    <3>3. h \in Handles /\ h \notin dead
      BY <3>1, <3>2
    <3> HIDE DEF h
    <3>4. CASE h \in held
      BY <3>1, <3>4
    <3>5. CASE h \notin held
      BY <3>1, <3>3, <3>5
    <3> QED BY <3>4, <3>5
  <2>3. CASE Alloc \/ AllocGrows
    BY <2>2, <2>3 DEF Alloc, AllocGrows
  <2>4. ASSUME NEW h \in held \union dead, FreeSlot(h)
        PROVE  h \in held /\ held' = held \ {h} /\ dead' = dead \union {h}
    BY <2>4 DEF FreeSlot, StaleStaysStale
  <2>5. ASSUME NEW initial \in InitialCapacities, InitEx(initial)
        PROVE  Same
    BY <2>5 DEF InitEx
  <2>6. CASE InitExFails \/ ForeachStart \/ ForeachStop \/ ForeachEnd \/ UNCHANGED vars
    BY <2>6 DEF InitExFails, ForeachStart, ForeachStop, ForeachEnd, vars
  <2>7. ASSUME NEW i \in Slots, ForeachVisit(i)
        PROVE  Same
    BY <2>7 DEF ForeachVisit
  <2> QED BY <2>1, <2>3, <2>4, <2>5, <2>6, <2>7 DEF Next, InitExRefused
<1> QED BY <1>1

(* tc_pool implements the table of handles. *)
THEOREM PoolImplementsHandleTable == Spec => ImplementsHandleTable
<1>1. Init => Validity!Init
  <2>1. Init => ValidHandles = {}
    BY DEF Init, ValidHandles, Valid, Handles
  <2> QED BY <2>1 DEF Init, Validity!Init
<1>2. ASSUME TypeOK', HeldIsValid, HeldIsValid', StaleStaysStale, StaleStaysStale',
             [Next]_vars
      PROVE  [Validity!Next]_<<ValidHandles, dead>>
  <2>1. ValidHandles = held /\ ValidHandles' = held'
    BY <1>2 DEF HeldIsValid
  <2>2. CASE \E h \in Handles \ (held \union dead) :
                held' = held \union {h} /\ dead' = dead
    BY <2>1, <2>2 DEF Validity!Next, Validity!Issue
  <2>3. CASE \E S \in SUBSET held :
                held' = held \ S /\ dead' = dead \union S
    BY <2>1, <2>3 DEF Validity!Next, Validity!Revoke
  <2> QED BY <1>2, <2>2, <2>3, HandleSteps
<1> QED
  BY <1>1, <1>2, TypeCorrect, HeldHandlesStayValid, StaleHandlesStayStale, PTL
     DEF Spec, ImplementsHandleTable, Validity!Spec
============================================================================
