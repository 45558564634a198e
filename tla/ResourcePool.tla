---------------------------- MODULE ResourcePool ----------------------------
(***************************************************************************)
(* tc_pool: the slot array with generations under every C resource         *)
(* registry of the engine (textures, meshes, shaders, pipelines, render    *)
(* targets, displays, audio voices, navigation meshes...), together with   *)
(* the tc_pool_generation_epoch a registry keeps across its own shutdown   *)
(* and re-initialization.  A handle is an index and a generation; it must  *)
(* stay acceptable until its object is released and be stale for ever      *)
(* after, through reuse of the slot, growth, clear, exhaustion of the      *)
(* generations, and the destruction and recreation of the whole pool.      *)
(*                                                                         *)
(* The pool is sequential.  The one interleaving it has is its own         *)
(* tc_pool_foreach, whose callback may call every other operation.         *)
(* A failed growth changes nothing and a refused handle changes nothing:   *)
(* those calls are stuttering steps here.                                  *)
(***************************************************************************)
EXTENDS Integers, Sequences, FiniteSets

CONSTANTS
    MaxCapacity,        \* max_capacity of the configuration
    MaxGeneration,      \* UINT32_MAX in the code
    InitialCapacities,  \* the initial capacities init may be called with
    InitialGeneration,  \* initial_generation of the configuration
    BaseCapacity,       \* 16: what an empty pool doubles
    LowFirst            \* allocate_low_indices_first

ASSUME PoolAssumption ==
    /\ MaxCapacity \in Nat \ {0}
    /\ MaxGeneration \in Nat
    /\ InitialCapacities \subseteq 0 .. MaxCapacity
    /\ InitialGeneration \in 0 .. MaxGeneration
    /\ BaseCapacity \in Nat \ {0}
    /\ LowFirst \in BOOLEAN

VARIABLES
    open,               \* the pool is initialized (a zeroed tc_pool otherwise)
    capacity, generations, states, freeList, count, initialGeneration,
    epoch,              \* the registry's tc_pool_generation_epoch
    walk,               \* the tc_pool_foreach in progress, or the last one
    held, dead          \* history: handles issued and not released; released

pool == <<open, capacity, generations, states, freeList, count, initialGeneration>>
vars == <<pool, epoch, walk, held, dead>>

Generation == 0 .. MaxGeneration
Handles == [index : 0 .. MaxCapacity - 1, generation : Generation]
SlotStates == {"Free", "Occupied", "Retired"}
Slots == 0 .. capacity - 1
Handle(i, g) == [index |-> i, generation |-> g]

(* tc_pool_is_valid *)
Valid(h) ==
    /\ h.index < capacity
    /\ states[h.index] = "Occupied"
    /\ generations[h.index] = h.generation

ValidHandles == {h \in Handles : Valid(h)}

-----------------------------------------------------------------------------
(* The arrays a growth publishes. *)

(* A plausible bug: a growth beyond the limit: the doubling is not        *)
(* clamped.                                                               *)
MutantGrowth(old) == 2 * (IF old = 0 THEN BaseCapacity ELSE old)

(* Twice the old capacity, within the limit.  The code clamps the doubling *)
(* at UINT32_MAX first, which max_capacity never exceeds.                   *)
Growth(old) ==
    LET doubled == 2 * (IF old = 0 THEN BaseCapacity ELSE old)
    IN  IF doubled > MaxCapacity THEN MaxCapacity ELSE doubled

(* A plausible bug: the old array is not copied into the grown one. *)
MutantExtended(array, new, value) == [i \in 0 .. new - 1 |-> value]

Extended(array, new, value) ==
    [i \in 0 .. new - 1 |-> IF i \in DOMAIN array THEN array[i] ELSE value]

(* The indices of the added slots; the list is popped at its end. *)
FreeRange(first, end) ==
    [k \in 1 .. end - first |-> IF LowFirst THEN end - k ELSE first + k - 1]

(* What tc_pool_init_ex publishes in the epoch the first time. *)
PublishedEpoch ==
    IF epoch.initialized THEN epoch
    ELSE [next |-> InitialGeneration, initialized |-> TRUE,
          exhausted |-> epoch.exhausted]

(* pool_advance_generation_epoch, for the highest generation of any slot. *)
AdvancedEpoch(maximum) ==
    IF maximum = MaxGeneration
    THEN [next |-> epoch.next, initialized |-> epoch.initialized,
          exhausted |-> TRUE]
    ELSE [next |-> maximum + 1, initialized |-> epoch.initialized,
          exhausted |-> epoch.exhausted]

(* A slot that is given up: a new generation, unless there is none left. *)
ReleasedGeneration(g) == IF g = MaxGeneration THEN g ELSE g + 1
ReleasedState(g) == IF g = MaxGeneration THEN "Retired" ELSE "Free"

-----------------------------------------------------------------------------
NoWalk == [status |-> "none", at |-> 0, since |-> {}, seen |-> {}]

Init ==
    /\ open = FALSE
    /\ capacity = 0
    /\ generations = [i \in {} |-> 0]
    /\ states = [i \in {} |-> "Free"]
    /\ freeList = <<>>
    /\ count = 0
    /\ initialGeneration = 0
    /\ epoch = [next |-> 0, initialized |-> FALSE, exhausted |-> FALSE]
    /\ walk = NoWalk
    /\ held = {}
    /\ dead = {}

(* tc_pool_init_ex that succeeds, called by the registry's own init. *)
InitEx(initial) ==
    /\ ~open
    /\ ~epoch.exhausted
    /\ epoch' = PublishedEpoch
    /\ open' = TRUE
    /\ capacity' = initial
    /\ generations' = [i \in 0 .. initial - 1 |-> PublishedEpoch.next]
    /\ states' = [i \in 0 .. initial - 1 |-> "Free"]
    /\ freeList' = FreeRange(0, initial)
    /\ count' = 0
    /\ initialGeneration' = PublishedEpoch.next
    /\ UNCHANGED <<walk, held, dead>>

(* ... whose first growth finds no memory: pool_release without advancing *)
(* the epoch, which stays published.                                       *)
InitExFails ==
    /\ ~open
    /\ ~epoch.exhausted
    /\ \E initial \in InitialCapacities : initial > 0
    /\ epoch' = PublishedEpoch
    /\ UNCHANGED <<pool, walk, held, dead>>

(* ... refused because no generation is left. *)
InitExRefused == ~open /\ epoch.exhausted /\ UNCHANGED vars

(* tc_pool_free: the epoch moves above every generation of the pool, and  *)
(* the structure is zeroed.                                                *)
FreePool ==
    /\ open
    /\ \/ capacity = 0 /\ epoch' = epoch
       \/ \E top \in Slots :
            /\ \A i \in Slots : generations[i] <= generations[top]
            /\ epoch' = AdvancedEpoch(generations[top])
    /\ open' = FALSE
    /\ capacity' = 0
    /\ generations' = [i \in {} |-> 0]
    /\ states' = [i \in {} |-> "Free"]
    /\ freeList' = <<>>
    /\ count' = 0
    /\ initialGeneration' = 0
    /\ held' = {}
    /\ dead' = dead \union held
    /\ UNCHANGED walk

(* A plausible bug: clearing counts the retired slots among the free      *)
(* ones.                                                                  *)
MutantRebuilt(list, slotStates) ==
    /\ \A j, k \in DOMAIN list : j < k => list[j] < list[k]
    /\ {list[k] : k \in DOMAIN list} = {i \in Slots : slotStates[i] # "Occupied"}

(* The order in which tc_pool_clear lists the free slots again. *)
Rebuilt(list, slotStates) ==
    /\ \A j, k \in DOMAIN list : j < k => list[j] < list[k]
    /\ {list[k] : k \in DOMAIN list} = {i \in Slots : slotStates[i] = "Free"}

(* tc_pool_clear *)
Clear ==
    /\ open
    /\ generations' = [i \in Slots |->
          IF states[i] = "Occupied" THEN ReleasedGeneration(generations[i])
          ELSE generations[i]]
    /\ states' = [i \in Slots |->
          IF states[i] = "Occupied" THEN ReleasedState(generations[i])
          ELSE states[i]]
    /\ \E n \in 0 .. capacity : \E list \in [1 .. n -> Slots] :
          Rebuilt(list, states') /\ freeList' = list
    /\ count' = 0
    /\ held' = {}
    /\ dead' = dead \union held
    /\ UNCHANGED <<open, capacity, initialGeneration, epoch, walk>>

(* The end of tc_pool_alloc: pop the list of a pool with these arrays. *)
Take(list, slotGenerations, slotStates) ==
    LET index == list[Len(list)]
    IN  /\ freeList' = SubSeq(list, 1, Len(list) - 1)
        /\ generations' = slotGenerations
        /\ states' = [slotStates EXCEPT ![index] = "Occupied"]
        /\ count' = count + 1
        /\ held' = held \union {Handle(index, slotGenerations[index])}
        /\ UNCHANGED <<open, initialGeneration, epoch, walk, dead>>

Alloc ==
    /\ open
    /\ freeList # <<>>
    /\ Take(freeList, generations, states)
    /\ UNCHANGED capacity

(* tc_pool_alloc that has to grow first. *)
AllocGrows ==
    /\ open
    /\ freeList = <<>>
    /\ capacity < MaxCapacity
    /\ capacity' = Growth(capacity)
    /\ Take(FreeRange(capacity, Growth(capacity)),
            Extended(generations, Growth(capacity), initialGeneration),
            Extended(states, Growth(capacity), "Free"))

(* tc_pool_free_slot with a handle the pool accepts. *)
FreeSlot(h) ==
    /\ Valid(h)
    /\ generations' = [generations EXCEPT ![h.index] = ReleasedGeneration(@)]
    /\ states' = [states EXCEPT ![h.index] = ReleasedState(generations[h.index])]
    /\ freeList' = IF ReleasedState(generations[h.index]) = "Free"
                   THEN Append(freeList, h.index) ELSE freeList
    /\ count' = count - 1
    /\ held' = held \ {h}
    /\ dead' = dead \union {h}
    /\ UNCHANGED <<open, capacity, initialGeneration, epoch, walk>>

-----------------------------------------------------------------------------
(* tc_pool_foreach.  The operations above may happen between its steps,    *)
(* called by the callback.                                                  *)

ForeachStart ==
    /\ walk.status # "visiting"
    /\ walk' = [status |-> "visiting", at |-> 0, since |-> held, seen |-> {}]
    /\ UNCHANGED <<pool, epoch, held, dead>>

(* A plausible bug: the loop skips the slot after the one it called back  *)
(* for.                                                                   *)
MutantForeachVisit(i) ==
    /\ walk.status = "visiting"
    /\ walk.at <= i
    /\ states[i] = "Occupied"
    /\ \A k \in walk.at .. i - 1 : states[k] # "Occupied"
    /\ walk' = [status |-> "visiting",
                at |-> IF i + 2 > MaxCapacity THEN MaxCapacity ELSE i + 2,
                since |-> walk.since,
                seen |-> walk.seen \union {Handle(i, generations[i])}]
    /\ UNCHANGED <<pool, epoch, held, dead>>

(* The scan reaches the next occupied slot and calls back for it. *)
ForeachVisit(i) ==
    /\ walk.status = "visiting"
    /\ walk.at <= i
    /\ states[i] = "Occupied"
    /\ \A k \in walk.at .. i - 1 : states[k] # "Occupied"
    /\ walk' = [status |-> "visiting", at |-> i + 1, since |-> walk.since,
                seen |-> walk.seen \union {Handle(i, generations[i])}]
    /\ UNCHANGED <<pool, epoch, held, dead>>

(* The callback returned false. *)
ForeachStop ==
    /\ walk.status = "visiting"
    /\ walk.at > 0
    /\ walk' = NoWalk
    /\ UNCHANGED <<pool, epoch, held, dead>>

ForeachEnd ==
    /\ walk.status = "visiting"
    /\ \A k \in walk.at .. capacity - 1 : states[k] # "Occupied"
    /\ walk' = [status |-> "complete", at |-> 0, since |-> walk.since,
                seen |-> walk.seen]
    /\ UNCHANGED <<pool, epoch, held, dead>>

-----------------------------------------------------------------------------
Next ==
    \/ \E initial \in InitialCapacities : InitEx(initial)
    \/ InitExFails
    \/ InitExRefused
    \/ FreePool
    \/ Clear
    \/ Alloc
    \/ AllocGrows
    \/ \E h \in held \union dead : FreeSlot(h)
    \/ ForeachStart
    \/ \E i \in Slots : ForeachVisit(i)
    \/ ForeachStop
    \/ ForeachEnd

Spec == Init /\ [][Next]_vars

-----------------------------------------------------------------------------
(* The types of the variables; arrays have one entry per slot. *)
TypeOK ==
    /\ open \in BOOLEAN
    /\ capacity \in 0 .. MaxCapacity
    /\ generations \in [Slots -> Generation]
    /\ states \in [Slots -> SlotStates]
    /\ freeList \in Seq(Slots)
    /\ count \in Nat
    /\ initialGeneration \in Generation
    /\ epoch \in [next : Generation, initialized : BOOLEAN, exhausted : BOOLEAN]
    /\ walk \in [status : {"none", "visiting", "complete"}, at : 0 .. MaxCapacity,
                 since : SUBSET Handles, seen : SUBSET Handles]
    /\ held \in SUBSET Handles
    /\ dead \in SUBSET Handles

(* A handle that was given up (by tc_pool_free_slot, tc_pool_clear or the  *)
(* destruction of its pool) is never accepted again: not by the slot's     *)
(* next owner, not after the slot's generations ran out, not by the pool   *)
(* a later bootstrap creates (tc_pool.h:21-24, 65-66).                     *)
StaleStaysStale == \A h \in dead : ~Valid(h)

(* The other half: a handle stays acceptable as long as its object is not  *)
(* given up, and no slot is occupied for an object nobody has a handle of. *)
HeldIsValid == held = ValidHandles

(* The free list names every free slot exactly once.  A slot listed twice  *)
(* is given to two objects; a slot not listed is lost.                     *)
FreeListExact ==
    /\ \A j, k \in DOMAIN freeList : freeList[j] = freeList[k] => j = k
    /\ {freeList[k] : k \in DOMAIN freeList} = {i \in Slots : states[i] = "Free"}

(* tc_pool_count tells the number of objects. *)
CountExact == count = Cardinality({i \in Slots : states[i] = "Occupied"})

(* tc_pool_foreach that was not stopped has called back for every object   *)
(* that lived all along, whatever its callbacks created, released, cleared *)
(* or recreated under it.                                                  *)
WalkComplete == walk.status = "complete" => walk.since \intersect held \subseteq walk.seen

(* The handles the code accepts behave as the abstract table of handles    *)
(* says: issued once, revoked once and for all.                            *)
Validity == INSTANCE HandleTable WITH valid <- ValidHandles, spent <- dead
ImplementsHandleTable == Validity!Spec
=============================================================================
