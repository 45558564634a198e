----------------------------- MODULE EntityPool -----------------------------
(***************************************************************************)
(* The entity pools of scenes (termin-scene, tc_entity_pool.c): slots with *)
(* generations, the hierarchy, the components an entity owns, uuids, and   *)
(* migration of a subtree to the pool of another scene.                    *)
(*                                                                         *)
(* One thread; but an operation calls the host in the middle: on_removed   *)
(* before a component is taken off its entity, on_added once it is on, an  *)
(* event once an entity is out of the tree and not yet dead, on_destroy    *)
(* when the whole pool goes.  The host may call the pool from there.  The  *)
(* operations that have work left after a callback are frames of a stack,  *)
(* and the host runs when the top frame stands in a callback, or when      *)
(* there is none.                                                          *)
(*                                                                         *)
(* What the code leaves to the host, and does not check, is stated in      *)
(* "The discipline of the host": the rules an operation beneath relies on. *)
(* A call on a dead id, and one refused at once, changes nothing and is    *)
(* not a step.  Left out: transforms, flags, names, pick ids, the wrap of  *)
(* a 32-bit generation, pools of no scene.                                 *)
(***************************************************************************)
EXTENDS EntityRows

CONSTANTS
    InitialSlots,   \* capacity of a new pool
    MaxGeneration,  \* bound: how often one slot is reused
    MaxDepth,       \* bound: operations begun in callbacks of one another
    Uuids, NoUuid,
    Components,
    Types, TypeOf,  \* component types, and the type of a component
    Needs,          \* tc_component_registry_requirement_at, in order
    MigratesRows,   \* the host migrates entities with data-only components
    NoId, NoComponent, NoOwner, NoPool

ASSUME PoolAssumption ==
    /\ NoPool \notin Pools /\ NoUuid \notin Uuids
    /\ InitialSlots \in 1..MaxSlots /\ MaxGeneration \in Nat /\ MaxDepth \in Nat
    /\ NoComponent \notin Components /\ NoId \notin Ids /\ NoId \notin Pools \X Ids
    /\ NoOwner \notin Pools \X Ids
    /\ TypeOf \in [Components -> Types] /\ Needs \in [Types -> Seq(Types)]
    /\ MigratesRows \in BOOLEAN

VARIABLES
    open,       \* the pools not destroyed
    cap,        \* capacity
    free,       \* free_stack, the top last
    gen,        \* generations
    alive,
    uuid,       \* uuids
    byUuid,     \* by_uuid
    parent,     \* parent_ids
    children,
    roots,
    strays,     \* history: the entities moved in the tree while they were freed
    comps,      \* the components array of a slot
    born,       \* the components that exist
    owner,      \* tc_component.owner: pool and id
    registered, \* tc_component.lifecycle_scene, as the pool of that scene
    refs,       \* reference count of a component
    held,       \* the components the host holds a reference to
    retained,   \* factory_retained
    frames      \* the operations in progress, the innermost last

slotVars == <<open, cap, free, gen, alive>>
uuidVars == <<uuid, byUuid>>
treeVars == <<parent, children, roots, strays>>
lifeVars == <<born, refs, held, retained>>
componentVars == <<comps, owner, registered, lifeVars>>
vars == <<slotVars, uuidVars, treeVars, componentVars, frames, rowVars>>

-----------------------------------------------------------------------------
(* The operations in progress. *)

Frame(op, p, id) ==
    [op |-> op, stage |-> "begin", pool |-> p, id |-> id,
     old |-> NoId,          \* free: the parent when the operation began;
                            \* migrate: the copy of a child, to go under this one
     comp |-> NoComponent,  \* the component being worked on
     other |-> NoComponent, \* replace: the second one; else one to release
     at |-> 0,              \* a position in an array
     to |-> NoPool, copy |-> NoId,  \* migrate: the entity in the new pool
     made |-> FALSE]        \* begun by the frame beneath, not by the host

Depth == Len(frames)
Top == frames[Depth]
Pushed(f) == Append(frames, f)
Popped == Front(frames)
At(op, stage) == frames # <<>> /\ Top.op = op /\ Top.stage = stage
Became(f) == frames' = [frames EXCEPT ![Depth] = f]
To(stage) == Became([Top EXCEPT !.stage = stage])

Running == ToSet(frames)

(* The stages in which the host's code runs. *)
Callbacks == {"removing", "added", "published", "destroying"}
HostRuns == frames # <<>> => Top.stage \in Callbacks
MayBegin == HostRuns /\ Depth < MaxDepth

-----------------------------------------------------------------------------
(* Entities. *)

IdAt(p, s) == <<s, gen[p][s]>>
Alive(p, id) == id # NoId /\ alive[p][Slot(id)] /\ gen[p][Slot(id)] = Generation(id)
Live(p) == {IdAt(p, s) : s \in {s \in Slots : alive[p][s]}}

(* Out of the tree, its destruction announced, and not dead yet. *)
Leaving(p) == {f.id : f \in {f \in Running : f.op = "free" /\ f.stage = "published" /\ f.pool = p}}
Dying(p) == {f.id : f \in {f \in Running : f.op = "free" /\ f.pool = p}}
Usable(p) == IF p \in open THEN Live(p) \ Leaving(p) ELSE {}

(* id, its parent, the parent of that, ...: what every set of entities     *)
(* contains that has id and, with an entity, its parent.                   *)
Chain(p, id) ==
    {x \in Live(p) :
        \A C \in SUBSET Live(p) :
            /\ id \in C
            /\ \A y \in C : Alive(p, parent[p][Slot(y)]) => parent[p][Slot(y)] \in C
            => x \in C}

Subtree(p, id) == {x \in Live(p) : id \in Chain(p, x)}

(* Owners *)
Has(p, id, t) == \E i \in 1..Len(comps[p][Slot(id)]) : TypeOf[comps[p][Slot(id)][i]] = t

-----------------------------------------------------------------------------
(* The discipline of the host. *)

(* A component some operation is working on is left alone. *)
Working == UNION {{f.comp} \cup (IF f.stage = "removing" THEN {f.other} ELSE {}) : f \in Running}

(* An entity some operation is working on is neither freed nor migrated. *)
Busy(p) == {f.id : f \in {f \in Running : f.pool = p /\ f.op # "destroy"}}

(* The array of components of an entity is not shortened or reordered      *)
(* while a replacement holds a position in it: while it removes.           *)
Settled(p, id) ==
    ~\E f \in Running : f.op = "replace" /\ f.stage = "removing" /\ f.pool = p /\ f.id = id

(* The pool does not grow, which moves every array of it, while an         *)
(* operation holds a pointer into one across a callback.                   *)
MayGrow(p) ==
    ~\E f \in Running : f.op \in {"free", "replace"} /\ f.stage = "removing" /\ f.pool = p

(* Nothing is created in a pool that is being destroyed. *)
MayCreate(p) ==
    /\ p \in open
    /\ ~\E f \in Running : f.op = "destroy" /\ f.pool = p
    /\ free[p] # <<>> \/ (MayGrow(p) /\ 2 * cap[p] <= MaxSlots)

(* Bounds: the entities a pool can take, and the reuse of a slot. *)
Room(p) == Len(free[p]) + IF MayGrow(p) THEN MaxSlots - cap[p] ELSE 0
MayDie(id) == Generation(id) < MaxGeneration

-----------------------------------------------------------------------------
Init ==
    /\ open = Pools
    /\ cap = [p \in Pools |-> InitialSlots]
    /\ free = [p \in Pools |-> [i \in 1..InitialSlots |-> InitialSlots - i]]
    /\ gen = [p \in Pools |-> [s \in Slots |-> 0]]
    /\ alive = [p \in Pools |-> [s \in Slots |-> FALSE]]
    /\ uuid = [p \in Pools |-> [s \in Slots |-> NoUuid]]
    /\ byUuid = [p \in Pools |-> [u \in Uuids |-> NoId]]
    /\ parent = [p \in Pools |-> [s \in Slots |-> NoId]]
    /\ children = [p \in Pools |-> [s \in Slots |-> <<>>]]
    /\ roots = [p \in Pools |-> <<>>]
    /\ strays = [p \in Pools |-> {}]
    /\ comps = [p \in Pools |-> [s \in Slots |-> <<>>]]
    /\ born = {}
    /\ owner = [c \in Components |-> NoOwner]
    /\ registered = [c \in Components |-> NoPool]
    /\ refs = [c \in Components |-> 0]
    /\ held = {}
    /\ retained = [c \in Components |-> FALSE]
    /\ frames = <<>>
    /\ RowsInit

-----------------------------------------------------------------------------
(* Creation. *)

(* A plausible bug: the new slots are counted from one. *)
MutantGrown(p) == [i \in 1..cap[p] |-> 2 * cap[p] - i + 1]

(* pool_grow: twice the slots, the new ones pushed so that the lowest is   *)
(* on top.                                                                 *)
Grown(p) == [i \in 1..cap[p] |-> 2 * cap[p] - i]
Stack(p) == IF free[p] = <<>> THEN Grown(p) ELSE free[p]
NextSlot(p) == Last(Stack(p))
NextId(p) == IdAt(p, NextSlot(p))

(* tc_entity_pool_alloc_with_uuid, up to the event. *)
Allocate(p, u) ==
    LET s == NextSlot(p)
        id == NextId(p)
    IN  /\ cap' = [cap EXCEPT ![p] = IF free[p] = <<>> THEN 2 * @ ELSE @]
        /\ free' = [free EXCEPT ![p] = Front(Stack(p))]
        /\ alive' = [alive EXCEPT ![p][s] = TRUE]
        /\ uuid' = [uuid EXCEPT ![p][s] = u]
        /\ byUuid' = [byUuid EXCEPT ![p][u] = id]
        /\ parent' = [parent EXCEPT ![p][s] = NoId]
        /\ children' = [children EXCEPT ![p][s] = <<>>]
        /\ comps' = [comps EXCEPT ![p][s] = <<>>]
        /\ roots' = [roots EXCEPT ![p] = Append(@, id)]
        /\ ForgetRow(p, s)
        /\ UNCHANGED <<open, gen, strays>>

(* A uuid that is given is refused when it is taken; one that is made up   *)
(* is new.                                                                 *)
Alloc(p, u) ==
    /\ HostRuns
    /\ MayCreate(p)
    /\ byUuid[p][u] = NoId
    /\ Allocate(p, u)
    /\ UNCHANGED <<owner, registered, lifeVars, frames>>

(* A plausible bug: the old uuid still finds the entity. *)
MutantSetUuid(p, id, u) ==
    /\ HostRuns
    /\ id \in Usable(p)
    /\ byUuid[p][u] = NoId
    /\ byUuid' = [byUuid EXCEPT ![p][u] = id]
    /\ uuid' = [uuid EXCEPT ![p][Slot(id)] = u]
    /\ UNCHANGED <<slotVars, treeVars, componentVars, frames, rowVars>>

(* tc_entity_pool_set_uuid.  The code accepts a uuid another entity has,   *)
(* and that one is not found by it any more: the host brings a new one.    *)
SetUuid(p, id, u) ==
    /\ HostRuns
    /\ id \in Usable(p)
    /\ byUuid[p][u] = NoId
    /\ byUuid' = [byUuid EXCEPT ![p][uuid[p][Slot(id)]] = NoId, ![p][u] = id]
    /\ uuid' = [uuid EXCEPT ![p][Slot(id)] = u]
    /\ UNCHANGED <<slotVars, treeVars, componentVars, frames, rowVars>>

-----------------------------------------------------------------------------
(* The hierarchy. *)

(* A plausible bug: the parent is taken for alive because there was one. *)
MutantWithout(lists, old, id, isAlive) ==
    IF old # NoId
    THEN [lists EXCEPT !.kids[Slot(old)] = RemoveFirst(@, id)]
    ELSE [lists EXCEPT !.top = RemoveFirst(@, id)]

(* The list id stands in, with `kids` and `top` the children arrays and    *)
(* the roots of its pool: out of it, or at the end of the list of q.       *)
Without(lists, old, id, isAlive) ==
    IF old # NoId /\ isAlive
    THEN [lists EXCEPT !.kids[Slot(old)] = RemoveFirst(@, id)]
    ELSE [lists EXCEPT !.top = RemoveFirst(@, id)]

Under(lists, q, id) ==
    IF q # NoId
    THEN [lists EXCEPT !.kids[Slot(q)] = Append(@, id)]
    ELSE [lists EXCEPT !.top = Append(@, id)]

Lists(p) == [kids |-> children[p], top |-> roots[p]]

SetLists(p, lists) ==
    /\ children' = [children EXCEPT ![p] = lists.kids]
    /\ roots' = [roots EXCEPT ![p] = lists.top]

(* The history of what a callback does to an entity being freed. *)
Astray(p, id) == strays' = IF id \in Dying(p) THEN [strays EXCEPT ![p] = @ \cup {id}] ELSE strays

(* A plausible bug: an entity may go below one of its own children. *)
MutantSetParent(p, id, q) ==
    LET old == parent[p][Slot(id)]
    IN  /\ HostRuns
        /\ id \in Usable(p) /\ q \in (Usable(p) \cup {NoId}) \ {id, old}
        /\ SetLists(p, Under(Without(Lists(p), old, id, Alive(p, old)), q, id))
        /\ parent' = [parent EXCEPT ![p][Slot(id)] = q]
        /\ Astray(p, id)
        /\ UNCHANGED <<slotVars, uuidVars, componentVars, frames, rowVars>>

(* tc_entity_pool_set_parent_checked: refused below itself.  An entity     *)
(* that is being freed may be moved like any other.                        *)
SetParent(p, id, q) ==
    LET old == parent[p][Slot(id)]
    IN  /\ HostRuns
        /\ id \in Usable(p) /\ q \in Usable(p) \cup {NoId}
        /\ old # q
        /\ q # NoId => id \notin Chain(p, q)
        /\ SetLists(p, Under(Without(Lists(p), old, id, Alive(p, old)), q, id))
        /\ parent' = [parent EXCEPT ![p][Slot(id)] = q]
        /\ Astray(p, id)
        /\ UNCHANGED <<slotVars, uuidVars, componentVars, frames, rowVars>>

(* entity_id_array_move, component_array_move *)
Moved(list, x, k) == InsertAt(RemoveFirst(list, x), k, x)

(* tc_entity_pool_set_sibling_index *)
SetSiblingIndex(p, id, k) ==
    LET q == parent[p][Slot(id)]
        list == IF Alive(p, q) THEN children[p][Slot(q)] ELSE roots[p]
        moved == Moved(list, id, k)
    IN  /\ HostRuns
        /\ id \in Usable(p)
        /\ k \in 1..Len(list) /\ list[k] # id
        /\ IF Alive(p, q)
           THEN children' = [children EXCEPT ![p][Slot(q)] = moved] /\ UNCHANGED roots
           ELSE roots' = [roots EXCEPT ![p] = moved] /\ UNCHANGED children
        /\ UNCHANGED <<slotVars, uuidVars, parent, strays, componentVars, frames, rowVars>>

-----------------------------------------------------------------------------
(* Components: the scene's side and the references. *)

(* tc_scene_register_component, tc_scene_unregister_component: refused     *)
(* when the component belongs to another scene.                            *)
Registered(reg, p, c) == IF reg[c] \in open \ {p} THEN reg ELSE [reg EXCEPT ![c] = p]
Unregistered(p, c) ==
    IF registered[c] \in open \ {p} THEN registered ELSE [registered EXCEPT ![c] = NoPool]

(* A plausible bug: what a factory retained is retained again. *)
MutantRetain(c) ==
    /\ refs' = [refs EXCEPT ![c] = @ + 1]
    /\ retained' = [retained EXCEPT ![c] = FALSE]
    /\ UNCHANGED <<born, held>>

(* tc_component_retain, unless the factory did. *)
Retain(c) ==
    /\ refs' = [refs EXCEPT ![c] = IF retained[c] THEN @ ELSE @ + 1]
    /\ retained' = [retained EXCEPT ![c] = FALSE]
    /\ UNCHANGED <<born, held>>

(* tc_component_release deletes the component with its last reference. *)
Release(c) ==
    /\ refs' = [refs EXCEPT ![c] = @ - 1]
    /\ born' = IF refs[c] = 1 THEN born \ {c} ELSE born

(* The host makes a component and holds it, takes a reference to one an    *)
(* entity has, or lets one go.                                             *)
CreateComponent(c) ==
    /\ HostRuns
    /\ c \notin born
    /\ born' = born \cup {c}
    /\ refs' = [refs EXCEPT ![c] = 1]
    /\ held' = held \cup {c}
    /\ UNCHANGED <<slotVars, uuidVars, treeVars, comps, owner, registered, retained, frames, rowVars>>

TakeReference(c) ==
    /\ HostRuns
    /\ owner[c] # NoOwner /\ c \notin held
    /\ refs' = [refs EXCEPT ![c] = @ + 1]
    /\ held' = held \cup {c}
    /\ UNCHANGED <<slotVars, uuidVars, treeVars, comps, owner, registered, born, retained, frames, rowVars>>

LetGo(c) ==
    /\ HostRuns
    /\ c \in held
    /\ c \in Working => refs[c] > 1
    /\ held' = held \ {c}
    /\ Release(c)
    /\ UNCHANGED <<slotVars, uuidVars, treeVars, comps, owner, registered, retained, frames, rowVars>>

-----------------------------------------------------------------------------
(* Adding: tc_entity_pool_add_component_checked, with the components it    *)
(* requires made and added first, each by a frame of its own.              *)

AddComponent(p, id, c) ==
    /\ MayBegin
    /\ id \in Usable(p)
    /\ c \in born \ Working /\ owner[c] = NoOwner
    /\ frames' = Pushed([Frame("add", p, id) EXCEPT !.comp = c, !.at = 1, !.stage = "resolving"])
    /\ UNCHANGED <<slotVars, uuidVars, treeVars, componentVars, rowVars>>

(* The add the host began and the ones it made, all waiting for the top:   *)
(* resolving_stack.                                                        *)
Base == CHOOSE b \in 1..Depth :
            /\ ~frames[b].made
            /\ \A i \in (b + 1)..Depth : frames[i].made
Resolving == {frames[i] : i \in Base..Depth}
Required == Needs[TypeOf[Top.comp]]

(* The requirement is there already. *)
SkipRequirement ==
    /\ At("add", "resolving")
    /\ Top.at <= Len(Required)
    /\ Has(Top.pool, Top.id, Required[Top.at])
    /\ Became([Top EXCEPT !.at = @ + 1])
    /\ UNCHANGED <<slotVars, uuidVars, treeVars, componentVars, rowVars>>

(* tc_component_registry_create; a factory may retain what it makes. *)
MakeRequirement(d, retains) ==
    /\ At("add", "resolving")
    /\ Top.at <= Len(Required)
    /\ ~Has(Top.pool, Top.id, Required[Top.at])
    /\ d \notin born /\ TypeOf[d] = Required[Top.at]
    /\ TypeOf[d] \notin {TypeOf[f.comp] : f \in Resolving}
    /\ born' = born \cup {d}
    /\ refs' = [refs EXCEPT ![d] = IF retains THEN 1 ELSE 0]
    /\ retained' = [retained EXCEPT ![d] = retains]
    /\ frames' = Pushed([Frame("add", Top.pool, Top.id) EXCEPT
                            !.comp = d, !.at = 1, !.stage = "resolving", !.made = TRUE])
    /\ UNCHANGED <<slotVars, uuidVars, treeVars, comps, owner, registered, held, rowVars>>

(* The factory fails, or the requirement closes a cycle and is dropped at  *)
(* once: everything waiting is given up and what was made is dropped.      *)
(* Requirements added before stay.                                         *)
FailRequirement ==
    LET dropped == {f.comp : f \in {f \in Resolving : f.made}}
    IN  /\ At("add", "resolving")
        /\ Top.at <= Len(Required)
        /\ ~Has(Top.pool, Top.id, Required[Top.at])
        /\ frames' = SubSeq(frames, 1, Base - 1)
        /\ born' = born \ dropped
        /\ refs' = [c \in Components |-> IF c \in dropped THEN 0 ELSE refs[c]]
        /\ retained' = [c \in Components |-> retained[c] /\ c \notin dropped]
        /\ UNCHANGED <<slotVars, uuidVars, treeVars, comps, owner, registered, held, rowVars>>

(* tc_entity_pool_add_component_raw, up to on_added. *)
AddRaw ==
    LET p == Top.pool
        c == Top.comp
    IN  /\ At("add", "resolving")
        /\ Top.at > Len(Required)
        /\ owner' = [owner EXCEPT ![c] = <<p, Top.id>>]
        /\ comps' = [comps EXCEPT ![p][Slot(Top.id)] = Append(@, c)]
        /\ registered' = Registered(registered, p, c)
        /\ Retain(c)
        /\ To("added")
        /\ UNCHANGED <<slotVars, uuidVars, treeVars, rowVars>>

AddReturn ==
    /\ At("add", "added")
    /\ frames' = IF Top.made
                 THEN [Popped EXCEPT ![Depth - 1].at = @ + 1]
                 ELSE Popped
    /\ UNCHANGED <<slotVars, uuidVars, treeVars, componentVars, rowVars>>

-----------------------------------------------------------------------------
(* Removing: tc_entity_pool_remove_component. *)

(* Off the scene, then on_removed and on_removed_from_entity. *)
BeginRemoval(f, p, c) ==
    /\ frames' = Pushed([f EXCEPT !.comp = c, !.stage = "removing"])
    /\ registered' = Unregistered(p, c)
    /\ UNCHANGED <<slotVars, uuidVars, treeVars, comps, owner, lifeVars, rowVars>>

RemoveComponent(p, id, c) ==
    /\ MayBegin
    /\ id \in Usable(p) /\ Settled(p, id)
    /\ owner[c] = <<p, id>> /\ c \notin Working
    /\ BeginRemoval(Frame("remove", p, id), p, c)

(* The component leaves its entity. *)
Detach(p, id, c) ==
    /\ owner' = [owner EXCEPT ![c] = NoOwner]
    /\ comps' = [comps EXCEPT ![p][Slot(id)] = RemoveFirst(@, c)]

RemoveReturn ==
    /\ At("remove", "removing")
    /\ Detach(Top.pool, Top.id, Top.comp)
    /\ Became([Top EXCEPT !.stage = "published", !.comp = NoComponent, !.other = Top.comp])
    /\ UNCHANGED <<slotVars, uuidVars, treeVars, registered, lifeVars, rowVars>>

RemoveEnd ==
    /\ At("remove", "published")
    /\ Release(Top.other)
    /\ frames' = Popped
    /\ UNCHANGED <<slotVars, uuidVars, treeVars, comps, owner, registered, held, retained, rowVars>>

-----------------------------------------------------------------------------
(* Replacing: tc_entity_pool_replace_component_at_checked. *)

ReplaceComponent(p, id, k, new) ==
    LET expected == comps[p][Slot(id)][k]
    IN  /\ MayBegin
        /\ id \in Usable(p) /\ Settled(p, id)
        /\ k \in 1..Len(comps[p][Slot(id)])
        /\ owner[expected] = <<p, id>> /\ expected \notin Working
        /\ new \in born \ Working /\ owner[new] = NoOwner
        /\ BeginRemoval([Frame("replace", p, id) EXCEPT !.other = new, !.at = k], p, expected)

(* Ownership changes hands, and the new component is called. *)
ReplaceReturn ==
    LET p == Top.pool
        expected == Top.comp
        new == Top.other
    IN  /\ At("replace", "removing")
        /\ owner' = [owner EXCEPT ![expected] = NoOwner, ![new] = <<p, Top.id>>]
        /\ comps' = [comps EXCEPT ![p][Slot(Top.id)][Top.at] = new]
        /\ registered' = Registered(registered, p, new)
        /\ Retain(new)
        /\ Became([Top EXCEPT !.stage = "added", !.comp = new, !.other = expected])
        /\ UNCHANGED <<slotVars, uuidVars, treeVars, rowVars>>

ReplaceEnd ==
    /\ At("replace", "added")
    /\ Release(Top.other)
    /\ frames' = Popped
    /\ UNCHANGED <<slotVars, uuidVars, treeVars, comps, owner, registered, held, retained, rowVars>>

(* tc_entity_pool_set_component_index *)
SetComponentIndex(p, id, c, k) ==
    LET list == comps[p][Slot(id)]
    IN  /\ HostRuns
        /\ id \in Usable(p) /\ Settled(p, id)
        /\ owner[c] = <<p, id>>
        /\ k \in 1..Len(list) /\ list[k] # c
        /\ comps' = [comps EXCEPT ![p][Slot(id)] = Moved(@, c, k)]
        /\ UNCHANGED <<slotVars, uuidVars, treeVars, owner, registered, lifeVars, frames, rowVars>>

-----------------------------------------------------------------------------
(* Freeing: tc_entity_pool_free. *)

Free(p, id) ==
    /\ MayBegin
    /\ id \in Usable(p) \ Busy(p)
    /\ MayDie(id)
    /\ frames' = Pushed([Frame("free", p, id) EXCEPT !.old = parent[p][Slot(id)]])
    /\ UNCHANGED <<slotVars, uuidVars, treeVars, componentVars, rowVars>>

(* The first component that is left. *)
FreeComponent ==
    LET c == Head(comps[Top.pool][Slot(Top.id)])
    IN  /\ At("free", "begin")
        /\ comps[Top.pool][Slot(Top.id)] # <<>>
        /\ registered' = Unregistered(Top.pool, c)
        /\ Became([Top EXCEPT !.comp = c, !.stage = "removing"])
        /\ UNCHANGED <<slotVars, uuidVars, treeVars, comps, owner, lifeVars, rowVars>>

FreeComponentReturn ==
    /\ At("free", "removing")
    /\ Detach(Top.pool, Top.id, Top.comp)
    /\ Release(Top.comp)
    /\ Became([Top EXCEPT !.comp = NoComponent, !.stage = "begin"])
    /\ UNCHANGED <<slotVars, uuidVars, treeVars, registered, held, retained, rowVars>>

(* The entries of a list that are alive, in order. *)
Survivors(p, list) ==
    LET I == {i \in 1..Len(list) : Alive(p, list[i])}
        Nth(k) == CHOOSE i \in I : Cardinality(I \cap (1..i)) = k
    IN  [k \in 1..Cardinality(I) |-> list[Nth(k)]]

(* Out of the tree, the children made roots, out of the maps and the row:  *)
(* then the event.                                                         *)
FreeUnlink ==
    LET p == Top.pool
        s == Slot(Top.id)
        out == Without(Lists(p), Top.old, Top.id, Alive(p, Top.old))
        kids == Survivors(p, out.kids[s])
    IN  /\ At("free", "begin")
        /\ comps[p][s] = <<>>
        /\ SetLists(p, [kids |-> [out.kids EXCEPT ![s] = <<>>], top |-> out.top \o kids])
        /\ parent' = [parent EXCEPT ![p] = [x \in Slots |->
                         IF \E i \in 1..Len(kids) : Slot(kids[i]) = x THEN NoId ELSE parent[p][x]]]
        /\ uuid' = [uuid EXCEPT ![p][s] = NoUuid]
        /\ byUuid' = [byUuid EXCEPT ![p][uuid[p][s]] = NoId]
        /\ DropRow(p, Top.id)
        /\ To("published")
        /\ UNCHANGED <<slotVars, strays, componentVars>>

(* The slot is dead and goes back on the stack. *)
Bury(p, s) ==
    /\ alive' = [alive EXCEPT ![p][s] = FALSE]
    /\ gen' = [gen EXCEPT ![p][s] = @ + 1]
    /\ free' = [free EXCEPT ![p] = Append(@, s)]
    /\ UNCHANGED <<open, cap>>

FreeEnd ==
    /\ At("free", "published")
    /\ Bury(Top.pool, Slot(Top.id))
    /\ frames' = Popped
    /\ UNCHANGED <<uuidVars, treeVars, componentVars, rowVars>>

-----------------------------------------------------------------------------
(* The end of a pool: tc_entity_pool_destroy frees every entity in the     *)
(* order of the slots, after on_destroy of its components.                 *)

DestroyPool(p) ==
    /\ MayBegin
    /\ p \in open /\ ~\E f \in Running : p \in {f.pool, f.to}
    /\ frames' = Pushed([Frame("destroy", p, NoId) EXCEPT !.at = 0])
    /\ UNCHANGED <<slotVars, uuidVars, treeVars, componentVars, rowVars>>

DestroyNext ==
    LET p == Top.pool
        left == {s \in Top.at..(cap[p] - 1) : alive[p][s]}
        s == CHOOSE s \in left : \A x \in left : s <= x
    IN  /\ At("destroy", "begin")
        /\ IF left = {}
           THEN /\ open' = open \ {p}
                /\ frames' = Popped
                /\ UNCHANGED <<cap, free, gen, alive>>
           ELSE /\ Became([Top EXCEPT !.stage = "destroying", !.at = s + 1, !.id = IdAt(p, s)])
                /\ UNCHANGED slotVars
        /\ UNCHANGED <<uuidVars, treeVars, componentVars, rowVars>>

(* tc_entity_pool_free of an entity the callbacks have freed does nothing. *)
DestroyEntity ==
    LET p == Top.pool
        next == [Top EXCEPT !.stage = "begin", !.id = NoId]
    IN  /\ At("destroy", "destroying")
        /\ frames' = IF Alive(p, Top.id)
                     THEN [frames EXCEPT ![Depth] = next] \o
                          <<[Frame("free", p, Top.id) EXCEPT !.old = parent[p][Slot(Top.id)],
                                                             !.made = TRUE]>>
                     ELSE [frames EXCEPT ![Depth] = next]
        /\ UNCHANGED <<slotVars, uuidVars, treeVars, componentVars, rowVars>>

-----------------------------------------------------------------------------
(* Moving a subtree to another pool: tc_entity_pool_migrate.  The handlers *)
(* it calls in between leave both pools alone.                             *)

MigrateFrame(p, id, q, isChild) ==
    [Frame("migrate", p, id) EXCEPT !.to = q, !.copy = NextId(q), !.made = isChild]

Migrate(p, id, q) ==
    /\ MayBegin
    /\ p # q /\ MayCreate(q)
    /\ id \in Usable(p) /\ Subtree(p, id) \cap Busy(p) = {}
    /\ Cardinality(Subtree(p, id)) <= Room(q) /\ \A x \in Subtree(p, id) : MayDie(x)
    /\ MigratesRows \/ \A x \in Subtree(p, id) : mask[p][Slot(x)] = {}
    /\ byUuid[q][uuid[p][Slot(id)]] = NoId
    /\ Allocate(q, uuid[p][Slot(id)])
    /\ frames' = Pushed(MigrateFrame(p, id, q, FALSE))
    /\ UNCHANGED <<owner, registered, lifeVars>>

(* The components change owner and scene. *)
MigrateComponents ==
    LET p == Top.pool
        q == Top.to
        moved == comps[p][Slot(Top.id)]
        isMoved(c) == Contains(moved, c)
    IN  /\ At("migrate", "begin")
        /\ owner' = [c \in Components |-> IF isMoved(c) THEN <<q, Top.copy>> ELSE owner[c]]
        /\ registered' = [c \in Components |->
                             IF isMoved(c) THEN Registered([registered EXCEPT ![c] = Unregistered(p, c)[c]], q, c)[c]
                             ELSE registered[c]]
        /\ comps' = [comps EXCEPT ![p][Slot(Top.id)] = <<>>,
                                  ![q][Slot(Top.copy)] = @ \o moved]
        /\ To("children")
        /\ UNCHANGED <<slotVars, uuidVars, treeVars, lifeVars, rowVars>>

FirstChild == Head(children[Top.pool][Slot(Top.id)])

MigrateChild ==
    LET p == Top.pool
        q == Top.to
        u == uuid[p][Slot(FirstChild)]
    IN  /\ At("migrate", "children")
        /\ children[p][Slot(Top.id)] # <<>> /\ Alive(p, FirstChild)
        /\ MayCreate(q)
        /\ byUuid[q][u] = NoId
        /\ Allocate(q, u)
        /\ frames' = Pushed(MigrateFrame(p, FirstChild, q, TRUE))
        /\ UNCHANGED <<owner, registered, lifeVars>>

(* A child that died and is in the list still is dropped from it. *)
MigrateSkip ==
    LET p == Top.pool
    IN  /\ At("migrate", "children")
        /\ children[p][Slot(Top.id)] # <<>> /\ ~Alive(p, FirstChild)
        /\ children' = [children EXCEPT ![p][Slot(Top.id)] = Tail(@)]
        /\ UNCHANGED <<slotVars, uuidVars, parent, roots, strays, componentVars, frames, rowVars>>

(* The uuid of a child is taken: every migration in progress returns the   *)
(* invalid id, and what it did so far stays.                               *)
MigrateAbandon ==
    /\ At("migrate", "children")
    /\ children[Top.pool][Slot(Top.id)] # <<>> /\ Alive(Top.pool, FirstChild)
    /\ byUuid[Top.to][uuid[Top.pool][Slot(FirstChild)]] # NoId
    /\ frames' = SubSeq(frames, 1, Base - 1)
    /\ UNCHANGED <<slotVars, uuidVars, treeVars, componentVars, rowVars>>

(* The source is dead; a migration that made this one goes on with the     *)
(* copy.                                                                   *)
MigrateEnd ==
    LET p == Top.pool
        s == Slot(Top.id)
        old == parent[p][s]
    IN  /\ At("migrate", "children")
        /\ children[p][s] = <<>>
        /\ SetLists(p, Without(Lists(p), old, Top.id, Alive(p, old)))
        /\ uuid' = [uuid EXCEPT ![p][s] = NoUuid]
        /\ byUuid' = [byUuid EXCEPT ![p][uuid[p][s]] = NoId]
        /\ Bury(p, s)
        /\ frames' = IF Top.made
                     THEN [Popped EXCEPT ![Depth - 1] = [@ EXCEPT !.stage = "attach", !.old = Top.copy]]
                     ELSE Popped
        /\ UNCHANGED <<parent, strays, componentVars, rowVars>>

(* The copy of a child goes under the copy of its parent, by               *)
(* tc_entity_pool_set_parent.                                              *)
MigrateAttach ==
    LET q == Top.to
        child == Top.old
    IN  /\ At("migrate", "attach")
        /\ SetLists(q, Under(Without(Lists(q), NoId, child, FALSE), Top.copy, child))
        /\ parent' = [parent EXCEPT ![q][Slot(child)] = Top.copy]
        /\ Became([Top EXCEPT !.stage = "children", !.old = NoId])
        /\ UNCHANGED <<slotVars, uuidVars, strays, componentVars, rowVars>>

-----------------------------------------------------------------------------
(* Data-only components: no callbacks. *)

ChangeRow(p, id) ==
    /\ HostRuns
    /\ id \in Usable(p)
    /\ \E t \in RowTypes : \/ AddSoa(p, id, t)
                           \/ RemoveSoa(p, id, t)
                           \/ \E v \in RowValues : WriteSoa(p, id, t, v)
    /\ UNCHANGED <<slotVars, uuidVars, treeVars, componentVars, frames>>

-----------------------------------------------------------------------------
Host ==
    \/ \E p \in Pools :
        \/ \E u \in Uuids : Alloc(p, u)
        \/ DestroyPool(p)
        \/ \E id \in Usable(p) :
            \/ Free(p, id)
            \/ \E u \in Uuids : SetUuid(p, id, u)
            \/ \E q \in Usable(p) \cup {NoId} : SetParent(p, id, q)
            \/ \E k \in 1..MaxSlots : SetSiblingIndex(p, id, k)
            \/ \E q \in Pools : Migrate(p, id, q)
            \/ ChangeRow(p, id)
            \/ \E c \in Components :
                \/ AddComponent(p, id, c)
                \/ RemoveComponent(p, id, c)
                \/ \E k \in 1..Len(comps[p][Slot(id)]) :
                    \/ ReplaceComponent(p, id, k, c)
                    \/ SetComponentIndex(p, id, c, k)
    \/ \E c \in Components : CreateComponent(c) \/ TakeReference(c) \/ LetGo(c)

Continue ==
    \/ SkipRequirement
    \/ \E d \in Components, retains \in BOOLEAN : MakeRequirement(d, retains)
    \/ FailRequirement \/ AddRaw \/ AddReturn
    \/ RemoveReturn \/ RemoveEnd
    \/ ReplaceReturn \/ ReplaceEnd
    \/ FreeComponent \/ FreeComponentReturn \/ FreeUnlink \/ FreeEnd
    \/ DestroyNext \/ DestroyEntity
    \/ MigrateComponents \/ MigrateChild \/ MigrateSkip \/ MigrateAbandon \/ MigrateEnd \/ MigrateAttach

Next == Host \/ Continue

Spec == Init /\ [][Next]_vars
-----------------------------------------------------------------------------
(* Types. *)

Frames ==
    [op : {"free", "remove", "add", "replace", "migrate", "destroy"},
     stage : {"begin", "resolving", "removing", "added", "published", "destroying", "children", "attach"},
     pool : Pools, id : Ids \cup {NoId}, old : Ids \cup {NoId},
     comp : Components \cup {NoComponent}, other : Components \cup {NoComponent},
     at : Nat, to : Pools \cup {NoPool}, copy : Ids \cup {NoId}, made : BOOLEAN]

(* Every variable holds a value of its kind. *)
TypeOK ==
    /\ open \subseteq Pools
    /\ cap \in [Pools -> 1..MaxSlots]
    /\ free \in [Pools -> Seq(Slots)]
    /\ gen \in [Pools -> [Slots -> Nat]]
    /\ alive \in [Pools -> [Slots -> BOOLEAN]]
    /\ uuid \in [Pools -> [Slots -> Uuids \cup {NoUuid}]]
    /\ byUuid \in [Pools -> [Uuids -> Ids \cup {NoId}]]
    /\ parent \in [Pools -> [Slots -> Ids \cup {NoId}]]
    /\ children \in [Pools -> [Slots -> Seq(Ids)]]
    /\ roots \in [Pools -> Seq(Ids)]
    /\ strays \in [Pools -> SUBSET Ids]
    /\ comps \in [Pools -> [Slots -> Seq(Components)]]
    /\ born \subseteq Components
    /\ owner \in [Components -> (Pools \X Ids) \cup {NoOwner}]
    /\ registered \in [Components -> Pools \cup {NoPool}]
    /\ refs \in [Components -> Nat]
    /\ held \subseteq Components
    /\ retained \in [Components -> BOOLEAN]
    /\ frames \in Seq(Frames)
    /\ RowsTypeOK

-----------------------------------------------------------------------------
(* Correctness. *)

(* The entities in the tree. *)
Linked(p) == Live(p) \ Leaving(p)

(* The free stack holds every dead slot once and no other, so no slot is   *)
(* given to two entities and none is lost; a uuid finds the entity that    *)
(* has it, whatever was reused, renamed or migrated.                       *)
SlotsExact ==
    \A p \in Pools :
        /\ IsInjective(free[p])
        /\ ToSet(free[p]) = {s \in 0..(cap[p] - 1) : ~alive[p][s]}
        /\ \A s \in Slots : alive[p][s] => s < cap[p]
        /\ {<<uuid[p][Slot(id)], id>> : id \in Linked(p)} =
              {<<u, byUuid[p][u]>> : u \in {u \in Uuids : byUuid[p][u] # NoId}}

(* Parents and lists of children say the same: an entity stands once in    *)
(* the list of its parent, or of the roots, and in no other, whatever was  *)
(* moved, freed or migrated in the callbacks; no entity is above itself.   *)
(* Nothing else is in a list, but for the entities that a callback moved   *)
(* while they were freed; the id of such a one is not given again.         *)
Named(p) == ToSet(roots[p]) \cup UNION {ToSet(children[p][s]) : s \in Slots}

ListsExact(p) ==
    LET linked == Linked(p) IN
    /\ \A s \in Slots : IsInjective(children[p][s]) /\ (alive[p][s] \/ children[p][s] = <<>>)
    /\ IsInjective(roots[p])
    /\ {<<parent[p][Slot(x)], x>> : x \in linked} =
          {NoId} \X (ToSet(roots[p]) \cap linked)
          \cup UNION {{IdAt(p, s)} \X (ToSet(children[p][s]) \cap linked) : s \in Slots}
    /\ \A x \in Leaving(p) : children[p][Slot(x)] = <<>>
    /\ \A x \in Named(p) \ linked :
          x \in strays[p] /\ (x \in Leaving(p) \/ Generation(x) < gen[p][Slot(x)])

Acyclic(p) ==
    \A S \in SUBSET {x \in Linked(p) : parent[p][Slot(x)] # NoId} :
        S # {} => \E x \in S : parent[p][Slot(x)] \notin S

ForestExact == \A p \in Pools : ListsExact(p) /\ Acyclic(p)

(* What is owed to a component by operations under way. *)
Owed(c) == Cardinality({i \in 1..Depth : frames[i].other = c /\ frames[i].stage # "removing"})
One(b) == IF b THEN 1 ELSE 0

(* A component is in the array of its owner, once, and in no other; the    *)
(* scene of that pool has it unless it is being removed; it exists while   *)
(* anything refers to it, and its count is the number of those who hold a  *)
(* reference, so it is neither deleted early nor leaked, whatever the      *)
(* callbacks of an add, a removal or a replacement add or take off.        *)
OwnershipExact ==
    /\ \A p \in Pools, s \in Slots :
         /\ IsInjective(comps[p][s])
         /\ ToSet(comps[p][s]) = {c \in Components : alive[p][s] /\ owner[c] = <<p, IdAt(p, s)>>}
    /\ \A c \in Components :
         /\ owner[c] # NoOwner => Alive(owner[c][1], owner[c][2])
         /\ registered[c] =
              IF owner[c] # NoOwner /\ ~\E f \in Running : f.comp = c /\ f.stage = "removing"
              THEN owner[c][1] ELSE NoPool
         /\ refs[c] = One(owner[c] # NoOwner) + One(c \in held) + One(retained[c]) + Owed(c)
         /\ refs[c] > 0 => c \in born
         /\ c \in born => refs[c] > 0 \/ \E f \in Running : f.comp = c /\ f.made
    /\ \A f \in Running : {f.comp, f.other} \subseteq born \cup {NoComponent}

(* An entity with data-only components has one row in the table of its     *)
(* types, and no other row names it.                                       *)
RowOf(p, id) == row[p][Slot(id)]
TableOf(p, id) == mask[p][Slot(id)]

RowsConsistent(p) ==
    {<<TableOf(p, id), RowOf(p, id), id>> : id \in {id \in Linked(p) : TableOf(p, id) # {}}} =
    UNION {{<<m, k, rows[p][m][k]>> : k \in 1..Len(rows[p][m])} : m \in Tables}

(* Its fields are those it was given last, zero until then: whatever rows  *)
(* it and others have moved to since, and whoever had the row before.      *)
FieldsExact ==
    \A p \in Pools : \A id \in Linked(p) : \A t \in TableOf(p, id) :
        memory[p][TableOf(p, id)][RowOf(p, id)][t] = written[p][Slot(id)][t]

(* Rows and entities agree and every field is where its entity finds it.   *)
RowsExact == (\A p \in Pools : RowsConsistent(p)) /\ FieldsExact

(* What the hierarchy promises, whatever the lists it is kept in: what is  *)
(* above the entities in the trees of the pools, and the ids that are gone *)
(* or on their way.                                                        *)
LinkedOf == [p \in Pools |-> Linked(p)]
LeavingOf == [p \in Pools |-> Leaving(p)]

AboveOf(linked, up) ==
    [e \in UNION {{p} \X linked[p] : p \in Pools} |->
        IF up[e[1]][Slot(e[2])] = NoId THEN NoId ELSE <<e[1], up[e[1]][Slot(e[2])]>>]

SpentOf(leaving, g) ==
    UNION {{p} \X (leaving[p] \cup UNION {{s} \X (0..(g[p][s] - 1)) : s \in Slots}) : p \in Pools}

Above == AboveOf(LinkedOf, parent)
Spent == SpentOf(LeavingOf, gen)
Hierarchy == INSTANCE EntityForest WITH above <- Above, spent <- Spent
ImplementsForest == Hierarchy!Spec

(* "Copies all data": when a source is freed, its copy has the data-only   *)
(* components it had, with the same fields.                                *)
MigrationCopiesAllData ==
    [][MigrateEnd =>
         LET p == Top.pool
             q == Top.to
         IN  /\ TableOf(q, Top.copy) = TableOf(p, Top.id)
             /\ \A t \in TableOf(p, Top.id) : written[q][Slot(Top.copy)][t] = written[p][Slot(Top.id)][t]]_vars

(* "Remove from parent's children": once an entity is dead, no list names  *)
(* it.                                                                     *)
FreeLeavesTree == [][FreeEnd => \A p \in Pools : p = Top.pool => Top.id \notin Named(p)']_vars

=============================================================================
