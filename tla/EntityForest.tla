---------------------------- MODULE EntityForest ----------------------------
(***************************************************************************)
(* What the hierarchy of a scene promises: every entity has at most one    *)
(* parent and is never above itself; an entity that goes leaves its        *)
(* children as roots; an id is used for one entity only, for ever.         *)
(***************************************************************************)
CONSTANT NoId

VARIABLES
    above,    \* the parent of every entity, NoId of a root
    spent     \* the ids of entities that are gone

Entities == DOMAIN above

Init == above = [x \in {} |-> NoId] /\ spent = {}

(* Every set of entities that have a parent has one whose parent is not in it. *)
WellFounded(up) ==
    \A S \in SUBSET {x \in DOMAIN up : up[x] # NoId} : S # {} => \E x \in S : up[x] \notin S

(* A new entity is a root, under an id never seen before. *)
Create(id) ==
    /\ id \notin spent /\ id # NoId
    /\ above' = [x \in Entities \cup {id} |-> IF x = id THEN NoId ELSE above[x]]
    /\ UNCHANGED spent

Reparent(id, q) ==
    /\ q \in (Entities \cup {NoId}) \ {above[id]}
    /\ above' = [above EXCEPT ![id] = q]
    /\ WellFounded(above')
    /\ UNCHANGED spent

Remove(id) ==
    /\ above' = [x \in Entities \ {id} |-> IF above[x] = id THEN NoId ELSE above[x]]
    /\ spent' = spent \cup {id}

Next ==
    LET now == Entities
        then == Entities'
    IN  \/ \E id \in then \ now : Create(id)
        \/ \E id \in now \ then : Remove(id)
        \/ now = then /\ above' # above /\ \E id \in now : Reparent(id, above'[id])

Spec == Init /\ [][Next]_<<above, spent>>
=============================================================================
