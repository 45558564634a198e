---------------------------- MODULE MCEntityPool ----------------------------
EXTENDS EntityPool, TLC

CONSTANTS p1, p2, c1, c2, u1, u2, u3

MCTypeOf == [c \in Components |-> IF c = c2 THEN "needed" ELSE "main"]
MCNeeds == [main |-> <<"needed">>, needed |-> <<>>]
UuidSymmetry == Permutations(Uuids)

(* One concern at a time: a state is explored further only when it belongs *)
(* to one of these.  c2 requires no other component, so c2 alone can be    *)
(* added.                                                                  *)
NoRows == \A p \in Pools, m \in Tables : memory[p][m] = <<>>
NeverReused(p) == \A s \in Slots : gen[p][s] = 0
OneReuse(p) == \A s, x \in Slots : s # x => gen[p][s] + gen[p][x] <= 1
Untouched(p) == p \in open /\ NeverReused(p) /\ \A s \in Slots : ~alive[p][s]
Small == \A p \in Pools : cap[p] = InitialSlots
TwoUuids == Cardinality({uuid[p][s] : p \in Pools, s \in Slots} \ {NoUuid}) <= 2
Flat == \A s \in Slots : parent[p1][s] = NoId
OneField == \A m \in Tables : \A k \in 1..Len(memory[p1][m]) : memory[p1][m][k]["b"] = 0

(* Trees in a pool that grows. *)
Trees ==
    /\ born = {} /\ NoRows /\ Untouched(p2) /\ Depth <= 1
    /\ NeverReused(p1) \/ (OneReuse(p1) /\ Flat)

(* Components, with operations begun in the callbacks of others. *)
Owners ==
    /\ NoRows /\ Small /\ Untouched(p2) /\ TwoUuids /\ strays[p1] = {}
    /\ NeverReused(p1) \/ (OneReuse(p1) /\ Flat /\ held \subseteq {c1})
    /\ c2 \in held => owner[c2] = NoOwner

(* Trees with a component the host lets go of, moved from p1 to p2; and    *)
(* what comes of an entity that a callback moved while it was freed.       *)
Migrations ==
    /\ born \subseteq {c2} /\ NoRows /\ Small /\ TwoUuids
    /\ NeverReused(p2) /\ OneReuse(p1) /\ p1 \in open /\ held = {}
    /\ \A f \in Running : f.op \in {"free", "migrate", "destroy"}
    /\ Depth <= 1 \/ \A k \in 2..Depth : frames[k].made

(* Data-only components. *)
DataOnly ==
    /\ born = {} /\ Small /\ Untouched(p2) /\ TwoUuids /\ Depth <= 1
    /\ Flat /\ NeverReused(p1) /\ OneField /\ Len(memory[p1][{"b"}]) <= 1

(* Migration of data-only components, which OneConcern leaves out. *)
RowsMove == born = {} /\ Small /\ TwoUuids /\ Depth <= 1 /\ NeverReused(p2) /\ OneField

OneConcern == Trees \/ Owners \/ Migrations \/ DataOnly
=============================================================================
