-------------------------- MODULE EntityPool_proofs --------------------------
(***************************************************************************)
(* Why the slots, the uuids and the trees of a pool stay exact, whatever   *)
(* the host begins in the callbacks, and why the pools do what the         *)
(* hierarchy of entities promises.                                         *)
(*                                                                         *)
(* An operation in progress relies on what it was told when it began: the  *)
(* parent a free has saved, the copy a migration has made, the entity it   *)
(* works on being there still.  The inductive invariant says, of every     *)
(* frame of the stack, what it may rely on, and of every two frames that   *)
(* the one above does not take that away.                                  *)
(***************************************************************************)
EXTENDS EntityPool, ListLemmas, FiniteSetTheorems

-----------------------------------------------------------------------------
(* One pool, as values: its slots, its uuids, its lists, its tree.         *)

SlotsHold(c, f, a) ==
    /\ IsInjective(f)
    /\ ToSet(f) = {s \in 0..(c - 1) : ~a[s]}
    /\ \A s \in Slots : a[s] => s < c

UuidsHold(L, u, by) ==
    /\ \A x \in L : u[Slot(x)] \in Uuids /\ by[u[Slot(x)]] = x
    /\ \A v \in Uuids : by[v] # NoId => by[v] \in L /\ u[Slot(by[v])] = v

ListsHold(L, g, up, lists) ==
    /\ \A s \in Slots :
         /\ IsInjective(lists.kids[s])
         /\ ToSet(lists.kids[s]) \cap L = {x \in L : up[Slot(x)] = <<s, g[s]>>}
    /\ IsInjective(lists.top)
    /\ ToSet(lists.top) \cap L = {x \in L : up[Slot(x)] = NoId}

(* What stands in the list of o besides: an entity moved while it was      *)
(* freed, that leaves and has the parent o still, or that is gone.         *)
StrayAt(V, g, up, S, x, o) ==
    x \in S /\ ((x \in V /\ up[Slot(x)] = o) \/ Generation(x) < g[Slot(x)])

StraysHold(L, V, g, up, S, lists) ==
    /\ \A s \in Slots :
         /\ <<s, g[s]>> \notin L => lists.kids[s] = <<>>
         /\ \A x \in ToSet(lists.kids[s]) \ L : StrayAt(V, g, up, S, x, <<s, g[s]>>)
    /\ \A x \in ToSet(lists.top) \ L : StrayAt(V, g, up, S, x, NoId)

ParentsHold(L, up) == \A x \in L : up[Slot(x)] \in L \cup {NoId}

NoCycle(L, up) ==
    \A S \in SUBSET {x \in L : up[Slot(x)] # NoId} :
        S # {} => \E x \in S : up[Slot(x)] \notin S

PoolOK(p) ==
    /\ SlotsHold(cap[p], free[p], alive[p])
    /\ UuidsHold(Linked(p), uuid[p], byUuid[p])
    /\ ListsHold(Linked(p), gen[p], parent[p], Lists(p))
    /\ StraysHold(Linked(p), Leaving(p), gen[p], parent[p], strays[p], Lists(p))
    /\ ParentsHold(Linked(p), parent[p])
    /\ NoCycle(Linked(p), parent[p])

-----------------------------------------------------------------------------
(* What the operations in progress see of the pools.                       *)

World == [live |-> [p \in Pools |-> Live(p)], leaving |-> [p \in Pools |-> Leaving(p)],
          up |-> parent, gen |-> gen, strays |-> strays]

InTree(w, p) == w.live[p] \ w.leaving[p]
Up(w, p, x) == w.up[p][Slot(x)]
RootIn(w, p, x) == x \in InTree(w, p) /\ Up(w, p, x) = NoId
GoneIn(w, p, x) == Generation(x) < w.gen[p][Slot(x)]

(* A free has saved the parent: it is that still, or that one went and     *)
(* left its child a root, or a callback has moved the entity since.        *)
OldOK(w, f) ==
    \/ f.id \in w.strays[f.pool]
    \/ Up(w, f.pool, f.id) = f.old
    \/ /\ Up(w, f.pool, f.id) = NoId /\ f.old # NoId
       /\ f.old \in w.leaving[f.pool] \/ GoneIn(w, f.pool, f.old)

MigrationOK(w, f) ==
    /\ f.stage \in {"begin", "children", "attach"}
    /\ f.to \in Pools \ {f.pool}
    /\ f.id \in InTree(w, f.pool)
    /\ RootIn(w, f.to, f.copy)
    /\ f.stage = "attach" => RootIn(w, f.to, f.old) /\ f.old # f.copy

FrameOK(w, f) ==
    /\ f.op # "destroy" => f.id \in w.live[f.pool]
    /\ f.op \in {"add", "replace"} => f.comp \in Components
    /\ f.op = "replace" => f.other \in Components
    /\ f.op = "free" /\ f.stage # "published" => OldOK(w, f)
    /\ f.op = "migrate" => MigrationOK(w, f)

(* g was begun by f, or by the host in a callback of f. *)
NestOK(w, f, g) ==
    IF g.made
    THEN \/ f.op = "add" /\ g.op = "add" /\ g.pool = f.pool /\ g.id = f.id
         \/ f.op = "destroy" /\ g.op = "free" /\ g.pool = f.pool
         \/ /\ f.op = "migrate" /\ g.op = "migrate" /\ f.stage = "children"
            /\ Up(w, f.pool, g.id) = f.id
    ELSE f.stage \in Callbacks

(* g was begun while f was in progress. *)
PairOK(f, g) ==
    /\ f.op = "migrate" =>
         /\ g.op = "migrate" /\ g.made /\ g.pool = f.pool /\ g.to = f.to
         /\ f.id # g.id /\ f.copy # g.copy
         /\ g.stage = "attach" => g.old # f.copy
    /\ g.op = "free" /\ f.op # "destroy" /\ f.pool = g.pool =>
         f.id # g.id /\ (f.op = "free" /\ f.stage = "published" => g.old # f.id)
    /\ f.op = "free" /\ f.stage = "published" /\ g.op # "destroy" /\ f.pool = g.pool => g.id # f.id
    /\ g.op = "destroy" => f.pool # g.pool
    /\ g.op = "migrate" /\ f.op # "destroy" /\ f.pool = g.to =>
         f.id # g.copy /\ (g.stage = "attach" => f.id # g.old)

StackOK(w, fs) ==
    /\ fs # <<>> => ~fs[1].made
    /\ \A i \in 1..Len(fs) : FrameOK(w, fs[i])
    /\ \A i \in 1..(Len(fs) - 1) : NestOK(w, fs[i], fs[i + 1])
    /\ \A i, j \in 1..Len(fs) : i < j => PairOK(fs[i], fs[j])

(* The entities below one that is being moved are part of the move, and no *)
(* other operation works on one of them.                                   *)
Apart(w, fs, f) ==
    \E C \in SUBSET w.live[f.pool] :
        /\ f.id \in C
        /\ \A x \in w.live[f.pool] : Up(w, f.pool, x) \in C => x \in C
        /\ \A i \in 1..Len(fs) :
             fs[i].pool = f.pool /\ fs[i].op \notin {"migrate", "destroy"} => fs[i].id \notin C

MovesApart(w, fs) == \A i \in 1..Len(fs) : fs[i].op = "migrate" => Apart(w, fs, fs[i])

PoolsTyped ==
    /\ cap \in [Pools -> 1..MaxSlots]
    /\ free \in [Pools -> Seq(Slots)]
    /\ gen \in [Pools -> [Slots -> Nat]]
    /\ alive \in [Pools -> [Slots -> BOOLEAN]]
    /\ uuid \in [Pools -> [Slots -> Uuids \cup {NoUuid}]]
    /\ byUuid \in [Pools -> [Uuids -> Ids \cup {NoId}]]
    /\ parent \in [Pools -> [Slots -> Ids \cup {NoId}]]
    /\ children \in [Pools -> [Slots -> Seq(Ids)]]
    /\ roots \in [Pools -> Seq(Ids)]
    /\ strays \in [Pools -> SUBSET Ids]

Typed ==
    /\ PoolsTyped
    /\ comps \in [Pools -> [Slots -> Seq(Components)]]
    /\ frames \in Seq(Frames)

IndInv ==
    /\ Typed
    /\ \A p \in Pools : PoolOK(p)
    /\ StackOK(World, frames)
    /\ MovesApart(World, frames)

-----------------------------------------------------------------------------
(* Ids and lists. *)

Stamped(L, g) == \A x \in L : x \in Ids /\ x = <<Slot(x), g[Slot(x)]>>

AllLists == [kids : [Slots -> Seq(Ids)], top : Seq(Ids)]

Unlisted(x, lists) == x \notin ToSet(lists.top) /\ \A s \in Slots : x \notin ToSet(lists.kids[s])

Shrunk(lists, new) ==
    /\ ToSet(new.top) \subseteq ToSet(lists.top)
    /\ \A s \in Slots : ToSet(new.kids[s]) \subseteq ToSet(lists.kids[s])

\* Two entities of a pool that have the same slot are the same, and NoId is
\* none.
LEMMA StampedFacts ==
    ASSUME NEW L, NEW g \in [Slots -> Nat], Stamped(L, g)
    PROVE  /\ L \subseteq Ids /\ NoId \notin Ids /\ NoId \notin L
           /\ \A x \in L : Slot(x) \in Slots /\ Generation(x) = g[Slot(x)] /\ Generation(x) \in Nat
           /\ \A x \in L : x = <<Slot(x), g[Slot(x)]>>
           /\ \A x, y \in L : Slot(x) = Slot(y) => x = y
           /\ \A s \in Slots : <<s, g[s]>> \in Ids /\ <<s, g[s]>> # NoId /\ Slot(<<s, g[s]>>) = s
  <1>1. \A x \in L : x \in Ids /\ x = <<Slot(x), g[Slot(x)]>>
    BY DEF Stamped
  <1>2. \A x \in Ids : Slot(x) \in Slots /\ Generation(x) \in Nat
    BY DEF Ids, Slot, Generation
  <1>3. \A x \in L : Generation(x) = g[Slot(x)]
    BY <1>1 DEF Generation
  <1>4. NoId \notin Ids
    BY PoolAssumption
  <1>5. \A s \in Slots : <<s, g[s]>> \in Ids /\ Slot(<<s, g[s]>>) = s
    BY DEF Ids, Slot
  <1> QED
    BY <1>1, <1>2, <1>3, <1>4, <1>5

\* An entity leaves the list of a parent, or of the roots: the lists hold the
\* others as before; and it is in none when the parent was its own.
\* (tc_entity_pool_free and tc_entity_pool_set_parent_checked)
LEMMA WithoutFacts ==
    ASSUME NEW L, NEW g \in [Slots -> Nat], Stamped(L, g),
           NEW up \in [Slots -> Ids \cup {NoId}],
           NEW lists \in AllLists, ListsHold(L, g, up, lists),
           NEW x \in L, NEW old \in Ids \cup {NoId}, NEW isAlive \in BOOLEAN
    PROVE  /\ Without(lists, old, x, isAlive) \in AllLists
           /\ ListsHold(L \ {x}, g, up, Without(lists, old, x, isAlive))
           /\ Shrunk(lists, Without(lists, old, x, isAlive))
           /\ \/ up[Slot(x)] = NoId /\ ~(old # NoId /\ isAlive)
              \/ up[Slot(x)] = old /\ old \in L /\ isAlive
              => Unlisted(x, Without(lists, old, x, isAlive))
  <1> DEFINE new == Without(lists, old, x, isAlive)
  <1>1. /\ L \subseteq Ids /\ NoId \notin L
        /\ \A y \in L : Slot(y) \in Slots
        /\ \A y \in L : y = <<Slot(y), g[Slot(y)]>>
        /\ \A s \in Slots : <<s, g[s]>> # NoId /\ Slot(<<s, g[s]>>) = s
    BY StampedFacts
  <1>2. /\ lists.kids \in [Slots -> Seq(Ids)] /\ lists.top \in Seq(Ids)
        /\ lists = [kids |-> lists.kids, top |-> lists.top]
    BY DEF AllLists
  <1>3. /\ \A s \in Slots :
             /\ IsInjective(lists.kids[s])
             /\ ToSet(lists.kids[s]) \cap L = {y \in L : up[Slot(y)] = <<s, g[s]>>}
        /\ IsInjective(lists.top)
        /\ ToSet(lists.top) \cap L = {y \in L : up[Slot(y)] = NoId}
    BY DEF ListsHold
  <1>4. CASE ~(old # NoId /\ isAlive)
    <2> DEFINE top2 == RemoveFirst(lists.top, x)
    <2>1. top2 \in Seq(Ids) /\ IsInjective(top2) /\ ToSet(top2) = ToSet(lists.top) \ {x}
      BY <1>2, <1>3, RemoveFirstFacts
    <2>2. new = [lists EXCEPT !.top = top2]
      BY <1>4 DEF Without
    <2> HIDE DEF top2, new
    <2>3. new \in AllLists /\ new.kids = lists.kids /\ new.top = top2
      BY <1>2, <2>1, <2>2 DEF AllLists
    <2>4. ListsHold(L \ {x}, g, up, new)
      <3>1. ASSUME NEW s \in Slots
            PROVE  /\ IsInjective(new.kids[s])
                   /\ ToSet(new.kids[s]) \cap (L \ {x}) = {y \in L \ {x} : up[Slot(y)] = <<s, g[s]>>}
        BY <1>3, <2>3
      <3>2. ToSet(new.top) \cap (L \ {x}) = {y \in L \ {x} : up[Slot(y)] = NoId}
        BY <1>3, <2>1, <2>3
      <3> QED
        BY <2>1, <2>3, <3>1, <3>2 DEF ListsHold
    <2>5. Shrunk(lists, new)
      BY <2>1, <2>3 DEF Shrunk
    <2>6. up[Slot(x)] = NoId => Unlisted(x, new)
      BY <1>1, <1>3, <2>1, <2>3 DEF Unlisted
    <2> QED
      BY <1>1, <1>4, <2>3, <2>4, <2>5, <2>6 DEF new
  <1>5. CASE old # NoId /\ isAlive
    <2> DEFINE t == Slot(old)
               kid2 == RemoveFirst(lists.kids[t], x)
    <2>1. t \in Slots
      BY <1>5 DEF Ids, Slot
    <2>2. kid2 \in Seq(Ids) /\ IsInjective(kid2) /\ ToSet(kid2) = ToSet(lists.kids[t]) \ {x}
      <3>1. lists.kids[t] \in Seq(Ids) /\ IsInjective(lists.kids[t])
        BY <1>2, <1>3, <2>1
      <3> HIDE DEF t
      <3> QED
        BY <3>1, RemoveFirstFacts
    <2>3. new = [lists EXCEPT !.kids[t] = kid2]
      BY <1>5 DEF Without
    <2>4. old \in L => old = <<t, g[t]>>
      BY <1>1
    <2> HIDE DEF kid2, new, t
    <2>5. /\ new \in AllLists /\ new.top = lists.top /\ new.kids[t] = kid2
          /\ \A s \in Slots : s # t => new.kids[s] = lists.kids[s]
      BY <1>2, <2>1, <2>2, <2>3 DEF AllLists
    <2>6. ASSUME NEW s \in Slots
          PROVE  /\ IsInjective(new.kids[s])
                 /\ ToSet(new.kids[s]) \ {x} = ToSet(lists.kids[s]) \ {x}
                 /\ ToSet(new.kids[s]) \subseteq ToSet(lists.kids[s])
      <3>1. CASE s = t
        BY <3>1, <2>2, <2>5
      <3>2. CASE s # t
        BY <3>2, <1>3, <2>5
      <3> QED
        BY <3>1, <3>2
    <2>7. ListsHold(L \ {x}, g, up, new)
      <3>1. ASSUME NEW s \in Slots
            PROVE  ToSet(new.kids[s]) \cap (L \ {x}) = {y \in L \ {x} : up[Slot(y)] = <<s, g[s]>>}
        BY <1>3, <2>6
      <3>2. ToSet(new.top) \cap (L \ {x}) = {y \in L \ {x} : up[Slot(y)] = NoId}
        BY <1>3, <2>5
      <3> QED
        BY <1>3, <2>5, <2>6, <3>1, <3>2 DEF ListsHold
    <2>8. Shrunk(lists, new)
      BY <2>5, <2>6 DEF Shrunk
    <2>9. up[Slot(x)] = old /\ old \in L => Unlisted(x, new)
      <3> SUFFICES ASSUME up[Slot(x)] = old, old \in L PROVE Unlisted(x, new)
        OBVIOUS
      <3>1. x \notin ToSet(new.top)
        BY <1>3, <1>5, <2>5
      <3>2. ASSUME NEW s \in Slots PROVE x \notin ToSet(new.kids[s])
        <4>1. CASE s = t
          BY <4>1, <2>2, <2>5
        <4>2. CASE s # t
          <5>1. <<s, g[s]>> # <<t, g[t]>>
            BY <4>2
          <5> QED
            BY <4>2, <5>1, <1>3, <2>4, <2>5
        <4> QED
          BY <4>1, <4>2
      <3> QED
        BY <3>1, <3>2 DEF Unlisted
    <2> QED
      BY <1>5, <2>5, <2>7, <2>8, <2>9 DEF new
  <1> QED
    BY <1>4, <1>5

\* An entity in no list goes to the end of the list of its new parent, or of
\* the roots.
LEMMA UnderFacts ==
    ASSUME NEW L, NEW g \in [Slots -> Nat], Stamped(L, g),
           NEW up \in [Slots -> Ids \cup {NoId}],
           NEW x \in L, NEW lists \in AllLists, ListsHold(L \ {x}, g, up, lists), Unlisted(x, lists),
           NEW q \in L \cup {NoId}
    PROVE  /\ Under(lists, q, x) \in AllLists
           /\ ListsHold(L, g, [up EXCEPT ![Slot(x)] = q], Under(lists, q, x))
  <1> DEFINE new == Under(lists, q, x)
             up2 == [up EXCEPT ![Slot(x)] = q]
             M == L \ {x}
  <1>1. /\ L \subseteq Ids /\ NoId \notin L
        /\ \A y \in L : Slot(y) \in Slots
        /\ \A y \in L : y = <<Slot(y), g[Slot(y)]>>
        /\ \A y \in L : Slot(y) = Slot(x) => y = x
        /\ \A s \in Slots : <<s, g[s]>> # NoId /\ Slot(<<s, g[s]>>) = s
    BY StampedFacts
  <1>2. /\ lists.kids \in [Slots -> Seq(Ids)] /\ lists.top \in Seq(Ids)
        /\ lists = [kids |-> lists.kids, top |-> lists.top]
        /\ x \notin ToSet(lists.top) /\ \A s \in Slots : x \notin ToSet(lists.kids[s])
    BY DEF AllLists, Unlisted
  <1>3. /\ \A s \in Slots :
             /\ IsInjective(lists.kids[s])
             /\ ToSet(lists.kids[s]) \cap M = {y \in M : up[Slot(y)] = <<s, g[s]>>}
        /\ IsInjective(lists.top)
        /\ ToSet(lists.top) \cap M = {y \in M : up[Slot(y)] = NoId}
    BY DEF ListsHold
  <1>4. /\ up2[Slot(x)] = q
        /\ \A y \in M : up2[Slot(y)] = up[Slot(y)]
    BY <1>1
  <1>5. \A z : /\ z = q => {y \in L : up2[Slot(y)] = z} = {y \in M : up[Slot(y)] = z} \cup {x}
               /\ z # q => {y \in L : up2[Slot(y)] = z} = {y \in M : up[Slot(y)] = z}
    <2> HIDE DEF up2
    <2> QED
      BY <1>4
  <1> HIDE DEF up2
  <1>6. CASE q = NoId
    <2> DEFINE top2 == Append(lists.top, x)
    <2>1. top2 \in Seq(Ids) /\ IsInjective(top2) /\ ToSet(top2) = ToSet(lists.top) \cup {x}
      BY <1>1, <1>2, <1>3, AppendFacts, AppendKeepsInjective
    <2>2. new = [lists EXCEPT !.top = top2]
      BY <1>6 DEF Under
    <2> HIDE DEF top2, new
    <2>3. new \in AllLists /\ new.kids = lists.kids /\ new.top = top2
      BY <1>2, <2>1, <2>2 DEF AllLists
    <2>4. ToSet(new.top) \cap L = {y \in L : up2[Slot(y)] = NoId}
      BY <1>3, <1>5, <1>6, <2>1, <2>3
    <2>5. \A s \in Slots : ToSet(new.kids[s]) \cap L = {y \in L : up2[Slot(y)] = <<s, g[s]>>}
      <3> TAKE s \in Slots
      <3>1. {y \in L : up2[Slot(y)] = <<s, g[s]>>} = {y \in M : up[Slot(y)] = <<s, g[s]>>}
        BY <1>1, <1>5, <1>6
      <3>2. ToSet(lists.kids[s]) \cap L = ToSet(lists.kids[s]) \cap M
        BY <1>2
      <3> QED
        BY <1>3, <2>3, <3>1, <3>2
    <2>6. ListsHold(L, g, up2, new)
      BY <1>3, <2>1, <2>3, <2>4, <2>5 DEF ListsHold
    <2> QED
      BY <2>3, <2>6 DEF new, up2
  <1>7. CASE q # NoId
    <2> DEFINE t == Slot(q)
               kid2 == Append(lists.kids[t], x)
    <2>1. t \in Slots /\ q = <<t, g[t]>>
      BY <1>1, <1>7
    <2>2. kid2 \in Seq(Ids) /\ IsInjective(kid2) /\ ToSet(kid2) = ToSet(lists.kids[t]) \cup {x}
      BY <1>1, <1>2, <1>3, <2>1, AppendFacts, AppendKeepsInjective
    <2>3. new = [lists EXCEPT !.kids[t] = kid2]
      BY <1>7 DEF Under
    <2>4. \A s \in Slots : s # t => <<s, g[s]>> # q
      BY <1>1, <2>1
    <2> HIDE DEF kid2, new, t
    <2>5. /\ new \in AllLists /\ new.top = lists.top /\ new.kids[t] = kid2
          /\ \A s \in Slots : s # t => new.kids[s] = lists.kids[s]
      BY <1>2, <2>1, <2>2, <2>3 DEF AllLists
    <2>6. ASSUME NEW s \in Slots
          PROVE  /\ IsInjective(new.kids[s])
                 /\ ToSet(new.kids[s]) \cap L = {y \in L : up2[Slot(y)] = <<s, g[s]>>}
      <3>1. CASE s = t
        <4>1. {y \in L : up2[Slot(y)] = <<s, g[s]>>} = {y \in M : up[Slot(y)] = <<s, g[s]>>} \cup {x}
          BY <1>5, <2>1, <3>1
        <4>2. (ToSet(lists.kids[s]) \cup {x}) \cap L = (ToSet(lists.kids[s]) \cap M) \cup {x}
          OBVIOUS
        <4> QED
          BY <1>3, <2>2, <2>5, <3>1, <4>1, <4>2
      <3>2. CASE s # t
        <4>1. {y \in L : up2[Slot(y)] = <<s, g[s]>>} = {y \in M : up[Slot(y)] = <<s, g[s]>>}
          BY <1>5, <2>4, <3>2
        <4>2. ToSet(lists.kids[s]) \cap L = ToSet(lists.kids[s]) \cap M
          BY <1>2
        <4> QED
          BY <1>3, <2>5, <3>2, <4>1, <4>2
      <3> QED
        BY <3>1, <3>2
    <2>7. ToSet(new.top) \cap L = {y \in L : up2[Slot(y)] = NoId}
      <3>1. {y \in L : up2[Slot(y)] = NoId} = {y \in M : up[Slot(y)] = NoId}
        BY <1>5, <1>7
      <3>2. ToSet(lists.top) \cap L = ToSet(lists.top) \cap M
        BY <1>2
      <3> QED
        BY <1>3, <2>5, <3>1, <3>2
    <2>8. ListsHold(L, g, up2, new)
      BY <1>3, <2>5, <2>6, <2>7 DEF ListsHold
    <2> QED
      BY <2>5, <2>8 DEF new, up2
  <1> QED
    BY <1>6, <1>7

\* What stands in the lists besides stands there still when an entity of the
\* tree has gone to another list.
LEMMA StraysUnder ==
    ASSUME NEW L, NEW V, NEW g \in [Slots -> Nat], Stamped(L, g),
           NEW up \in [Slots -> Ids \cup {NoId}], NEW S, NEW S2, S \subseteq S2,
           NEW lists \in AllLists, StraysHold(L, V, g, up, S, lists),
           NEW x \in L, \A y \in V : Slot(y) \in Slots /\ Slot(y) # Slot(x),
           NEW out \in AllLists, Shrunk(lists, out),
           NEW q \in L \cup {NoId}
    PROVE  StraysHold(L, V, g, [up EXCEPT ![Slot(x)] = q], S2, Under(out, q, x))
  <1> DEFINE new == Under(out, q, x)
             up2 == [up EXCEPT ![Slot(x)] = q]
  <1>1. /\ NoId \notin L /\ x \in Ids
        /\ \A y \in L : Slot(y) \in Slots /\ y = <<Slot(y), g[Slot(y)]>>
    BY StampedFacts
  <1>2. /\ out.kids \in [Slots -> Seq(Ids)] /\ out.top \in Seq(Ids)
        /\ out = [kids |-> out.kids, top |-> out.top]
        /\ lists.kids \in [Slots -> Seq(Ids)] /\ lists.top \in Seq(Ids)
    BY DEF AllLists
  <1>3. \A y \in V : up2[Slot(y)] = up[Slot(y)]
    BY <1>1
  <1>4. ASSUME NEW y, NEW o, StrayAt(V, g, up, S, y, o) PROVE StrayAt(V, g, up2, S2, y, o)
    BY <1>3, <1>4 DEF StrayAt
  <1>5. /\ ToSet(new.top) \subseteq ToSet(out.top) \cup {x}
        /\ \A s \in Slots : /\ ToSet(new.kids[s]) \subseteq ToSet(out.kids[s]) \cup {x}
                            /\ <<s, g[s]>> \notin L => new.kids[s] = out.kids[s]
    <2>1. CASE q = NoId
      <3>1. new = [out EXCEPT !.top = Append(out.top, x)]
        BY <2>1 DEF Under
      <3>2. new.kids = out.kids /\ new.top = Append(out.top, x)
        BY <1>2, <3>1
      <3>3. ToSet(Append(out.top, x)) = ToSet(out.top) \cup {x}
        BY <1>1, <1>2, AppendFacts
      <3> HIDE DEF new
      <3> QED
        BY <3>2, <3>3
    <2>2. CASE q # NoId
      <3> DEFINE t == Slot(q)
      <3>1. t \in Slots /\ q = <<t, g[t]>> /\ q \in L
        BY <1>1, <2>2
      <3>2. new = [out EXCEPT !.kids[t] = Append(out.kids[t], x)]
        BY <2>2 DEF Under
      <3> HIDE DEF t
      <3>3. /\ new.top = out.top /\ new.kids[t] = Append(out.kids[t], x)
            /\ \A s \in Slots : s # t => new.kids[s] = out.kids[s]
        BY <1>2, <3>1, <3>2
      <3>4. ToSet(Append(out.kids[t], x)) = ToSet(out.kids[t]) \cup {x}
        BY <1>1, <1>2, <3>1, AppendFacts
      <3> HIDE DEF new
      <3>5. ASSUME NEW s \in Slots
            PROVE  /\ ToSet(new.kids[s]) \subseteq ToSet(out.kids[s]) \cup {x}
                   /\ <<s, g[s]>> \notin L => new.kids[s] = out.kids[s]
        <4>1. CASE s = t
          BY <4>1, <3>1, <3>3, <3>4
        <4>2. CASE s # t
          BY <4>2, <3>3
        <4> QED
          BY <4>1, <4>2
      <3> QED
        BY <3>3, <3>5
    <2> QED
      BY <2>1, <2>2
  <1> HIDE DEF new, up2
  <1>6. /\ \A y \in ToSet(lists.top) \ L : StrayAt(V, g, up, S, y, NoId)
        /\ \A s \in Slots : /\ <<s, g[s]>> \notin L => lists.kids[s] = <<>>
                            /\ \A y \in ToSet(lists.kids[s]) \ L : StrayAt(V, g, up, S, y, <<s, g[s]>>)
    BY DEF StraysHold
  <1>7. /\ ToSet(out.top) \subseteq ToSet(lists.top)
        /\ \A s \in Slots : ToSet(out.kids[s]) \subseteq ToSet(lists.kids[s])
    BY DEF Shrunk
  <1>8. ASSUME NEW s \in Slots, <<s, g[s]>> \notin L PROVE new.kids[s] = <<>>
    <2>1. lists.kids[s] = <<>> /\ new.kids[s] = out.kids[s]
      BY <1>5, <1>6, <1>8
    <2>2. ToSet(lists.kids[s]) = {}
      BY <1>2, <2>1, EmptyIffNoElement
    <2>3. ToSet(out.kids[s]) = {} /\ out.kids[s] \in Seq(Ids)
      BY <1>2, <1>7, <2>2
    <2> QED
      BY <2>1, <2>3, EmptyIffNoElement
  <1>9. ASSUME NEW s \in Slots, NEW y \in ToSet(new.kids[s]) \ L
        PROVE  StrayAt(V, g, up2, S2, y, <<s, g[s]>>)
    <2>1. y \in ToSet(lists.kids[s])
      BY <1>5, <1>7, <1>9
    <2> QED
      BY <1>4, <1>6, <1>9, <2>1
  <1>10. ASSUME NEW y \in ToSet(new.top) \ L PROVE StrayAt(V, g, up2, S2, y, NoId)
    <2>1. y \in ToSet(lists.top)
      BY <1>5, <1>7, <1>10
    <2> QED
      BY <1>4, <1>6, <1>10, <2>1
  <1>11. StraysHold(L, V, g, up2, S2, new)
    BY <1>8, <1>9, <1>10 DEF StraysHold
  <1> QED
    BY <1>11 DEF new, up2

\* An entity moved to another place of the list it stands in.
\* (tc_entity_pool_set_sibling_index)
LEMMA MovedKeepsLists ==
    ASSUME NEW L, NEW V, NEW g \in [Slots -> Nat], Stamped(L, g),
           NEW up \in [Slots -> Ids \cup {NoId}], NEW S,
           NEW lists \in AllLists, ListsHold(L, g, up, lists), StraysHold(L, V, g, up, S, lists),
           NEW x \in L
    PROVE  /\ up[Slot(x)] = NoId =>
                \A k \in 1..Len(lists.top) :
                   /\ [lists EXCEPT !.top = Moved(lists.top, x, k)] \in AllLists
                   /\ ListsHold(L, g, up, [lists EXCEPT !.top = Moved(lists.top, x, k)])
                   /\ StraysHold(L, V, g, up, S, [lists EXCEPT !.top = Moved(lists.top, x, k)])
           /\ \A t \in Slots : up[Slot(x)] = <<t, g[t]>> =>
                \A k \in 1..Len(lists.kids[t]) :
                   /\ [lists EXCEPT !.kids[t] = Moved(lists.kids[t], x, k)] \in AllLists
                   /\ ListsHold(L, g, up, [lists EXCEPT !.kids[t] = Moved(lists.kids[t], x, k)])
                   /\ StraysHold(L, V, g, up, S, [lists EXCEPT !.kids[t] = Moved(lists.kids[t], x, k)])
  <1>1. x \in Ids
    BY StampedFacts
  <1>2. /\ lists.kids \in [Slots -> Seq(Ids)] /\ lists.top \in Seq(Ids)
        /\ lists = [kids |-> lists.kids, top |-> lists.top]
    BY DEF AllLists
  <1>3. /\ \A s \in Slots :
             /\ IsInjective(lists.kids[s])
             /\ ToSet(lists.kids[s]) \cap L = {y \in L : up[Slot(y)] = <<s, g[s]>>}
             /\ <<s, g[s]>> \notin L => lists.kids[s] = <<>>
             /\ \A y \in ToSet(lists.kids[s]) \ L : StrayAt(V, g, up, S, y, <<s, g[s]>>)
        /\ IsInjective(lists.top)
        /\ ToSet(lists.top) \cap L = {y \in L : up[Slot(y)] = NoId}
        /\ \A y \in ToSet(lists.top) \ L : StrayAt(V, g, up, S, y, NoId)
    BY DEF ListsHold, StraysHold
  <1>4. ASSUME NEW list \in Seq(Ids), IsInjective(list), x \in ToSet(list), NEW k \in 1..Len(list)
        PROVE  /\ Moved(list, x, k) \in Seq(Ids) /\ IsInjective(Moved(list, x, k))
               /\ ToSet(Moved(list, x, k)) = ToSet(list)
    BY <1>4, MovedFacts DEF Moved
  <1>5. ASSUME NEW new \in AllLists, IsInjective(new.top), ToSet(new.top) = ToSet(lists.top),
               \A s \in Slots : /\ IsInjective(new.kids[s]) /\ ToSet(new.kids[s]) = ToSet(lists.kids[s])
                                /\ lists.kids[s] = <<>> => new.kids[s] = <<>>
        PROVE  ListsHold(L, g, up, new) /\ StraysHold(L, V, g, up, S, new)
    BY <1>3, <1>5 DEF ListsHold, StraysHold
  <1>6. ASSUME up[Slot(x)] = NoId, NEW k \in 1..Len(lists.top)
        PROVE  /\ [lists EXCEPT !.top = Moved(lists.top, x, k)] \in AllLists
               /\ ListsHold(L, g, up, [lists EXCEPT !.top = Moved(lists.top, x, k)])
               /\ StraysHold(L, V, g, up, S, [lists EXCEPT !.top = Moved(lists.top, x, k)])
    <2> DEFINE m == Moved(lists.top, x, k)
               new == [lists EXCEPT !.top = m]
    <2>1. m \in Seq(Ids) /\ IsInjective(m) /\ ToSet(m) = ToSet(lists.top)
      <3>1. x \in ToSet(lists.top)
        BY <1>3, <1>6
      <3> QED
        BY <1>2, <1>3, <1>4, <1>6, <3>1
    <2> HIDE DEF m
    <2>2. new \in AllLists /\ new.kids = lists.kids /\ new.top = m
      BY <1>2, <2>1 DEF AllLists
    <2> HIDE DEF new
    <2>3. ListsHold(L, g, up, new) /\ StraysHold(L, V, g, up, S, new)
      BY <1>3, <1>5, <2>1, <2>2
    <2> QED
      BY <2>2, <2>3 DEF new, m
  <1>7. ASSUME NEW t \in Slots, up[Slot(x)] = <<t, g[t]>>, NEW k \in 1..Len(lists.kids[t])
        PROVE  /\ [lists EXCEPT !.kids[t] = Moved(lists.kids[t], x, k)] \in AllLists
               /\ ListsHold(L, g, up, [lists EXCEPT !.kids[t] = Moved(lists.kids[t], x, k)])
               /\ StraysHold(L, V, g, up, S, [lists EXCEPT !.kids[t] = Moved(lists.kids[t], x, k)])
    <2> DEFINE m == Moved(lists.kids[t], x, k)
               new == [lists EXCEPT !.kids[t] = m]
    <2>1. m \in Seq(Ids) /\ IsInjective(m) /\ ToSet(m) = ToSet(lists.kids[t]) /\ lists.kids[t] # <<>>
      <3>1. /\ lists.kids[t] \in Seq(Ids) /\ IsInjective(lists.kids[t])
            /\ x \in ToSet(lists.kids[t])
        BY <1>2, <1>3, <1>7
      <3>2. lists.kids[t] # <<>>
        BY <3>1, EmptyIffNoElement
      <3> QED
        BY <3>1, <3>2, <1>4
    <2> HIDE DEF m
    <2>2. /\ new \in AllLists /\ new.top = lists.top /\ new.kids[t] = m
          /\ \A s \in Slots : s # t => new.kids[s] = lists.kids[s]
      BY <1>2, <2>1 DEF AllLists
    <2> HIDE DEF new
    <2>3. \A s \in Slots : /\ IsInjective(new.kids[s]) /\ ToSet(new.kids[s]) = ToSet(lists.kids[s])
                           /\ lists.kids[s] = <<>> => new.kids[s] = <<>>
      BY <1>3, <2>1, <2>2
    <2>4. ListsHold(L, g, up, new) /\ StraysHold(L, V, g, up, S, new)
      BY <1>3, <1>5, <2>2, <2>3
    <2> QED
      BY <2>2, <2>4 DEF new, m
  <1> QED
    BY <1>6, <1>7

\* Taking entities out and making others roots closes no cycle.
LEMMA FewerParents ==
    ASSUME NEW L, NEW M, NEW up, NEW up2, NoCycle(L, up),
           \A x \in M : up2[Slot(x)] # NoId => x \in L /\ up2[Slot(x)] = up[Slot(x)]
    PROVE  NoCycle(M, up2)
  <1> SUFFICES ASSUME NEW S \in SUBSET {x \in M : up2[Slot(x)] # NoId}, S # {}
               PROVE  \E x \in S : up2[Slot(x)] \notin S
    BY DEF NoCycle
  <1>1. S \in SUBSET {x \in L : up[Slot(x)] # NoId} /\ \A x \in S : up2[Slot(x)] = up[Slot(x)]
    OBVIOUS
  <1>2. PICK x \in S : up[Slot(x)] \notin S
    BY <1>1 DEF NoCycle
  <1> QED
    BY <1>1, <1>2

\* Putting an entity below another one that is not below it closes no cycle.
\* C is what is above the other one.
LEMMA NewParentNoCycle ==
    ASSUME NEW L, NEW g \in [Slots -> Nat], Stamped(L, g),
           NEW up \in [Slots -> Ids \cup {NoId}], NoCycle(L, up),
           NEW x \in L, NEW q \in L,
           NEW C, q \in C, x \notin C,
           \A y \in C \cap L : up[Slot(y)] \in L => up[Slot(y)] \in C
    PROVE  NoCycle(L, [up EXCEPT ![Slot(x)] = q])
  <1> DEFINE up2 == [up EXCEPT ![Slot(x)] = q]
  <1>1. /\ NoId \notin L /\ \A y \in L : Slot(y) \in Slots
        /\ \A y \in L : Slot(y) = Slot(x) => y = x
    BY StampedFacts
  <1>2. up2[Slot(x)] = q /\ \A y \in L : y # x => up2[Slot(y)] = up[Slot(y)]
    BY <1>1
  <1> HIDE DEF up2
  <1> SUFFICES ASSUME NEW S \in SUBSET {y \in L : up2[Slot(y)] # NoId}, S # {},
                      \A y \in S : up2[Slot(y)] \in S
               PROVE  FALSE
    BY DEF NoCycle, up2
  <1>3. CASE x \notin S
    <2>1. S \in SUBSET {y \in L : up[Slot(y)] # NoId} /\ \A y \in S : up[Slot(y)] \in S
      BY <1>2, <1>3
    <2> QED
      BY <2>1 DEF NoCycle
  <1>4. CASE x \in S
    <2> DEFINE T == S \cap C
    <2>1. q \in T
      BY <1>2, <1>4
    <2>2. \A y \in T : y \in L /\ y # x /\ up[Slot(y)] = up2[Slot(y)]
      BY <1>2
    <2>3. \A y \in T : up[Slot(y)] \in S /\ up[Slot(y)] \in L
      BY <2>2
    <2>4. \A y \in T : up[Slot(y)] \in T
      BY <2>2, <2>3
    <2>5. T \in SUBSET {y \in L : up[Slot(y)] # NoId}
      BY <1>1, <2>3
    <2> QED
      BY <2>1, <2>4, <2>5 DEF NoCycle
  <1> QED
    BY <1>3, <1>4

-----------------------------------------------------------------------------
(* Uuids and slots. *)

\* A new entity with a uuid no entity has.  (tc_entity_pool_alloc_with_uuid)
LEMMA NewUuid ==
    ASSUME NEW L, NEW x \in Ids, \A y \in L : y \in Ids /\ Slot(y) # Slot(x),
           NEW u \in [Slots -> Uuids \cup {NoUuid}], NEW by \in [Uuids -> Ids \cup {NoId}],
           UuidsHold(L, u, by),
           NEW v \in Uuids, by[v] = NoId
    PROVE  UuidsHold(L \cup {x}, [u EXCEPT ![Slot(x)] = v], [by EXCEPT ![v] = x])
  <1> DEFINE u2 == [u EXCEPT ![Slot(x)] = v]
             by2 == [by EXCEPT ![v] = x]
  <1>1. Slot(x) \in Slots /\ NoId \notin Ids /\ \A y \in L : Slot(y) \in Slots
    BY PoolAssumption DEF Ids, Slot
  <1>2. /\ u2[Slot(x)] = v /\ \A y \in L : u2[Slot(y)] = u[Slot(y)]
        /\ by2[v] = x /\ \A w \in Uuids : w # v => by2[w] = by[w]
    BY <1>1
  <1> HIDE DEF u2, by2
  <1>3. \A y \in L : u[Slot(y)] \in Uuids /\ by[u[Slot(y)]] = y /\ u[Slot(y)] # v
    BY <1>1 DEF UuidsHold
  <1>4. \A y \in L \cup {x} : u2[Slot(y)] \in Uuids /\ by2[u2[Slot(y)]] = y
    BY <1>2, <1>3
  <1>5. ASSUME NEW w \in Uuids, by2[w] # NoId
        PROVE  by2[w] \in L \cup {x} /\ u2[Slot(by2[w])] = w
    <2>1. CASE w = v
      BY <2>1, <1>2
    <2>2. CASE w # v
      BY <2>2, <1>2, <1>5 DEF UuidsHold
    <2> QED
      BY <2>1, <2>2
  <1> QED
    BY <1>4, <1>5 DEF UuidsHold, u2, by2

\* An entity that goes takes its uuid out of the map.
\* (pool_map_remove in tc_entity_pool_free)
LEMMA UuidGone ==
    ASSUME NEW L, NEW x \in L, \A y \in L : y \in Ids /\ (Slot(y) = Slot(x) => y = x),
           NEW u \in [Slots -> Uuids \cup {NoUuid}], NEW by \in [Uuids -> Ids \cup {NoId}],
           UuidsHold(L, u, by)
    PROVE  /\ u[Slot(x)] \in Uuids
           /\ UuidsHold(L \ {x}, [u EXCEPT ![Slot(x)] = NoUuid], [by EXCEPT ![u[Slot(x)]] = NoId])
  <1> DEFINE u2 == [u EXCEPT ![Slot(x)] = NoUuid]
             v == u[Slot(x)]
             by2 == [by EXCEPT ![v] = NoId]
  <1>1. \A y \in L : Slot(y) \in Slots
    BY DEF Ids, Slot
  <1>2. v \in Uuids /\ by[v] = x /\ \A y \in L : u[Slot(y)] \in Uuids /\ by[u[Slot(y)]] = y
    BY DEF UuidsHold
  <1>3. /\ \A y \in L \ {x} : u2[Slot(y)] = u[Slot(y)]
        /\ by2[v] = NoId /\ \A w \in Uuids : w # v => by2[w] = by[w]
    BY <1>1, <1>2
  <1> HIDE DEF u2, by2, v
  <1>4. \A y \in L \ {x} : u2[Slot(y)] \in Uuids /\ by2[u2[Slot(y)]] = y
    BY <1>2, <1>3
  <1>5. ASSUME NEW w \in Uuids, by2[w] # NoId
        PROVE  by2[w] \in L \ {x} /\ u2[Slot(by2[w])] = w
    <2>1. w # v /\ by2[w] = by[w]
      BY <1>3, <1>5
    <2>2. by[w] \in L /\ u[Slot(by[w])] = w
      BY <1>5, <2>1 DEF UuidsHold
    <2>3. by[w] # x
      BY <2>1, <2>2 DEF v
    <2> QED
      BY <2>1, <2>2, <2>3, <1>3
  <1> QED
    BY <1>2, <1>4, <1>5 DEF UuidsHold, u2, by2, v

\* An entity that is given another uuid.  (tc_entity_pool_set_uuid)
LEMMA UuidChanged ==
    ASSUME NEW L, NEW x \in L, \A y \in L : y \in Ids /\ (Slot(y) = Slot(x) => y = x),
           NEW u \in [Slots -> Uuids \cup {NoUuid}], NEW by \in [Uuids -> Ids \cup {NoId}],
           UuidsHold(L, u, by),
           NEW v \in Uuids, by[v] = NoId
    PROVE  UuidsHold(L, [u EXCEPT ![Slot(x)] = v], [by EXCEPT ![u[Slot(x)]] = NoId, ![v] = x])
  <1> DEFINE u2 == [u EXCEPT ![Slot(x)] = v]
             o == u[Slot(x)]
             by2 == [by EXCEPT ![o] = NoId, ![v] = x]
  <1>1. NoId \notin Ids /\ \A y \in L : Slot(y) \in Slots
    BY PoolAssumption DEF Ids, Slot
  <1>2. o \in Uuids /\ by[o] = x /\ \A y \in L : u[Slot(y)] \in Uuids /\ by[u[Slot(y)]] = y
    BY DEF UuidsHold
  <1>3. o # v
    BY <1>1, <1>2
  <1>4. /\ u2[Slot(x)] = v /\ \A y \in L \ {x} : u2[Slot(y)] = u[Slot(y)]
        /\ by2[o] = NoId /\ by2[v] = x /\ \A w \in Uuids : w # v /\ w # o => by2[w] = by[w]
    BY <1>1, <1>2, <1>3
  <1> HIDE DEF u2, by2, o
  <1>5. \A y \in L : u2[Slot(y)] \in Uuids /\ by2[u2[Slot(y)]] = y
    <2> TAKE y \in L
    <2>1. CASE y = x
      BY <2>1, <1>4
    <2>2. CASE y # x
      <3>1. u[Slot(y)] # o /\ u[Slot(y)] # v
        BY <1>1, <1>2, <2>2
      <3> QED
        BY <3>1, <2>2, <1>2, <1>4
    <2> QED
      BY <2>1, <2>2
  <1>6. ASSUME NEW w \in Uuids, by2[w] # NoId
        PROVE  by2[w] \in L /\ u2[Slot(by2[w])] = w
    <2>1. CASE w = v
      BY <2>1, <1>4
    <2>2. CASE w # v
      <3>1. w # o /\ by2[w] = by[w]
        BY <2>2, <1>4, <1>6
      <3>2. by[w] \in L /\ u[Slot(by[w])] = w
        BY <1>6, <3>1 DEF UuidsHold
      <3>3. by[w] # x
        BY <3>1, <3>2 DEF o
      <3> QED
        BY <3>1, <3>2, <3>3, <1>4
    <2> QED
      BY <2>1, <2>2
  <1> QED
    BY <1>5, <1>6 DEF UuidsHold, u2, by2, o

\* The slot on top of the stack, grown first when there is none, is dead and
\* below the capacity, and the rest of the stack is every other dead one.
\* (pool_grow, tc_entity_pool_alloc_with_uuid)
LEMMA SlotTaken ==
    ASSUME NEW c \in 1..MaxSlots, NEW f \in Seq(Slots), NEW a \in [Slots -> BOOLEAN],
           SlotsHold(c, f, a), f = <<>> => 2 * c <= MaxSlots,
           NEW st, st = IF f = <<>> THEN [i \in 1..c |-> 2 * c - i] ELSE f,
           NEW c2, c2 = IF f = <<>> THEN 2 * c ELSE c
    PROVE  /\ st \in Seq(Slots) /\ st # <<>> /\ c2 \in 1..MaxSlots
           /\ Last(st) \in Slots /\ ~a[Last(st)] /\ Front(st) \in Seq(Slots)
           /\ SlotsHold(c2, Front(st), [a EXCEPT ![Last(st)] = TRUE])
  <1>0. MaxSlots \in Nat /\ c \in Nat /\ c > 0 /\ Slots = 0..(MaxSlots - 1) /\ c <= MaxSlots
    BY RowsAssumption DEF Slots
  <1>1. c2 \in 1..MaxSlots
    BY <1>0
  <1>2. st \in Seq(Slots) /\ st # <<>> /\ IsInjective(st) /\ ToSet(st) = {s \in 0..(c2 - 1) : ~a[s]}
        /\ \A s \in Slots : a[s] => s < c2
    <2>1. CASE f # <<>>
      BY <2>1 DEF SlotsHold
    <2>2. CASE f = <<>>
      <3> DEFINE n == [i \in 1..c |-> 2 * c - i]
      <3>1. \A i \in 1..c : 2 * c - i \in c..(2 * c - 1) /\ 2 * c - i \in Slots
        BY <1>0, <2>2
      <3>2. /\ n \in Seq(Slots) /\ Len(n) = c /\ DOMAIN n = 1..c
            /\ \A i \in 1..c : n[i] = 2 * c - i
        BY <1>0, <3>1
      <3>3. ToSet(n) = {n[i] : i \in 1..c}
        BY <3>2 DEF ToSet
      <3> HIDE DEF n
      <3>4. IsInjective(n)
        BY <1>0, <3>2 DEF IsInjective
      <3>5. n # <<>>
        BY <1>0, <3>2
      <3>6. \A s \in 0..(c - 1) : a[s]
        <4>1. ToSet(f) = {s \in 0..(c - 1) : ~a[s]}
          BY DEF SlotsHold
        <4>2. ToSet(f) = {}
          BY <2>2, EmptyIffNoElement
        <4> QED
          BY <4>1, <4>2
      <3>7. \A s \in c..(2 * c - 1) : s \in Slots /\ ~a[s]
        BY <1>0, <2>2 DEF SlotsHold
      <3>8. \A s \in 0..(2 * c - 1) : s \in 0..(c - 1) \/ s \in c..(2 * c - 1)
        BY <1>0
      <3>9. \A s \in c..(2 * c - 1) : 2 * c - s \in 1..c /\ 2 * c - (2 * c - s) = s
        BY <1>0
      <3>10. c..(2 * c - 1) \subseteq 0..(2 * c - 1)
        BY <1>0
      <3>11. ToSet(n) = {s \in 0..(2 * c - 1) : ~a[s]}
        <4>1. ToSet(n) = c..(2 * c - 1)
          <5>1. ToSet(n) \subseteq c..(2 * c - 1)
            BY <3>1, <3>2, <3>3
          <5>2. \A s \in c..(2 * c - 1) : n[2 * c - s] = s
            BY <3>2, <3>9
          <5>3. c..(2 * c - 1) \subseteq ToSet(n)
            BY <3>3, <3>9, <5>2
          <5> QED
            BY <5>1, <5>3
        <4> QED
          BY <4>1, <3>6, <3>7, <3>8, <3>10
      <3>12. \A s \in Slots : a[s] => s < 2 * c
        BY <1>0 DEF SlotsHold
      <3>13. st = n /\ c2 = 2 * c
        BY <2>2 DEF n
      <3> QED
        BY <3>2, <3>4, <3>5, <3>11, <3>12, <3>13
    <2> QED
      BY <2>1, <2>2
  <1> DEFINE s0 == Last(st)
             r == Front(st)
             a2 == [a EXCEPT ![s0] = TRUE]
  <1>3. /\ r \in Seq(Slots) /\ IsInjective(r) /\ ToSet(r) = ToSet(st) \ {s0}
        /\ s0 \in Slots /\ s0 \in ToSet(st)
    <2>1. /\ r \in Seq(Slots) /\ s0 \in Slots /\ ToSet(st) = ToSet(r) \cup {s0}
      BY <1>2, FrontFacts
    <2>2. IsInjective(r) /\ ToSet(r) = ToSet(st) \ {s0}
      BY <1>2, FrontOfInjective
    <2> QED
      BY <2>1, <2>2
  <1>4. ~a[s0] /\ s0 \in 0..(c2 - 1)
    BY <1>2, <1>3
  <1> HIDE DEF s0, r
  <1>5. 0..(c2 - 1) \subseteq Slots
    BY <1>0, <1>1
  <1>6. a2[s0] /\ \A s \in Slots : s # s0 => a2[s] = a[s]
    BY <1>3
  <1> HIDE DEF a2
  <1>7. ToSet(r) = {s \in 0..(c2 - 1) : ~a2[s]}
    BY <1>2, <1>3, <1>5, <1>6
  <1>8. \A s \in Slots : a2[s] => s < c2
    <2>1. s0 < c2
      BY <1>0, <1>1, <1>4
    <2> QED
      BY <1>2, <1>6, <2>1
  <1>9. SlotsHold(c2, r, a2)
    BY <1>3, <1>7, <1>8 DEF SlotsHold
  <1> QED
    BY <1>1, <1>2, <1>3, <1>4, <1>9 DEF s0, r, a2

\* A slot that dies goes on the stack.
LEMMA SlotGivenBack ==
    ASSUME NEW c \in 1..MaxSlots, NEW f \in Seq(Slots), NEW a \in [Slots -> BOOLEAN],
           SlotsHold(c, f, a), NEW s \in Slots, a[s]
    PROVE  /\ Append(f, s) \in Seq(Slots)
           /\ SlotsHold(c, Append(f, s), [a EXCEPT ![s] = FALSE])
  <1> DEFINE r == Append(f, s)
             a2 == [a EXCEPT ![s] = FALSE]
  <1>0. MaxSlots \in Nat /\ c \in Nat /\ Slots = 0..(MaxSlots - 1) /\ c <= MaxSlots
    BY RowsAssumption DEF Slots
  <1>1. s \in 0..(c - 1) /\ 0..(c - 1) \subseteq Slots
    BY <1>0 DEF SlotsHold
  <1>2. s \notin ToSet(f)
    BY DEF SlotsHold
  <1>3. r \in Seq(Slots) /\ ToSet(r) = ToSet(f) \cup {s} /\ IsInjective(r)
    BY <1>2, AppendFacts, AppendKeepsInjective DEF SlotsHold
  <1>4. ~a2[s] /\ \A x \in Slots : x # s => a2[x] = a[x]
    OBVIOUS
  <1> HIDE DEF r, a2
  <1>5. ToSet(r) = {x \in 0..(c - 1) : ~a2[x]}
    BY <1>1, <1>3, <1>4 DEF SlotsHold
  <1>6. \A x \in Slots : a2[x] => x < c
    BY <1>4 DEF SlotsHold
  <1> QED
    BY <1>3, <1>5, <1>6 DEF SlotsHold, r, a2

-----------------------------------------------------------------------------
(* The children of an entity that goes become roots. *)

\* What survives of a list is what of it is alive, as often as it was there.
LEMMA SurvivorsFacts ==
    ASSUME NEW p, NEW list \in Seq(Ids), IsInjective(list)
    PROVE  /\ Survivors(p, list) \in Seq(Ids) /\ IsInjective(Survivors(p, list))
           /\ ToSet(Survivors(p, list)) = {y \in ToSet(list) : Alive(p, y)}
  <1> DEFINE I == {i \in 1..Len(list) : Alive(p, list[i])}
             Nth(k) == CHOOSE i \in I : Cardinality(I \cap (1..i)) = k
             c == Cardinality(I)
             r == [i \in I |-> Cardinality(I \cap (1..i))]
             new == [k \in 1..c |-> list[Nth(k)]]
  <1>0. Survivors(p, list) = new
    BY DEF Survivors
  <1>1. I \subseteq 1..Len(list) /\ Len(list) \in Nat
    OBVIOUS
  <1>2. IsFiniteSet(1..Len(list))
    BY <1>1, FS_Interval
  <1>3. IsFiniteSet(I) /\ c \in Nat
    BY <1>1, <1>2, FS_Subset, FS_CardinalityType
  <1>4. ToSet(list) = {list[i] : i \in 1..Len(list)} /\ ToSet(list) \subseteq Ids
    BY ToSetFacts
  <1>5. \A y : y \in {z \in ToSet(list) : Alive(p, z)} <=> \E i \in I : y = list[i]
    BY <1>4
  <1>6. \A i, j \in I : list[i] = list[j] => i = j
    BY <1>1 DEF IsInjective
  <1> HIDE DEF I
  <1>7. ASSUME NEW i \in I PROVE r[i] \in 1..c
    <2>1. I \cap (1..i) \in SUBSET I /\ i \in I \cap (1..i)
      BY <1>1, <1>7
    <2>2. IsFiniteSet(I \cap (1..i)) /\ Cardinality(I \cap (1..i)) <= c
      BY <1>3, <2>1, FS_Subset
    <2>3. Cardinality(I \cap (1..i)) \in Nat /\ Cardinality(I \cap (1..i)) # 0
      BY <2>1, <2>2, FS_CardinalityType, FS_EmptySet
    <2> QED
      BY <1>3, <2>2, <2>3
  <1>8. ASSUME NEW i \in I, NEW j \in I, i < j PROVE r[i] # r[j]
    <2> DEFINE A == I \cap (1..i)
               B == I \cap (1..j)
    <2>1. A \in SUBSET B /\ B \in SUBSET I /\ j \in B /\ j \notin A
      BY <1>1, <1>8
    <2>2. IsFiniteSet(B)
      BY <1>3, <2>1, FS_Subset
    <2>3. Cardinality(A) # Cardinality(B)
      BY <2>1, <2>2, FS_Subset
    <2> QED
      BY <2>3
  <1>9. r \in Injection(I, 1..c)
    <2>1. r \in [I -> 1..c]
      BY <1>7
    <2>2. \A i, j \in I : r[i] = r[j] => i = j
      <3> TAKE i, j \in I
      <3>1. i \in Nat /\ j \in Nat
        BY <1>1
      <3>2. i < j \/ j < i \/ i = j
        BY <3>1
      <3> QED
        BY <1>8, <3>2
    <2> HIDE DEF r
    <2>3. DOMAIN r = I
      BY <2>1
    <2> QED
      BY <2>1, <2>2, <2>3 DEF Injection, IsInjective
  <1>10. r \in Surjection(I, 1..c)
    <2>1. IsFiniteSet(1..c) /\ Cardinality(1..c) = c
      <3>1. 1 \in Int /\ c \in Int
        BY <1>3
      <3>2. IsFiniteSet(1..c) /\ Cardinality(1..c) = IF 1 > c THEN 0 ELSE c - 1 + 1
        BY <3>1, FS_Interval
      <3> HIDE DEF c
      <3> QED
        BY <1>3, <3>2
    <2> HIDE DEF r
    <2> QED
      BY <1>9, <2>1, FS_Injection
  <1>11. ASSUME NEW k \in 1..c PROVE Nth(k) \in I /\ r[Nth(k)] = k
    <2>1. \E i \in I : Cardinality(I \cap (1..i)) = k
      BY <1>10 DEF Surjection
    <2>2. Nth(k) \in I /\ Cardinality(I \cap (1..Nth(k))) = k
      BY <2>1
    <2> HIDE DEF Nth
    <2> QED
      BY <2>2
  <1>12. \A i \in I : r[i] \in 1..c /\ Nth(r[i]) = i
    <2> TAKE i \in I
    <2>1. r[i] \in 1..c
      BY <1>7
    <2>2. Nth(r[i]) \in I /\ r[Nth(r[i])] = r[i]
      BY <1>11, <2>1
    <2>3. \A a, b \in I : r[a] = r[b] => a = b
      BY <1>9 DEF Injection, IsInjective
    <2> HIDE DEF r, Nth
    <2> QED
      BY <2>1, <2>2, <2>3
  <1>13. \A k, l \in 1..c : Nth(k) = Nth(l) => k = l
    <2> HIDE DEF r, Nth
    <2> QED
      BY <1>11
  <1>14. \A k \in 1..c : list[Nth(k)] \in Ids
    <2> HIDE DEF r, Nth
    <2> QED
      BY <1>1, <1>4, <1>11
  <1> HIDE DEF Nth, r, c
  <1>15. new \in Seq(Ids) /\ Len(new) = c /\ DOMAIN new = 1..c /\ \A k \in 1..c : new[k] = list[Nth(k)]
    BY <1>3, <1>14
  <1>16. ToSet(new) = {new[k] : k \in 1..c}
    BY <1>15 DEF ToSet
  <1> HIDE DEF new
  <1>17. IsInjective(new)
    BY <1>6, <1>11, <1>13, <1>15 DEF IsInjective
  <1>18. \A y : y \in ToSet(new) <=> \E i \in I : y = list[i]
    BY <1>11, <1>12, <1>15, <1>16
  <1> QED
    BY <1>0, <1>5, <1>15, <1>17, <1>18

(* The parent of every one of the kids is cleared. *)
Orphaned(up, kids, up2) ==
    up2 = [s \in Slots |-> IF \E i \in 1..Len(kids) : Slot(kids[i]) = s THEN NoId ELSE up[s]]

Cleared(L, up, x, up2) ==
    \A y \in L \ {x} : up2[Slot(y)] = IF up[Slot(y)] = x THEN NoId ELSE up[Slot(y)]

(* None but the kids lost a parent, and they had x for one. *)
Freed(L, V, up, S, x, kids, up2) ==
    /\ up2[Slot(x)] = up[Slot(x)] /\ x \notin ToSet(kids)
    /\ \A y \in ToSet(kids) : up[Slot(y)] = x /\ up2[Slot(y)] = NoId /\ (y \in V => y \in S)
    /\ \A y \in L \cup V : up2[Slot(y)] # up[Slot(y)] => y \in ToSet(kids)
    /\ \A s \in Slots : up2[s] \in {NoId, up[s]}

(* What of the children of x is alive stands after the roots there were. *)
MadeRoots(lists, x, kids, new) ==
    /\ new.top = lists.top \o kids
    /\ new.kids[Slot(x)] = <<>>
    /\ \A s \in Slots : s # Slot(x) => new.kids[s] = lists.kids[s]

\* The parents once those of the children of an entity are cleared.
LEMMA OrphansHaveNoParent ==
    ASSUME NEW L, NEW V, NEW g \in [Slots -> Nat], Stamped(L \cup V, g), L \cap V = {},
           NEW up \in [Slots -> Ids \cup {NoId}], NEW S,
           NEW x \in L, up[Slot(x)] # x,
           NEW lists \in AllLists, ListsHold(L, g, up, lists), StraysHold(L, V, g, up, S, lists),
           NEW out \in AllLists, ListsHold(L \ {x}, g, up, out), Shrunk(lists, out),
           NEW kids \in Seq(Ids), ToSet(kids) = {y \in ToSet(out.kids[Slot(x)]) : y \in L \cup V},
           NEW up2, Orphaned(up, kids, up2)
    PROVE  /\ up2 \in [Slots -> Ids \cup {NoId}]
           /\ Cleared(L, up, x, up2) /\ Freed(L, V, up, S, x, kids, up2)
  <1> DEFINE t == Slot(x)
  <1> USE DEF Orphaned
  <1>1. /\ \A y \in L \cup V : Slot(y) \in Slots /\ y \in Ids /\ Generation(y) = g[Slot(y)] /\ Generation(y) \in Nat
        /\ \A y, z \in L \cup V : Slot(y) = Slot(z) => y = z
        /\ \A y \in L \cup V : y = <<Slot(y), g[Slot(y)]>>
    <2> DEFINE A == L \cup V
    <2>1. Stamped(A, g)
      OBVIOUS
    <2> HIDE DEF A
    <2>2. /\ \A y \in A : Slot(y) \in Slots /\ y \in Ids /\ Generation(y) = g[Slot(y)] /\ Generation(y) \in Nat
          /\ \A y, z \in A : Slot(y) = Slot(z) => y = z
          /\ \A y \in A : y = <<Slot(y), g[Slot(y)]>>
      BY ONLY <2>1, g \in [Slots -> Nat], StampedFacts
    <2> QED
      BY <2>2 DEF A
  <1>2. t \in Slots /\ x = <<t, g[t]>>
    BY <1>1
  <1>3. ToSet(kids) = {kids[i] : i \in 1..Len(kids)}
    BY ToSetFacts
  <1>4. \A s \in Slots : up2[s] = IF \E y \in ToSet(kids) : Slot(y) = s THEN NoId ELSE up[s]
    BY <1>3
  <1>5. \A s \in Slots : up2[s] \in {NoId, up[s]}
    BY <1>4
  <1>6. up2 \in [Slots -> Ids \cup {NoId}]
    BY <1>5
  <1> HIDE DEF Orphaned
  <1>7. ASSUME NEW y \in ToSet(kids)
        PROVE  y \in L \cup V /\ up[Slot(y)] = x /\ up2[Slot(y)] = NoId /\ (y \in V => y \in S)
    <2>1. y \in ToSet(lists.kids[t]) /\ y \in L \cup V
      BY <1>2 DEF Shrunk
    <2>2. up2[Slot(y)] = NoId
      BY <1>1, <1>4, <2>1
    <2>3. CASE y \in L
      <3>1. y \in ToSet(lists.kids[t]) \cap L
        BY <2>1, <2>3
      <3>2. ToSet(lists.kids[t]) \cap L = {z \in L : up[Slot(z)] = <<t, g[t]>>}
        BY <1>2 DEF ListsHold
      <3> QED
        BY <1>2, <2>1, <2>2, <2>3, <3>1, <3>2
    <2>4. CASE y \in V
      <3>1. StrayAt(V, g, up, S, y, <<t, g[t]>>)
        BY <1>2, <2>1, <2>4 DEF StraysHold
      <3>2. ~(Generation(y) < g[Slot(y)])
        BY <1>1, <2>1
      <3> QED
        BY <1>2, <2>2, <2>4, <3>1, <3>2 DEF StrayAt
    <2> QED
      BY <2>1, <2>3, <2>4
  <1>8. x \notin ToSet(kids) /\ up2[Slot(x)] = up[Slot(x)]
    <2>1. x \notin ToSet(kids)
      BY <1>7
    <2>2. ~\E y \in ToSet(kids) : Slot(y) = Slot(x)
      BY <1>1, <1>7, <2>1
    <2> QED
      BY <1>2, <1>4, <2>1, <2>2
  <1>9. ASSUME NEW y \in L \cup V, up2[Slot(y)] # up[Slot(y)] PROVE y \in ToSet(kids)
    <2>1. PICK z \in ToSet(kids) : Slot(z) = Slot(y)
      BY <1>1, <1>4, <1>9
    <2> QED
      BY <1>1, <1>7, <2>1
  <1>10. ASSUME NEW y \in L \ {x}
         PROVE  up2[Slot(y)] = IF up[Slot(y)] = x THEN NoId ELSE up[Slot(y)]
    <2>1. CASE up[Slot(y)] = x
      <3>1. y \in ToSet(out.kids[t])
        BY <1>2, <2>1 DEF ListsHold
      <3> QED
        BY <1>7, <2>1, <3>1
    <2>2. CASE up[Slot(y)] # x
      BY <1>7, <1>9, <2>2
    <2> QED
      BY <2>1, <2>2
  <1> QED
    BY <1>5, <1>6, <1>7, <1>8, <1>9, <1>10 DEF Cleared, Freed

\* The lists once an entity is out of the tree and its children are roots.  It
\* is in no list, or it is one of those that may stand in one.
\* (tc_entity_pool_free)
LEMMA OrphansAreRoots ==
    ASSUME NEW L, NEW V, NEW g \in [Slots -> Nat], Stamped(L \cup V, g), L \cap V = {},
           NEW up \in [Slots -> Ids \cup {NoId}], ParentsHold(L, up), NEW S,
           NEW x \in L, up[Slot(x)] # x,
           NEW lists \in AllLists, ListsHold(L, g, up, lists), StraysHold(L, V, g, up, S, lists),
           NEW out \in AllLists, ListsHold(L \ {x}, g, up, out), Shrunk(lists, out),
           Unlisted(x, out) \/ x \in S,
           NEW kids \in Seq(Ids), IsInjective(kids),
           ToSet(kids) = {y \in ToSet(out.kids[Slot(x)]) : y \in L \cup V},
           NEW up2, Cleared(L, up, x, up2), Freed(L, V, up, S, x, kids, up2),
           NEW new \in AllLists, MadeRoots(out, x, kids, new)
    PROVE  /\ ListsHold(L \ {x}, g, up2, new)
           /\ StraysHold(L \ {x}, V \cup {x}, g, up2, S, new)
           /\ ParentsHold(L \ {x}, up2)
  <1> DEFINE M == L \ {x}
             t == Slot(x)
  <1>1. /\ NoId \notin L \cup V
        /\ \A y \in L \cup V : Slot(y) \in Slots /\ y \in Ids /\ Generation(y) = g[Slot(y)] /\ Generation(y) \in Nat
        /\ \A y \in L \cup V : y = <<Slot(y), g[Slot(y)]>>
        /\ \A s \in Slots : <<s, g[s]>> # NoId /\ Slot(<<s, g[s]>>) = s
    BY StampedFacts
  <1>2. t \in Slots /\ x = <<t, g[t]>> /\ x # NoId
    BY <1>1
  <1>3. /\ Cleared(L, up, x, up2)
        /\ up2[Slot(x)] = up[Slot(x)] /\ x \notin ToSet(kids)
        /\ \A y \in ToSet(kids) : up[Slot(y)] = x /\ up2[Slot(y)] = NoId /\ (y \in V => y \in S)
        /\ \A y \in L \cup V : up2[Slot(y)] # up[Slot(y)] => y \in ToSet(kids)
        /\ \A s \in Slots : up2[s] \in {NoId, up[s]}
    BY DEF Freed
  <1>4. /\ out.kids \in [Slots -> Seq(Ids)] /\ out.top \in Seq(Ids)
        /\ \A s \in Slots : IsInjective(out.kids[s]) /\ ToSet(out.kids[s]) \cap M = {y \in M : up[Slot(y)] = <<s, g[s]>>}
        /\ IsInjective(out.top) /\ ToSet(out.top) \cap M = {y \in M : up[Slot(y)] = NoId}
    BY DEF AllLists, ListsHold
  <1>5. /\ new.top = out.top \o kids
        /\ new.kids[t] = <<>>
        /\ \A s \in Slots : s # t => new.kids[s] = out.kids[s]
    BY DEF MadeRoots
  <1>6. \A y \in M : up2[Slot(y)] = IF up[Slot(y)] = x THEN NoId ELSE up[Slot(y)]
    BY <1>3 DEF Cleared
  <1>7. \A y, o : StrayAt(V, g, up, S, y, o) => y \in S /\ ((y \in V /\ up[Slot(y)] = o) \/ (y \notin L \cup V /\ Generation(y) < g[Slot(y)]))
    <2> TAKE y, o
    <2> HAVE StrayAt(V, g, up, S, y, o)
    <2>1. y \in S /\ ((y \in V /\ up[Slot(y)] = o) \/ Generation(y) < g[Slot(y)])
      BY DEF StrayAt
    <2>2. y \in L \cup V => ~(Generation(y) < g[Slot(y)])
      BY <1>1
    <2>3. CASE y \in V /\ up[Slot(y)] = o
      BY <2>1, <2>3, Zenon
    <2>4. CASE ~(y \in V /\ up[Slot(y)] = o)
      <3>1. Generation(y) < g[Slot(y)]
        BY <2>1, <2>4, Zenon
      <3>2. y \notin L \cup V
        BY <2>2, <3>1, Zenon
      <3> QED
        BY <2>1, <2>4, <3>1, <3>2, Zenon
    <2> QED
      BY <2>3, <2>4, Zenon
  <1>8. /\ \A s \in Slots : /\ <<s, g[s]>> \notin L => lists.kids[s] = <<>>
                            /\ \A y \in ToSet(out.kids[s]) \ L : StrayAt(V, g, up, S, y, <<s, g[s]>>)
        /\ \A y \in ToSet(out.top) \ L : StrayAt(V, g, up, S, y, NoId)
    BY DEF StraysHold, Shrunk
  <1>9. /\ \A s \in Slots : x \in ToSet(out.kids[s]) => up[Slot(x)] = <<s, g[s]>> /\ x \in S
        /\ x \in ToSet(out.top) => up[Slot(x)] = NoId /\ x \in S
    <2>1. ASSUME NEW s \in Slots, x \in ToSet(out.kids[s]) PROVE up[Slot(x)] = <<s, g[s]>> /\ x \in S
      <3>1. x \in ToSet(lists.kids[s]) \cap L
        BY <2>1 DEF Shrunk
      <3> QED
        BY <2>1, <3>1 DEF ListsHold, Unlisted
    <2>2. ASSUME x \in ToSet(out.top) PROVE up[Slot(x)] = NoId /\ x \in S
      <3>1. x \in ToSet(lists.top) \cap L
        BY <2>2 DEF Shrunk
      <3> QED
        BY <2>2, <3>1 DEF ListsHold, Unlisted
    <2> QED
      BY <2>1, <2>2
  <1> HIDE DEF t
  <1>10. IsInjective(<<>>) /\ ToSet(<<>>) = {}
    BY DEF IsInjective, ToSet
  <1>11. IsInjective(new.top) /\ ToSet(new.top) = ToSet(out.top) \cup ToSet(kids)
    <2>1. ASSUME NEW y \in ToSet(out.top), y \in ToSet(kids) PROVE FALSE
      <3>1. up[Slot(y)] = x /\ y \in L \cup V /\ y # x
        BY <1>3, <2>1
      <3>2. CASE y \in L
        BY <1>2, <1>4, <2>1, <3>1, <3>2
      <3>3. CASE y \notin L
        BY <1>2, <1>7, <1>8, <2>1, <3>1, <3>3
      <3> QED
        BY <3>2, <3>3
    <2>2. ToSet(out.top) \cap ToSet(kids) = {}
      BY <2>1
    <2>3. /\ ToSet(out.top \o kids) = ToSet(out.top) \cup ToSet(kids)
          /\ IsInjective(out.top \o kids)
      BY <1>4, <2>2, ConcatFacts
    <2> QED
      BY <1>5, <2>3, Zenon
  <1>12. ASSUME NEW s \in Slots
         PROVE  /\ IsInjective(new.kids[s])
                /\ ToSet(new.kids[s]) \cap M = {y \in M : up2[Slot(y)] = <<s, g[s]>>}
    <2>1. <<s, g[s]>> # NoId
      BY <1>1
    <2>2. CASE s = t
      <3>1. \A y \in M : up2[Slot(y)] # x
        BY <1>2, <1>6
      <3>2. {y \in M : up2[Slot(y)] = <<s, g[s]>>} = {}
        BY <1>2, <2>2, <3>1
      <3> QED
        BY <1>5, <1>10, <2>2, <3>2
    <2>3. CASE s # t
      <3>1. <<s, g[s]>> # x
        BY <1>2, <2>3
      <3>2. \A y \in M : up2[Slot(y)] = <<s, g[s]>> <=> up[Slot(y)] = <<s, g[s]>>
        BY <1>6, <2>1, <3>1
      <3>3. {y \in M : up2[Slot(y)] = <<s, g[s]>>} = {y \in M : up[Slot(y)] = <<s, g[s]>>}
        BY <3>2
      <3>4. new.kids[s] = out.kids[s]
        BY <1>5, <2>3
      <3> QED
        BY <1>4, <3>3, <3>4
    <2> QED
      BY <2>2, <2>3
  <1>13. ToSet(new.top) \cap M = {y \in M : up2[Slot(y)] = NoId}
    <2>1. \A y \in M : up2[Slot(y)] = NoId <=> (up[Slot(y)] = NoId \/ up[Slot(y)] = x)
      BY <1>2, <1>6
    <2>2. \A y \in M : y \in ToSet(kids) <=> up[Slot(y)] = x
      <3> TAKE y \in M
      <3>1. up[Slot(y)] = x => y \in ToSet(out.kids[t])
        BY <1>2, <1>4
      <3> QED
        BY <1>3, <3>1 DEF t
    <2> QED
      BY <1>4, <1>11, <2>1, <2>2
  <1>14. ListsHold(M, g, up2, new)
    BY <1>11, <1>12, <1>13 DEF ListsHold
  <1>15. ParentsHold(M, up2)
    <2>1. \A y \in M : up[Slot(y)] = x \/ up[Slot(y)] \in M \cup {NoId}
      BY DEF ParentsHold
    <2> QED
      BY <1>6, <2>1 DEF ParentsHold
  <1>16. ASSUME NEW s \in Slots
         PROVE  /\ <<s, g[s]>> \notin M => new.kids[s] = <<>>
                /\ \A y \in ToSet(new.kids[s]) \ M : StrayAt(V \cup {x}, g, up2, S, y, <<s, g[s]>>)
    <2>1. CASE s = t
      BY <2>1, <1>5, <1>10
    <2>2. CASE s # t
      <3>1. new.kids[s] = out.kids[s] /\ <<s, g[s]>> # x
        BY <1>2, <1>5, <2>2
      <3>2. ASSUME <<s, g[s]>> \notin M PROVE new.kids[s] = <<>>
        <4>1. lists.kids[s] = <<>>
          BY <1>8, <3>1, <3>2
        <4>2. ToSet(out.kids[s]) = {}
          BY <1>10, <4>1 DEF Shrunk
        <4> QED
          BY <1>4, <3>1, <4>2, EmptyIffNoElement
      <3>3. ASSUME NEW y \in ToSet(new.kids[s]) \ M PROVE StrayAt(V \cup {x}, g, up2, S, y, <<s, g[s]>>)
        <4>1. CASE y = x
          BY <1>3, <1>9, <3>1, <3>3, <4>1 DEF StrayAt
        <4>2. CASE y # x
          <5>1. StrayAt(V, g, up, S, y, <<s, g[s]>>)
            BY <1>8, <3>1, <3>3, <4>2
          <5>2. y \in V => up2[Slot(y)] = up[Slot(y)]
            BY <1>3, <1>7, <3>1, <5>1
          <5> QED
            BY <5>1, <5>2 DEF StrayAt
        <4> QED
          BY <4>1, <4>2
      <3> QED
        BY <3>2, <3>3
    <2> QED
      BY <2>1, <2>2
  <1>17. ASSUME NEW y \in ToSet(new.top) \ M PROVE StrayAt(V \cup {x}, g, up2, S, y, NoId)
    <2>1. CASE y \in ToSet(kids)
      <3>1. y \in V /\ y \in S /\ up2[Slot(y)] = NoId
        BY <1>3, <1>17, <2>1
      <3> QED
        BY <3>1 DEF StrayAt
    <2>2. CASE y = x
      BY <1>3, <1>9, <1>11, <1>17, <2>2 DEF StrayAt
    <2>3. CASE y \notin ToSet(kids) /\ y # x
      <3>1. y \in ToSet(out.top) \ L
        BY <1>11, <1>17, <2>3
      <3>2. StrayAt(V, g, up, S, y, NoId)
        BY <1>8, <3>1
      <3>3. y \in V => up2[Slot(y)] = up[Slot(y)]
        BY <1>3, <2>3
      <3> QED
        BY <3>2, <3>3 DEF StrayAt
    <2> QED
      BY <2>1, <2>2, <2>3
  <1>18. StraysHold(M, V \cup {x}, g, up2, S, new)
    BY <1>16, <1>17 DEF StraysHold
  <1> QED
    BY <1>14, <1>15, <1>18

-----------------------------------------------------------------------------
(* The stack of operations: one is begun on top, ended, or goes on.        *)

\* The fields of a frame.
LEMMA FrameFields ==
    ASSUME NEW f \in Frames
    PROVE  /\ f.pool \in Pools /\ f.id \in Ids \cup {NoId} /\ f.old \in Ids \cup {NoId}
           /\ f.comp \in Components \cup {NoComponent} /\ f.other \in Components \cup {NoComponent}
           /\ f.at \in Nat /\ f.to \in Pools \cup {NoPool} /\ f.copy \in Ids \cup {NoId}
           /\ f.made \in BOOLEAN
  BY DEF Frames

\* The frames of a stack that is not empty: all but the top one, and the top.
LEMMA StackParts ==
    ASSUME NEW fs \in Seq(Frames), fs # <<>>
    PROVE  /\ Len(fs) \in Nat \ {0} /\ Len(fs) \in 1..Len(fs)
           /\ Front(fs) \in Seq(Frames) /\ Len(Front(fs)) = Len(fs) - 1
           /\ \A i \in 1..(Len(fs) - 1) : Front(fs)[i] = fs[i] /\ i \in 1..Len(fs)
           /\ Last(fs) = fs[Len(fs)] /\ Last(fs) \in Frames
           /\ fs = Append(Front(fs), Last(fs))
           /\ \A g \in Frames : [fs EXCEPT ![Len(fs)] = g] = Append(Front(fs), g)
  <1>1. /\ Front(fs) \in Seq(Frames) /\ Len(Front(fs)) = Len(fs) - 1
        /\ Len(fs) \in Nat \ {0}
        /\ \A i \in 1..(Len(fs) - 1) : Front(fs)[i] = fs[i]
        /\ Last(fs) = fs[Len(fs)] /\ Last(fs) \in Frames
    BY FrontFacts
  <1>2. Len(fs) \in 1..Len(fs) /\ \A i \in 1..(Len(fs) - 1) : i \in 1..Len(fs)
    BY <1>1
  <1>3. ASSUME NEW g \in Frames
        PROVE  [fs EXCEPT ![Len(fs)] = g] = Append(Front(fs), g)
    <2> DEFINE a == [fs EXCEPT ![Len(fs)] = g]
               b == Append(Front(fs), g)
               n == Len(fs)
    <2>1. a \in Seq(Frames) /\ Len(a) = n /\ a[n] = g /\ \A i \in 1..(n - 1) : a[i] = fs[i]
      BY <1>1, <1>2
    <2>2. /\ b \in Seq(Frames) /\ Len(b) = (n - 1) + 1 /\ b[(n - 1) + 1] = g
          /\ \A i \in 1..(n - 1) : b[i] = Front(fs)[i]
      BY <1>1, AppendFacts
    <2>3. n \in Nat \ {0} /\ (n - 1) + 1 = n
      BY <1>1
    <2> HIDE DEF a, b, n
    <2>4. \A i \in 1..n : i = n \/ i \in 1..(n - 1)
      BY <2>3
    <2>5. \A i \in 1..n : a[i] = b[i]
      BY <1>1, <2>1, <2>2, <2>3, <2>4 DEF n
    <2>6. a = [i \in 1..n |-> a[i]] /\ b = [i \in 1..n |-> b[i]]
      BY <2>1, <2>2, <2>3
    <2> QED
      BY <2>5, <2>6, Zenon DEF a, b, n
  <1>4. fs = [fs EXCEPT ![Len(fs)] = Last(fs)]
    BY <1>1
  <1>5. fs = Append(Front(fs), Last(fs))
    BY <1>1, <1>3, <1>4
  <1> QED
    BY <1>1, <1>2, <1>3, <1>5

\* What the frames beneath hold when the ones above are gone.
LEMMA StackPrefix ==
    ASSUME NEW w, NEW fs \in Seq(Frames), StackOK(w, fs), NEW n \in 0..Len(fs)
    PROVE  /\ SubSeq(fs, 1, n) \in Seq(Frames) /\ Len(SubSeq(fs, 1, n)) = n
           /\ \A i \in 1..n : SubSeq(fs, 1, n)[i] = fs[i] /\ i \in 1..Len(fs)
           /\ StackOK(w, SubSeq(fs, 1, n))
  <1> DEFINE r == SubSeq(fs, 1, n)
  <1>1. Len(fs) \in Nat /\ n \in Nat /\ n <= Len(fs)
    OBVIOUS
  <1>2. r \in Seq(Frames) /\ Len(r) = n /\ \A i \in 1..n : r[i] = fs[i]
    OBVIOUS
  <1>3. \A i \in 1..n : i \in 1..Len(fs)
    BY <1>1
  <1>4. \A i \in 1..(n - 1) : i \in 1..n /\ i + 1 \in 1..n /\ i \in 1..(Len(fs) - 1)
    BY <1>1
  <1> HIDE DEF r
  <1>5. r # <<>> => 1 \in 1..n /\ fs # <<>>
    BY <1>1, <1>2
  <1>6. r # <<>> => ~r[1].made
    BY <1>2, <1>5 DEF StackOK
  <1>7. \A i \in 1..n : FrameOK(w, r[i])
    BY <1>2, <1>3 DEF StackOK
  <1>8. \A i \in 1..(n - 1) : NestOK(w, r[i], r[i + 1])
    BY <1>2, <1>4 DEF StackOK
  <1>9. \A i, j \in 1..n : i < j => PairOK(r[i], r[j])
    BY <1>2, <1>3 DEF StackOK
  <1>10. StackOK(w, r)
    BY <1>2, <1>6, <1>7, <1>8, <1>9 DEF StackOK
  <1> QED
    BY <1>2, <1>3, <1>10 DEF r

\* The top frame and what it has beneath it.
LEMMA StackTop ==
    ASSUME NEW w, NEW fs \in Seq(Frames), StackOK(w, fs), fs # <<>>
    PROVE  /\ StackOK(w, Front(fs))
           /\ FrameOK(w, Last(fs))
           /\ Front(fs) = <<>> => ~Last(fs).made
           /\ Front(fs) # <<>> => NestOK(w, Last(Front(fs)), Last(fs))
           /\ \A i \in 1..Len(Front(fs)) : PairOK(Front(fs)[i], Last(fs))
  <1> DEFINE n == Len(fs)
             r == Front(fs)
             t == Last(fs)
  <1>1. /\ n \in Nat \ {0} /\ n \in 1..n /\ r \in Seq(Frames) /\ Len(r) = n - 1
        /\ \A i \in 1..(n - 1) : r[i] = fs[i] /\ i \in 1..n
        /\ t = fs[n]
    BY StackParts
  <1>2. r = SubSeq(fs, 1, n - 1) /\ n - 1 \in 0..n
    BY <1>1 DEF Front
  <1>3. StackOK(w, r)
    BY <1>2, StackPrefix
  <1> HIDE DEF r, t
  <1>4. FrameOK(w, t)
    BY <1>1 DEF StackOK
  <1>5. r = <<>> => n = 1
    BY <1>1
  <1>6. r = <<>> => ~t.made
    BY <1>1, <1>5 DEF StackOK
  <1>7. ASSUME r # <<>> PROVE NestOK(w, Last(r), t)
    <2>1. n - 1 \in 1..(n - 1) /\ (n - 1) + 1 = n
      BY <1>1, <1>7, EmptySeq
    <2>2. Last(r) = r[n - 1]
      BY <1>1 DEF Last
    <2>3. NestOK(w, fs[n - 1], fs[n])
      BY <2>1 DEF StackOK
    <2> QED
      BY <1>1, <2>1, <2>2, <2>3
  <1>8. ASSUME NEW i \in 1..(n - 1) PROVE PairOK(r[i], t)
    <2>1. i < n
      BY <1>1
    <2> QED
      BY <1>1, <2>1 DEF StackOK
  <1> QED
    BY <1>1, <1>3, <1>4, <1>6, <1>7, <1>8 DEF r, t

\* A frame that fits on top.
LEMMA StackPush ==
    ASSUME NEW w, NEW fs \in Seq(Frames), StackOK(w, fs), NEW g \in Frames, FrameOK(w, g),
           fs = <<>> => ~g.made,
           fs # <<>> => NestOK(w, Last(fs), g),
           \A i \in 1..Len(fs) : PairOK(fs[i], g)
    PROVE  Append(fs, g) \in Seq(Frames) /\ StackOK(w, Append(fs, g))
  <1> DEFINE n == Len(fs)
             r == Append(fs, g)
  <1>1. /\ n \in Nat /\ r \in Seq(Frames) /\ Len(r) = n + 1
        /\ \A i \in 1..n : r[i] = fs[i]
        /\ r[n + 1] = g
    OBVIOUS
  <1>2. \A i \in 1..(n + 1) : i = n + 1 \/ i \in 1..n
    BY <1>1
  <1> HIDE DEF r
  <1>3. fs = <<>> => n = 0
    OBVIOUS
  <1>4. fs # <<>> => n \in Nat \ {0} /\ 1 \in 1..n /\ Last(fs) = fs[n]
    BY EmptySeq DEF Last
  <1>5. ~r[1].made
    <2>1. CASE fs = <<>>
      BY <1>1, <1>3, <2>1
    <2>2. CASE fs # <<>>
      BY <1>1, <1>4, <2>2 DEF StackOK
    <2> QED
      BY <2>1, <2>2
  <1>6. \A i \in 1..(n + 1) : FrameOK(w, r[i])
    BY <1>1, <1>2 DEF StackOK
  <1>7. ASSUME NEW i \in 1..n PROVE NestOK(w, r[i], r[i + 1])
    <2>1. CASE i = n
      <3>1. fs # <<>>
        BY <1>1, <1>3
      <3> QED
        BY <1>1, <1>4, <2>1, <3>1
    <2>2. CASE i # n
      <3>1. i \in 1..(n - 1) /\ i + 1 \in 1..n
        BY <1>1, <2>2
      <3> QED
        BY <1>1, <3>1 DEF StackOK
    <2> QED
      BY <2>1, <2>2
  <1>8. ASSUME NEW i \in 1..(n + 1), NEW j \in 1..(n + 1), i < j PROVE PairOK(r[i], r[j])
    <2>1. i \in 1..n
      BY <1>1, <1>8
    <2>2. CASE j = n + 1
      BY <1>1, <2>1, <2>2
    <2>3. CASE j \in 1..n
      BY <1>1, <1>8, <2>1, <2>3 DEF StackOK
    <2> QED
      BY <1>2, <2>2, <2>3
  <1>9. (n + 1) - 1 = n
    BY <1>1
  <1>10. StackOK(w, r)
    BY <1>1, <1>5, <1>6, <1>7, <1>8, <1>9 DEF StackOK
  <1> QED
    BY <1>1, <1>10 DEF r

\* The frames that rely on nothing the pools have changed.
LEMMA StackSeesLittle ==
    ASSUME NEW w, NEW v, NEW fs \in Seq(Frames), StackOK(w, fs),
           \A i \in 1..Len(fs) : FrameOK(w, fs[i]) => FrameOK(v, fs[i]),
           \A i \in 1..(Len(fs) - 1) :
              fs[i].op = "migrate" /\ fs[i + 1].op = "migrate" /\ FrameOK(w, fs[i + 1])
                /\ fs[i + 1].pool = fs[i].pool
                => Up(v, fs[i].pool, fs[i + 1].id) = Up(w, fs[i].pool, fs[i + 1].id)
    PROVE  StackOK(v, fs)
  <1>1. \A i \in 1..Len(fs) : FrameOK(v, fs[i])
    BY DEF StackOK
  <1>2. ASSUME NEW i \in 1..(Len(fs) - 1) PROVE NestOK(v, fs[i], fs[i + 1])
    <2>1. i \in 1..Len(fs) /\ i + 1 \in 1..Len(fs) /\ i < i + 1
      OBVIOUS
    <2>2. FrameOK(w, fs[i + 1]) /\ NestOK(w, fs[i], fs[i + 1]) /\ PairOK(fs[i], fs[i + 1])
      BY <2>1 DEF StackOK
    <2> QED
      BY <2>1, <2>2 DEF NestOK, PairOK
  <1> QED
    BY <1>1, <1>2 DEF StackOK

\* A migration calls nobody: the host runs, or another operation goes on,
\* only when there is none.
LEMMA NoMigration ==
    ASSUME NEW w, NEW fs \in Seq(Frames), StackOK(w, fs),
           fs # <<>> => Last(fs).op # "migrate"
    PROVE  \A i \in 1..Len(fs) : fs[i].op # "migrate"
  <1> SUFFICES ASSUME NEW i \in 1..Len(fs), fs[i].op = "migrate" PROVE FALSE
    OBVIOUS
  <1>1. fs # <<>> /\ Len(fs) \in Nat
    OBVIOUS
  <1>2. Last(fs) = fs[Len(fs)] /\ Len(fs) \in 1..Len(fs)
    BY <1>1, StackParts
  <1>3. i < Len(fs)
    BY <1>1, <1>2
  <1>4. PairOK(fs[i], fs[Len(fs)])
    BY <1>2, <1>3 DEF StackOK
  <1> QED
    BY <1>1, <1>2, <1>4 DEF PairOK

\* The stage of a migration is none in which the host runs.
LEMMA NoMigrationUnderHost ==
    ASSUME NEW w, NEW fs \in Seq(Frames), StackOK(w, fs),
           fs # <<>> => Last(fs).stage \in Callbacks
    PROVE  \A i \in 1..Len(fs) : fs[i].op # "migrate"
  <1>1. ASSUME fs # <<>> PROVE Last(fs).op # "migrate"
    <2>1. FrameOK(w, Last(fs))
      BY <1>1, StackTop
    <2> QED
      BY <1>1, <2>1 DEF FrameOK, MigrationOK, Callbacks
  <1> QED
    BY <1>1, NoMigration

\* The moves stay apart from the other operations when these are among those
\* there were, and so are the moves.
LEMMA StillApart ==
    ASSUME NEW w, NEW v, NEW fs, NEW hs, MovesApart(w, fs),
           \A p \in Pools : v.live[p] = w.live[p] /\ v.up = w.up,
           \A i \in 1..Len(hs) : hs[i] \in Frames,
           \A i \in 1..Len(hs) :
              hs[i].op # "destroy" =>
                 \E j \in 1..Len(fs) : /\ fs[j].op = hs[i].op /\ fs[j].pool = hs[i].pool
                                       /\ fs[j].id = hs[i].id
    PROVE  MovesApart(v, hs)
  <1> SUFFICES ASSUME NEW i \in 1..Len(hs), hs[i].op = "migrate" PROVE Apart(v, hs, hs[i])
    BY DEF MovesApart
  <1>1. hs[i].pool \in Pools
    BY DEF Frames
  <1>2. PICK j \in 1..Len(fs) : fs[j].op = "migrate" /\ fs[j].pool = hs[i].pool /\ fs[j].id = hs[i].id
    OBVIOUS
  <1>3. Apart(w, fs, fs[j])
    BY <1>2 DEF MovesApart
  <1>4. PICK C \in SUBSET w.live[hs[i].pool] :
           /\ hs[i].id \in C
           /\ \A x \in w.live[hs[i].pool] : Up(w, hs[i].pool, x) \in C => x \in C
           /\ \A k \in 1..Len(fs) :
                fs[k].pool = hs[i].pool /\ fs[k].op \notin {"migrate", "destroy"} => fs[k].id \notin C
    BY <1>2, <1>3 DEF Apart
  <1>5. \A k \in 1..Len(hs) :
           hs[k].pool = hs[i].pool /\ hs[k].op \notin {"migrate", "destroy"} => hs[k].id \notin C
    BY <1>4
  <1>6. \A x : Up(v, hs[i].pool, x) = Up(w, hs[i].pool, x)
    BY <1>1 DEF Up
  <1> QED
    BY <1>1, <1>4, <1>5, <1>6 DEF Apart

\* Without a move there is nothing to keep apart.
LEMMA NothingMoves ==
    ASSUME NEW w, NEW fs, \A i \in 1..Len(fs) : fs[i].op # "migrate"
    PROVE  MovesApart(w, fs)
  BY DEF MovesApart

-----------------------------------------------------------------------------
(* What the frames rely on, when a pool changes under them.                *)

Sane(w) ==
    \A p \in Pools :
        /\ w.gen[p] \in [Slots -> Nat]
        /\ Stamped(w.live[p], w.gen[p])
        /\ w.leaving[p] \subseteq w.live[p]

Grew(w, v, q, x) ==
    /\ \A y \in w.live[q] : Slot(y) # Slot(x)
    /\ v.live[q] = w.live[q] \cup {x}
    /\ \A p \in Pools : p # q => v.live[p] = w.live[p]
    /\ \A p \in Pools : v.leaving[p] = w.leaving[p]
    /\ v.gen = w.gen
    /\ \A p \in Pools, s \in Slots : p # q \/ s # Slot(x) => v.up[p][s] = w.up[p][s]
    /\ v.up[q][Slot(x)] = NoId
    /\ v.strays = w.strays

\* A new entity is no concern of the operations in progress.
LEMMA GrowthUnseen ==
    ASSUME NEW w, NEW v, NEW fs \in Seq(Frames), Sane(w), StackOK(w, fs), MovesApart(w, fs),
           NEW q \in Pools, NEW x \in Ids,
           Grew(w, v, q, x)
    PROVE  StackOK(v, fs) /\ MovesApart(v, fs)
  <1> USE DEF Grew
  <1>1. \A p \in Pools : \A y \in w.live[p] : y \in Ids /\ Slot(y) \in Slots /\ y \in v.live[p]
    BY StampedFacts DEF Sane
  <1>2. \A p \in Pools : \A y \in w.live[p] : Up(v, p, y) = Up(w, p, y)
    BY <1>1 DEF Up
  <1>3. \A p \in Pools : InTree(w, p) \subseteq InTree(v, p) /\ InTree(w, p) \subseteq w.live[p]
    BY DEF InTree
  <1>4. \A p \in Pools : \A y : RootIn(w, p, y) => RootIn(v, p, y)
    BY <1>2, <1>3 DEF RootIn
  <1>5. ASSUME NEW f \in Frames, FrameOK(w, f) PROVE FrameOK(v, f)
    <2>1. f.pool \in Pools
      BY DEF Frames
    <2>2. f.op # "destroy" => f.id \in w.live[f.pool] /\ f.id \in v.live[f.pool]
      BY <1>1, <1>5, <2>1 DEF FrameOK
    <2>3. f.op = "free" /\ f.stage # "published" => OldOK(v, f)
      <3> SUFFICES ASSUME f.op = "free", f.stage # "published" PROVE OldOK(v, f)
        OBVIOUS
      <3>1. OldOK(w, f) /\ Up(v, f.pool, f.id) = Up(w, f.pool, f.id)
        BY <1>2, <1>5, <2>1, <2>2 DEF FrameOK
      <3>2. v.leaving[f.pool] = w.leaving[f.pool] /\ (GoneIn(w, f.pool, f.old) => GoneIn(v, f.pool, f.old))
        BY <2>1 DEF GoneIn
      <3> QED
        BY <3>1, <3>2 DEF OldOK
    <2>4. f.op = "migrate" => MigrationOK(v, f)
      <3> SUFFICES ASSUME f.op = "migrate" PROVE MigrationOK(v, f)
        OBVIOUS
      <3>1. MigrationOK(w, f)
        BY <1>5 DEF FrameOK
      <3> QED
        BY <1>3, <1>4, <2>1, <3>1 DEF MigrationOK
    <2> QED
      BY <1>5, <2>2, <2>3, <2>4 DEF FrameOK
  <1>6. \A i \in 1..Len(fs) : fs[i] \in Frames /\ fs[i].pool \in Pools
    <2>1. \A i \in 1..Len(fs) : fs[i] \in Frames
      OBVIOUS
    <2> QED
      BY <2>1, FrameFields
  <1>7. StackOK(v, fs)
    <2>1. ASSUME NEW i \in 1..(Len(fs) - 1), fs[i].op = "migrate", fs[i + 1].op = "migrate",
                 FrameOK(w, fs[i + 1]), fs[i + 1].pool = fs[i].pool
          PROVE  Up(v, fs[i].pool, fs[i + 1].id) = Up(w, fs[i].pool, fs[i + 1].id)
      <3>1. i \in 1..Len(fs) /\ i + 1 \in 1..Len(fs)
        OBVIOUS
      <3> QED
        BY <1>2, <1>6, <2>1, <3>1 DEF FrameOK
    <2> QED
      BY <1>5, <1>6, <2>1, StackSeesLittle
  <1>8. MovesApart(v, fs)
    <2> SUFFICES ASSUME NEW i \in 1..Len(fs), fs[i].op = "migrate" PROVE Apart(v, fs, fs[i])
      BY DEF MovesApart
    <2> DEFINE p == fs[i].pool
    <2>1. p \in Pools
      BY <1>6
    <2>2. PICK C \in SUBSET w.live[p] :
             /\ fs[i].id \in C
             /\ \A y \in w.live[p] : Up(w, p, y) \in C => y \in C
             /\ \A k \in 1..Len(fs) :
                  fs[k].pool = p /\ fs[k].op \notin {"migrate", "destroy"} => fs[k].id \notin C
      BY DEF MovesApart, Apart
    <2>3. NoId \notin C
      BY <1>1, <2>1, PoolAssumption
    <2>4. ASSUME NEW y \in v.live[p], Up(v, p, y) \in C PROVE y \in C
      <3>1. CASE y \in w.live[p]
        BY <1>2, <2>1, <2>2, <2>4, <3>1
      <3>2. CASE y \notin w.live[p]
        <4>1. p = q /\ y = x
          BY <2>1, <2>4, <3>2
        <4> QED
          BY <2>3, <2>4, <4>1 DEF Up
      <3> QED
        BY <3>1, <3>2
    <2>5. C \in SUBSET v.live[p]
      BY <1>1, <2>1
    <2> QED
      BY <2>1, <2>2, <2>4, <2>5 DEF Apart
  <1> QED
    BY <1>7, <1>8

Reparented(w, v, q, x) ==
    /\ \A p \in Pools : v.live[p] = w.live[p] /\ v.leaving[p] = w.leaving[p]
    /\ v.gen = w.gen
    /\ \A p \in Pools, s \in Slots : p # q \/ s # Slot(x) => v.up[p][s] = w.up[p][s]
    /\ \A p \in Pools : w.strays[p] \subseteq v.strays[p]

\* An entity that changes its parent, and is in no migration; while it is
\* freed, it is noted that it was moved.
LEMMA ReparentingUnseen ==
    ASSUME NEW w, NEW v, NEW fs \in Seq(Frames), Sane(w), StackOK(w, fs), MovesApart(w, fs),
           NEW q \in Pools, NEW x \in w.live[q],
           \A i \in 1..Len(fs) : fs[i].op = "free" /\ fs[i].pool = q /\ fs[i].id = x => x \in v.strays[q],
           \A i \in 1..Len(fs) : fs[i].op = "migrate" =>
              fs[i].pool # q /\ fs[i].copy # x /\ fs[i].stage # "attach",
           Reparented(w, v, q, x)
    PROVE  StackOK(v, fs) /\ MovesApart(v, fs)
  <1> USE DEF Reparented
  <1>1. \A p \in Pools : \A y \in w.live[p] :
           Slot(y) \in Slots /\ (p = q /\ Slot(y) = Slot(x) => y = x)
    BY StampedFacts DEF Sane
  <1>2. \A p \in Pools : \A y \in w.live[p] : p # q \/ y # x => Up(v, p, y) = Up(w, p, y)
    BY <1>1 DEF Up
  <1>3. \A p \in Pools : InTree(v, p) = InTree(w, p) /\ InTree(w, p) \subseteq w.live[p]
    BY DEF InTree
  <1>4. \A i \in 1..Len(fs) : fs[i] \in Frames /\ fs[i].pool \in Pools
    <2>1. \A i \in 1..Len(fs) : fs[i] \in Frames
      OBVIOUS
    <2> QED
      BY <2>1, FrameFields
  <1>5. ASSUME NEW i \in 1..Len(fs), FrameOK(w, fs[i]) PROVE FrameOK(v, fs[i])
    <2> DEFINE f == fs[i]
    <2>1. f.pool \in Pools
      BY <1>4
    <2>2. f.op # "destroy" => f.id \in w.live[f.pool] /\ f.id \in v.live[f.pool]
      BY <1>5, <2>1 DEF FrameOK
    <2>3. f.op = "free" /\ f.stage # "published" => OldOK(v, f)
      <3> SUFFICES ASSUME f.op = "free", f.stage # "published" PROVE OldOK(v, f)
        OBVIOUS
      <3>1. CASE f.pool = q /\ f.id = x
        BY <3>1 DEF OldOK
      <3>2. CASE ~(f.pool = q /\ f.id = x)
        <4>1. OldOK(w, f) /\ Up(v, f.pool, f.id) = Up(w, f.pool, f.id)
          BY <1>2, <1>5, <2>1, <2>2, <3>2 DEF FrameOK
        <4>2. /\ v.leaving[f.pool] = w.leaving[f.pool] /\ w.strays[f.pool] \subseteq v.strays[f.pool]
              /\ GoneIn(w, f.pool, f.old) => GoneIn(v, f.pool, f.old)
          BY <2>1 DEF GoneIn
        <4> QED
          BY <4>1, <4>2 DEF OldOK
      <3> QED
        BY <3>1, <3>2
    <2>4. f.op = "migrate" => MigrationOK(v, f)
      <3> SUFFICES ASSUME f.op = "migrate" PROVE MigrationOK(v, f)
        OBVIOUS
      <3>1. MigrationOK(w, f)
        BY <1>5 DEF FrameOK
      <3>2. f.to \in Pools /\ f.copy \in w.live[f.to]
        BY <1>3, <3>1 DEF MigrationOK, RootIn
      <3>3. RootIn(v, f.to, f.copy)
        BY <1>2, <1>3, <3>1, <3>2 DEF MigrationOK, RootIn
      <3> QED
        BY <1>3, <2>1, <3>1, <3>3 DEF MigrationOK
    <2> QED
      BY <1>5, <2>2, <2>3, <2>4 DEF FrameOK
  <1>6. StackOK(v, fs)
    <2>1. ASSUME NEW i \in 1..(Len(fs) - 1), fs[i].op = "migrate", fs[i + 1].op = "migrate",
                 FrameOK(w, fs[i + 1]), fs[i + 1].pool = fs[i].pool
          PROVE  Up(v, fs[i].pool, fs[i + 1].id) = Up(w, fs[i].pool, fs[i + 1].id)
      <3>1. i \in 1..Len(fs) /\ i + 1 \in 1..Len(fs)
        OBVIOUS
      <3> QED
        BY <1>2, <1>4, <2>1, <3>1 DEF FrameOK
    <2> QED
      BY <1>5, <2>1, StackSeesLittle
  <1>7. MovesApart(v, fs)
    <2> SUFFICES ASSUME NEW i \in 1..Len(fs), fs[i].op = "migrate" PROVE Apart(v, fs, fs[i])
      BY DEF MovesApart
    <2> DEFINE p == fs[i].pool
    <2>1. p \in Pools /\ p # q
      BY <1>4
    <2>2. PICK C \in SUBSET w.live[p] :
             /\ fs[i].id \in C
             /\ \A y \in w.live[p] : Up(w, p, y) \in C => y \in C
             /\ \A k \in 1..Len(fs) :
                  fs[k].pool = p /\ fs[k].op \notin {"migrate", "destroy"} => fs[k].id \notin C
      BY DEF MovesApart, Apart
    <2>3. \A y \in v.live[p] : Up(v, p, y) \in C => y \in C
      BY <1>2, <2>1, <2>2
    <2> QED
      BY <2>1, <2>2, <2>3 DEF Apart
  <1> QED
    BY <1>6, <1>7

Unlinked(w, v, q, x) ==
    /\ \A p \in Pools : v.live[p] = w.live[p]
    /\ \A p \in Pools : p # q => v.leaving[p] = w.leaving[p]
    /\ v.leaving[q] = w.leaving[q] \cup {x}
    /\ v.gen = w.gen
    /\ \A p \in Pools : p # q => v.up[p] = w.up[p]
    /\ \A y \in w.live[q] : \/ v.up[q][Slot(y)] = w.up[q][Slot(y)]
                            \/ w.up[q][Slot(y)] = x /\ v.up[q][Slot(y)] = NoId
    /\ v.strays = w.strays

\* An entity out of the tree, its children roots: an operation that has saved
\* it as the parent of one of these finds it leaving.
LEMMA UnlinkingSeen ==
    ASSUME NEW w, NEW v, NEW fs \in Seq(Frames), StackOK(w, fs),
           \A i \in 1..Len(fs) : fs[i].op # "migrate",
           NEW q \in Pools, NEW x \in Ids,
           Unlinked(w, v, q, x)
    PROVE  StackOK(v, fs)
  <1> USE DEF Unlinked
  <1>1. x # NoId
    BY PoolAssumption
  <1>2. \A i \in 1..Len(fs) : fs[i] \in Frames /\ fs[i].pool \in Pools
    <2>1. \A i \in 1..Len(fs) : fs[i] \in Frames
      OBVIOUS
    <2> QED
      BY <2>1, FrameFields
  <1>3. ASSUME NEW i \in 1..Len(fs), FrameOK(w, fs[i]) PROVE FrameOK(v, fs[i])
    <2> DEFINE f == fs[i]
    <2>1. f.pool \in Pools
      BY <1>2
    <2>2. f.op # "destroy" => f.id \in w.live[f.pool] /\ f.id \in v.live[f.pool]
      BY <1>3, <2>1 DEF FrameOK
    <2>3. f.op = "free" /\ f.stage # "published" => OldOK(v, f)
      <3> SUFFICES ASSUME f.op = "free", f.stage # "published" PROVE OldOK(v, f)
        OBVIOUS
      <3>1. OldOK(w, f) /\ f.id \in w.live[f.pool]
        BY <1>3, <2>2 DEF FrameOK
      <3>2. /\ w.leaving[f.pool] \subseteq v.leaving[f.pool]
            /\ GoneIn(w, f.pool, f.old) => GoneIn(v, f.pool, f.old)
        BY <2>1 DEF GoneIn
      <3>3. CASE Up(v, f.pool, f.id) = Up(w, f.pool, f.id)
        BY <3>1, <3>2, <3>3 DEF OldOK
      <3>4. CASE Up(v, f.pool, f.id) # Up(w, f.pool, f.id)
        <4>1. f.pool = q /\ Up(w, q, f.id) = x /\ Up(v, q, f.id) = NoId
          BY <2>1, <3>1, <3>4 DEF Up
        <4>2. f.old = x \/ f.id \in w.strays[q]
          BY <1>1, <3>1, <4>1 DEF OldOK
        <4> QED
          BY <1>1, <4>1, <4>2 DEF OldOK
      <3> QED
        BY <3>3, <3>4
    <2> QED
      BY <1>3, <2>2, <2>3 DEF FrameOK
  <1> QED
    BY <1>3, StackSeesLittle

Died(w, v, q, x) ==
    /\ \A p \in Pools : p # q => /\ v.live[p] = w.live[p] /\ v.leaving[p] = w.leaving[p]
                                 /\ v.gen[p] = w.gen[p]
    /\ v.live[q] = w.live[q] \ {x}
    /\ v.leaving[q] = w.leaving[q] \ {x}
    /\ v.gen[q] = [w.gen[q] EXCEPT ![Slot(x)] = @ + 1]
    /\ v.up = w.up
    /\ v.strays = w.strays

\* An entity that dies, and on which no operation in progress works: one that
\* has saved it as a parent finds its slot reused or free.
LEMMA DeathSeen ==
    ASSUME NEW w, NEW v, NEW fs \in Seq(Frames), Sane(w), StackOK(w, fs), MovesApart(w, fs),
           NEW q \in Pools, NEW x \in w.live[q],
           \A i \in 1..Len(fs) : fs[i].op # "destroy" /\ fs[i].pool = q => fs[i].id # x,
           \A i \in 1..Len(fs) : fs[i].op = "migrate" => fs[i].to # q,
           Died(w, v, q, x)
    PROVE  StackOK(v, fs) /\ MovesApart(v, fs)
  <1> USE DEF Died
  <1>1. /\ Slot(x) \in Slots /\ Generation(x) = w.gen[q][Slot(x)]
        /\ w.gen[q] \in [Slots -> Nat] /\ Generation(x) \in Nat
    BY StampedFacts DEF Sane
  <1>2. \A p \in Pools : \A y : Up(v, p, y) = Up(w, p, y)
    BY DEF Up
  <1>3. /\ \A p \in Pools : p # q => InTree(v, p) = InTree(w, p)
        /\ InTree(v, q) = InTree(w, q) \ {x}
    BY DEF InTree
  <1>4. \A i \in 1..Len(fs) : fs[i] \in Frames /\ fs[i].pool \in Pools /\ fs[i].old \in Ids \cup {NoId}
    <2>1. \A i \in 1..Len(fs) : fs[i] \in Frames
      OBVIOUS
    <2> QED
      BY <2>1, FrameFields
  <1>5. \A y \in Ids : GoneIn(w, q, y) => GoneIn(v, q, y)
    <2> TAKE y \in Ids
    <2>1. Slot(y) \in Slots /\ Generation(y) \in Nat
      BY DEF Ids, Slot, Generation
    <2> QED
      BY <1>1, <2>1 DEF GoneIn
  <1>6. GoneIn(v, q, x)
    BY <1>1 DEF GoneIn
  <1>7. ASSUME NEW i \in 1..Len(fs), FrameOK(w, fs[i]) PROVE FrameOK(v, fs[i])
    <2> DEFINE f == fs[i]
    <2>1. f.pool \in Pools
      BY <1>4
    <2>2. f.op # "destroy" => f.id \in v.live[f.pool]
      BY <1>7, <2>1 DEF FrameOK
    <2>3. f.op = "free" /\ f.stage # "published" => OldOK(v, f)
      <3> SUFFICES ASSUME f.op = "free", f.stage # "published" PROVE OldOK(v, f)
        OBVIOUS
      <3>1. OldOK(w, f) /\ Up(v, f.pool, f.id) = Up(w, f.pool, f.id) /\ f.old \in Ids \cup {NoId}
        BY <1>2, <1>4, <1>7, <2>1 DEF FrameOK
      <3>2. CASE f.pool # q
        BY <2>1, <3>1, <3>2 DEF OldOK, GoneIn
      <3>3. CASE f.pool = q
        BY <1>5, <1>6, <3>1, <3>3 DEF OldOK
      <3> QED
        BY <3>2, <3>3
    <2>4. f.op = "migrate" => MigrationOK(v, f)
      <3> SUFFICES ASSUME f.op = "migrate" PROVE MigrationOK(v, f)
        OBVIOUS
      <3>1. MigrationOK(w, f) /\ f.to # q
        BY <1>7 DEF FrameOK
      <3>2. f.id \in InTree(v, f.pool)
        BY <1>3, <2>1, <3>1 DEF MigrationOK
      <3>3. \A y : RootIn(w, f.to, y) => RootIn(v, f.to, y)
        BY <1>2, <1>3, <3>1 DEF RootIn, MigrationOK
      <3> QED
        BY <3>1, <3>2, <3>3 DEF MigrationOK
    <2> QED
      BY <1>7, <2>2, <2>3, <2>4 DEF FrameOK
  <1>8. StackOK(v, fs)
    <2>1. ASSUME NEW i \in 1..(Len(fs) - 1)
          PROVE  Up(v, fs[i].pool, fs[i + 1].id) = Up(w, fs[i].pool, fs[i + 1].id)
      <3>1. i \in 1..Len(fs)
        OBVIOUS
      <3> QED
        BY <1>2, <1>4, <3>1
    <2> QED
      BY <1>7, <2>1, StackSeesLittle
  <1>9. MovesApart(v, fs)
    <2> SUFFICES ASSUME NEW i \in 1..Len(fs), fs[i].op = "migrate" PROVE Apart(v, fs, fs[i])
      BY DEF MovesApart
    <2> DEFINE p == fs[i].pool
    <2>1. p \in Pools
      BY <1>4
    <2>2. PICK C \in SUBSET w.live[p] :
             /\ fs[i].id \in C
             /\ \A y \in w.live[p] : Up(w, p, y) \in C => y \in C
             /\ \A k \in 1..Len(fs) :
                  fs[k].pool = p /\ fs[k].op \notin {"migrate", "destroy"} => fs[k].id \notin C
      BY DEF MovesApart, Apart
    <2> DEFINE D == C \cap v.live[p]
    <2>3. fs[i].id \in D
      BY <2>1, <2>2
    <2>4. \A y \in v.live[p] : Up(v, p, y) \in D => y \in D
      BY <1>2, <2>1, <2>2
    <2>5. \A k \in 1..Len(fs) :
             fs[k].pool = p /\ fs[k].op \notin {"migrate", "destroy"} => fs[k].id \notin D
      BY <2>2
    <2>6. D \in SUBSET v.live[p]
      OBVIOUS
    <2> HIDE DEF D
    <2> QED
      BY <2>3, <2>4, <2>5, <2>6 DEF Apart
  <1> QED
    BY <1>8, <1>9

-----------------------------------------------------------------------------
(* The pools of a state, and of the next.                                  *)

LiveOf(a, g) == {<<s, g[s]>> : s \in {s \in Slots : a[s]}}

LeavingIn(fs, p) ==
    {f.id : f \in {f \in ToSet(fs) : f.op = "free" /\ f.stage = "published" /\ f.pool = p}}

IsLeaving(f, p) == f.op = "free" /\ f.stage = "published" /\ f.pool = p

\* The live ids of a pool, by its alive flags and its generations.
LEMMA LiveFacts ==
    ASSUME NEW a \in [Slots -> BOOLEAN], NEW g \in [Slots -> Nat]
    PROVE  /\ Stamped(LiveOf(a, g), g) /\ LiveOf(a, g) \subseteq Ids
           /\ \A x \in Ids : x \in LiveOf(a, g) <=> a[Slot(x)] /\ g[Slot(x)] = Generation(x)
           /\ \A s \in Slots : <<s, g[s]>> \in LiveOf(a, g) <=> a[s]
           /\ \A x \in LiveOf(a, g) : a[Slot(x)]
  <1>1. ASSUME NEW s \in Slots
        PROVE  <<s, g[s]>> \in Ids /\ Slot(<<s, g[s]>>) = s /\ Generation(<<s, g[s]>>) = g[s]
    BY DEF Ids, Slot, Generation
  <1>2. \A x \in Ids : x = <<Slot(x), Generation(x)>> /\ Slot(x) \in Slots /\ Generation(x) \in Nat
    BY DEF Ids, Slot, Generation
  <1>3. \A x \in LiveOf(a, g) : x \in Ids /\ x = <<Slot(x), g[Slot(x)]>> /\ a[Slot(x)]
    BY <1>1 DEF LiveOf
  <1>4. \A x \in Ids : x \in LiveOf(a, g) <=> a[Slot(x)] /\ g[Slot(x)] = Generation(x)
    <2> TAKE x \in Ids
    <2>1. ASSUME x \in LiveOf(a, g) PROVE a[Slot(x)] /\ g[Slot(x)] = Generation(x)
      <3>1. PICK s \in Slots : a[s] /\ x = <<s, g[s]>>
        BY <2>1 DEF LiveOf
      <3> QED
        BY <1>1, <3>1
    <2>2. ASSUME a[Slot(x)], g[Slot(x)] = Generation(x) PROVE x \in LiveOf(a, g)
      BY <1>2, <2>2 DEF LiveOf
    <2> QED
      BY <2>1, <2>2
  <1>5. \A s \in Slots : <<s, g[s]>> \in LiveOf(a, g) <=> a[s]
    BY <1>1, <1>4
  <1> QED
    BY <1>3, <1>4, <1>5 DEF Stamped

\* A slot that comes to life has an id no live entity has.
LEMMA LiveGrows ==
    ASSUME NEW a \in [Slots -> BOOLEAN], NEW g \in [Slots -> Nat], NEW s \in Slots, ~a[s],
           NEW b \in [Slots -> BOOLEAN], b[s], \A t \in Slots : t # s => b[t] = a[t]
    PROVE  /\ LiveOf(b, g) = LiveOf(a, g) \cup {<<s, g[s]>>}
           /\ <<s, g[s]>> \in Ids /\ <<s, g[s]>> \notin LiveOf(a, g)
           /\ \A y \in LiveOf(a, g) : Slot(y) # s
  <1>1. {t \in Slots : b[t]} = {t \in Slots : a[t]} \cup {s}
    OBVIOUS
  <1>2. LiveOf(b, g) = LiveOf(a, g) \cup {<<s, g[s]>>}
    BY <1>1 DEF LiveOf
  <1>3. <<s, g[s]>> \in Ids
    BY DEF Ids
  <1> QED
    BY <1>2, <1>3, LiveFacts

\* A slot that dies takes its entity with it, and no other.
LEMMA LiveShrinks ==
    ASSUME NEW a \in [Slots -> BOOLEAN], NEW g \in [Slots -> Nat], NEW x \in LiveOf(a, g),
           NEW b \in [Slots -> BOOLEAN], NEW h \in [Slots -> Nat], ~b[Slot(x)],
           \A t \in Slots : t # Slot(x) => b[t] = a[t] /\ h[t] = g[t]
    PROVE  LiveOf(b, h) = LiveOf(a, g) \ {x}
  <1> DEFINE s == Slot(x)
  <1>1. s \in Slots /\ x = <<s, g[s]>> /\ a[s] /\ x \in Ids
    BY LiveFacts, StampedFacts
  <1>2. /\ b \in [Slots -> BOOLEAN] /\ h \in [Slots -> Nat]
        /\ ~b[s] /\ \A t \in Slots : t # s => b[t] = a[t] /\ h[t] = g[t]
    OBVIOUS
  <1> HIDE DEF s
  <1>3. ASSUME NEW y \in Ids
        PROVE  y \in LiveOf(b, h) <=> y \in LiveOf(a, g) /\ y # x
    <2>1. Slot(y) \in Slots
      BY DEF Ids, Slot
    <2>2. /\ y \in LiveOf(b, h) <=> b[Slot(y)] /\ h[Slot(y)] = Generation(y)
          /\ y \in LiveOf(a, g) <=> a[Slot(y)] /\ g[Slot(y)] = Generation(y)
      BY <1>2, LiveFacts
    <2>3. CASE Slot(y) = s
      <3>1. y \in LiveOf(a, g) => y = x
        BY <1>1, <2>3, LiveFacts, StampedFacts
      <3> QED
        BY <1>2, <2>2, <2>3, <3>1
    <2>4. CASE Slot(y) # s
      BY <1>1, <1>2, <2>1, <2>2, <2>4 DEF s
    <2> QED
      BY <2>3, <2>4
  <1>4. LiveOf(b, h) \subseteq Ids /\ LiveOf(a, g) \subseteq Ids
    BY <1>2, LiveFacts
  <1> QED
    BY <1>3, <1>4 DEF s

\* The entities on their way out are those the frames name.
LEMMA LeavingFacts ==
    ASSUME NEW fs \in Seq(Frames), NEW p \in Pools
    PROVE  /\ \A x : x \in LeavingIn(fs, p) <=> \E i \in 1..Len(fs) : IsLeaving(fs[i], p) /\ fs[i].id = x
           /\ \A g \in Frames :
                LeavingIn(Append(fs, g), p) = LeavingIn(fs, p) \cup {h \in {g.id} : IsLeaving(g, p)}
  <1>1. \A hs \in Seq(Frames) : ToSet(hs) = {hs[i] : i \in 1..Len(hs)}
    BY ToSetFacts
  <1>2. \A x : x \in LeavingIn(fs, p) <=> \E i \in 1..Len(fs) : IsLeaving(fs[i], p) /\ fs[i].id = x
    BY <1>1 DEF LeavingIn, IsLeaving
  <1>3. ASSUME NEW g \in Frames
        PROVE  LeavingIn(Append(fs, g), p) = LeavingIn(fs, p) \cup {h \in {g.id} : IsLeaving(g, p)}
    <2>1. ToSet(Append(fs, g)) = ToSet(fs) \cup {g}
      BY AppendFacts
    <2> QED
      BY <2>1 DEF LeavingIn, IsLeaving
  <1> QED
    BY <1>2, <1>3

\* What is alive and what is leaving, now and after a step, as values.
LEMMA WorldNow ==
    ASSUME NEW p \in Pools
    PROVE  /\ Live(p) = LiveOf(alive[p], gen[p]) /\ Leaving(p) = LeavingIn(frames, p)
           /\ Live(p)' = LiveOf(alive'[p], gen'[p]) /\ Leaving(p)' = LeavingIn(frames', p)
           /\ Linked(p) = Live(p) \ Leaving(p) /\ Linked(p)' = Live(p)' \ Leaving(p)'
           /\ World.live[p] = Live(p) /\ World.leaving[p] = Leaving(p)
           /\ (World').live[p] = Live(p)' /\ (World').leaving[p] = Leaving(p)'
           /\ World.up = parent /\ (World').up = parent'
           /\ World.gen = gen /\ (World').gen = gen'
           /\ World.strays = strays /\ (World').strays = strays'
           /\ InTree(World, p) = Linked(p) /\ InTree(World', p) = Linked(p)'
  BY DEF World, Live, LiveOf, IdAt, Leaving, Running, LeavingIn, Linked, InTree

\* The entities of the frames that are leaving are alive.
LEMMA WorldIsSane ==
    ASSUME Typed, StackOK(World, frames)
    PROVE  /\ Sane(World)
           /\ \A p \in Pools :
                /\ gen[p] \in [Slots -> Nat] /\ alive[p] \in [Slots -> BOOLEAN]
                /\ Stamped(Live(p), gen[p]) /\ Stamped(Linked(p), gen[p])
                /\ Leaving(p) \subseteq Live(p) /\ Linked(p) \subseteq Live(p)
                /\ Live(p) \subseteq Ids
                /\ \A x \in Live(p) : Alive(p, x) /\ alive[p][Slot(x)]
                /\ \A x \in Ids \cup {NoId} : Alive(p, x) => x \in Live(p)
  <1>1. ASSUME NEW p \in Pools
        PROVE  /\ gen[p] \in [Slots -> Nat] /\ alive[p] \in [Slots -> BOOLEAN]
               /\ Stamped(Live(p), gen[p]) /\ Stamped(Linked(p), gen[p])
               /\ Leaving(p) \subseteq Live(p) /\ Linked(p) \subseteq Live(p)
               /\ Live(p) \subseteq Ids
               /\ \A x \in Live(p) : Alive(p, x) /\ alive[p][Slot(x)]
               /\ \A x \in Ids \cup {NoId} : Alive(p, x) => x \in Live(p)
    <2>1. /\ gen[p] \in [Slots -> Nat] /\ alive[p] \in [Slots -> BOOLEAN]
          /\ frames \in Seq(Frames)
      BY DEF Typed, PoolsTyped
    <2>2. Live(p) = LiveOf(alive[p], gen[p]) /\ World.live[p] = Live(p) /\ Leaving(p) = LeavingIn(frames, p)
      BY WorldNow
    <2>3. /\ Stamped(Live(p), gen[p]) /\ Live(p) \subseteq Ids
          /\ \A x \in Ids : x \in Live(p) <=> alive[p][Slot(x)] /\ gen[p][Slot(x)] = Generation(x)
      BY <2>1, <2>2, LiveFacts
    <2>4. Leaving(p) \subseteq Live(p)
      <3> SUFFICES ASSUME NEW x \in Leaving(p) PROVE x \in Live(p)
        OBVIOUS
      <3>1. PICK i \in 1..Len(frames) : IsLeaving(frames[i], p) /\ frames[i].id = x
        BY <2>1, <2>2, LeavingFacts
      <3>2. FrameOK(World, frames[i])
        BY DEF StackOK
      <3> QED
        BY <2>2, <3>1, <3>2 DEF IsLeaving, FrameOK
    <2>5. Linked(p) \subseteq Live(p)
      BY DEF Linked
    <2>6. Stamped(Linked(p), gen[p])
      BY <2>3, <2>5 DEF Stamped
    <2>7. NoId \notin Ids
      BY PoolAssumption
    <2>8. \A x \in Live(p) : Alive(p, x) /\ alive[p][Slot(x)]
      BY <2>3, <2>7 DEF Alive
    <2>9. \A x \in Ids \cup {NoId} : Alive(p, x) => x \in Live(p)
      BY <2>3 DEF Alive
    <2> QED
      BY <2>1, <2>3, <2>4, <2>5, <2>6, <2>8, <2>9
  <1>2. Sane(World)
    BY <1>1, WorldNow DEF Sane
  <1> QED
    BY <1>1, <1>2

\* A pool nothing of which changes stays as it is.
LEMMA PoolUntouched ==
    ASSUME NEW p \in Pools, PoolOK(p),
           cap'[p] = cap[p], free'[p] = free[p], gen'[p] = gen[p], alive'[p] = alive[p],
           uuid'[p] = uuid[p], byUuid'[p] = byUuid[p], parent'[p] = parent[p],
           children'[p] = children[p], roots'[p] = roots[p], strays'[p] = strays[p],
           Leaving(p)' = Leaving(p)
    PROVE  PoolOK(p)' /\ Live(p)' = Live(p) /\ Linked(p)' = Linked(p)
  <1>1. Live(p)' = Live(p)
    BY DEF Live, IdAt
  <1>2. Linked(p)' = Linked(p)
    BY <1>1 DEF Linked
  <1>3. Lists(p)' = Lists(p)
    BY DEF Lists
  <1> QED
    BY <1>1, <1>2, <1>3 DEF PoolOK

-----------------------------------------------------------------------------
(* A new entity: tc_entity_pool_alloc_with_uuid, also of a migration.      *)

OnlyPool(p) ==
    \A r \in Pools : r # p =>
        /\ cap'[r] = cap[r] /\ free'[r] = free[r] /\ gen'[r] = gen[r] /\ alive'[r] = alive[r]
        /\ uuid'[r] = uuid[r] /\ byUuid'[r] = byUuid[r] /\ parent'[r] = parent[r]
        /\ children'[r] = children[r] /\ roots'[r] = roots[r] /\ strays'[r] = strays[r]

\* The invariant of the pools, from that of the one pool that changes.
LEMMA OnePoolChanges ==
    ASSUME \A r \in Pools : PoolOK(r), NEW p \in Pools, OnlyPool(p), PoolOK(p)',
           \A r \in Pools : r # p => Leaving(r)' = Leaving(r)
    PROVE  /\ \A r \in Pools : PoolOK(r)'
           /\ \A r \in Pools : r # p => Live(r)' = Live(r) /\ Linked(r)' = Linked(r)
  <1>1. ASSUME NEW r \in Pools, r # p
        PROVE  PoolOK(r)' /\ Live(r)' = Live(r) /\ Linked(r)' = Linked(r)
    <2>1. /\ cap'[r] = cap[r] /\ free'[r] = free[r] /\ gen'[r] = gen[r] /\ alive'[r] = alive[r]
          /\ uuid'[r] = uuid[r] /\ byUuid'[r] = byUuid[r] /\ parent'[r] = parent[r]
          /\ children'[r] = children[r] /\ roots'[r] = roots[r] /\ strays'[r] = strays[r]
      BY <1>1 DEF OnlyPool
    <2>2. PoolOK(r) /\ Leaving(r)' = Leaving(r)
      BY <1>1
    <2> QED
      BY <2>1, <2>2, PoolUntouched
  <1> QED
    BY <1>1

\* The values of the variables after an allocation.
LEMMA AllocateValues ==
    ASSUME PoolsTyped, comps \in [Pools -> [Slots -> Seq(Components)]],
           NEW p \in Pools, NEW u \in Uuids, Allocate(p, u),
           NextSlot(p) \in Slots, NextId(p) \in Ids
    PROVE  /\ OnlyPool(p) /\ gen' = gen /\ strays' = strays
           /\ cap'[p] = IF free[p] = <<>> THEN 2 * cap[p] ELSE cap[p]
           /\ free'[p] = Front(Stack(p))
           /\ alive'[p] = [alive[p] EXCEPT ![NextSlot(p)] = TRUE]
           /\ uuid'[p] = [uuid[p] EXCEPT ![NextSlot(p)] = u]
           /\ byUuid'[p] = [byUuid[p] EXCEPT ![u] = NextId(p)]
           /\ parent'[p] = [parent[p] EXCEPT ![NextSlot(p)] = NoId]
           /\ children'[p] = [children[p] EXCEPT ![NextSlot(p)] = <<>>]
           /\ roots'[p] = Append(roots[p], NextId(p))
           /\ comps' \in [Pools -> [Slots -> Seq(Components)]]
           /\ cap'[p] \in 1..MaxSlots /\ free'[p] \in Seq(Slots) => PoolsTyped'
  <1> DEFINE s == NextSlot(p)
             x == NextId(p)
  <1>0. s \in Slots /\ x \in Ids
    OBVIOUS
  <1>1. /\ cap' = [cap EXCEPT ![p] = IF free[p] = <<>> THEN 2 * @ ELSE @]
        /\ free' = [free EXCEPT ![p] = Front(Stack(p))]
        /\ alive' = [alive EXCEPT ![p][s] = TRUE]
        /\ uuid' = [uuid EXCEPT ![p][s] = u]
        /\ byUuid' = [byUuid EXCEPT ![p][u] = x]
        /\ parent' = [parent EXCEPT ![p][s] = NoId]
        /\ children' = [children EXCEPT ![p][s] = <<>>]
        /\ comps' = [comps EXCEPT ![p][s] = <<>>]
        /\ roots' = [roots EXCEPT ![p] = Append(@, x)]
        /\ gen' = gen /\ strays' = strays
    BY DEF Allocate
  <1> HIDE DEF s, x
  <1>2. <<>> \in Seq(Ids) /\ <<>> \in Seq(Components)
    OBVIOUS
  <1>3. OnlyPool(p)
    BY <1>1 DEF OnlyPool, PoolsTyped
  <1>4. /\ cap'[p] = IF free[p] = <<>> THEN 2 * cap[p] ELSE cap[p]
        /\ free'[p] = Front(Stack(p))
        /\ alive'[p] = [alive[p] EXCEPT ![s] = TRUE]
        /\ uuid'[p] = [uuid[p] EXCEPT ![s] = u]
        /\ byUuid'[p] = [byUuid[p] EXCEPT ![u] = x]
        /\ parent'[p] = [parent[p] EXCEPT ![s] = NoId]
        /\ children'[p] = [children[p] EXCEPT ![s] = <<>>]
        /\ roots'[p] = Append(roots[p], x)
    BY <1>1 DEF PoolsTyped
  <1>5. comps' \in [Pools -> [Slots -> Seq(Components)]]
    BY <1>0, <1>1, <1>2
  <1>6. ASSUME cap'[p] \in 1..MaxSlots, free'[p] \in Seq(Slots)
        PROVE  PoolsTyped'
    <2>1. cap' \in [Pools -> 1..MaxSlots] /\ free' \in [Pools -> Seq(Slots)]
      BY <1>1, <1>6 DEF PoolsTyped
    <2>2. /\ gen' \in [Pools -> [Slots -> Nat]] /\ alive' \in [Pools -> [Slots -> BOOLEAN]]
          /\ strays' \in [Pools -> SUBSET Ids]
      BY <1>0, <1>1 DEF PoolsTyped
    <2>3. /\ uuid' \in [Pools -> [Slots -> Uuids \cup {NoUuid}]]
          /\ byUuid' \in [Pools -> [Uuids -> Ids \cup {NoId}]]
          /\ parent' \in [Pools -> [Slots -> Ids \cup {NoId}]]
      BY <1>0, <1>1 DEF PoolsTyped
    <2>4. children' \in [Pools -> [Slots -> Seq(Ids)]]
      BY <1>0, <1>1, <1>2 DEF PoolsTyped
    <2>5. roots' \in [Pools -> Seq(Ids)]
      <3>1. Append(roots[p], x) \in Seq(Ids)
        BY <1>0, AppendFacts DEF PoolsTyped
      <3> QED
        BY <1>1, <3>1 DEF PoolsTyped
    <2> QED
      BY <2>1, <2>2, <2>3, <2>4, <2>5 DEF PoolsTyped
  <1> QED
    BY <1>1, <1>3, <1>4, <1>5, <1>6 DEF s, x

\* An allocation keeps every pool exact, and no operation in progress notices.
LEMMA AllocateFacts ==
    ASSUME IndInv, NEW p \in Pools, NEW u \in Uuids,
           MayCreate(p), byUuid[p][u] = NoId, Allocate(p, u),
           \A r \in Pools : Leaving(r)' = Leaving(r)
    PROVE  /\ PoolsTyped' /\ comps' \in [Pools -> [Slots -> Seq(Components)]]
           /\ \A r \in Pools : PoolOK(r)'
           /\ NextId(p) \in Ids /\ NextId(p) \notin Live(p) /\ NextId(p) \notin Leaving(p)
           /\ Live(p)' = Live(p) \cup {NextId(p)}
           /\ Linked(p)' = Linked(p) \cup {NextId(p)}
           /\ \A r \in Pools : r # p => Live(r)' = Live(r) /\ Linked(r)' = Linked(r)
           /\ gen' = gen /\ strays' = strays
           /\ parent'[p] = [parent[p] EXCEPT ![Slot(NextId(p))] = NoId]
           /\ \A r \in Pools : r # p => parent'[r] = parent[r]
           /\ \A y \in Live(p) : Slot(y) # Slot(NextId(p))
           /\ StackOK(World', frames) /\ MovesApart(World', frames)
  <1> DEFINE s == NextSlot(p)
             x == NextId(p)
  <1>1. Typed /\ PoolsTyped /\ PoolOK(p) /\ StackOK(World, frames) /\ MovesApart(World, frames)
        /\ frames \in Seq(Frames) /\ comps \in [Pools -> [Slots -> Seq(Components)]]
    BY DEF IndInv, Typed
  <1>2. /\ cap[p] \in 1..MaxSlots /\ free[p] \in Seq(Slots) /\ alive[p] \in [Slots -> BOOLEAN]
        /\ gen[p] \in [Slots -> Nat] /\ uuid[p] \in [Slots -> Uuids \cup {NoUuid}]
        /\ byUuid[p] \in [Uuids -> Ids \cup {NoId}] /\ parent[p] \in [Slots -> Ids \cup {NoId}]
        /\ children[p] \in [Slots -> Seq(Ids)] /\ roots[p] \in Seq(Ids)
    BY <1>1 DEF PoolsTyped
  <1>3. /\ SlotsHold(cap[p], free[p], alive[p]) /\ UuidsHold(Linked(p), uuid[p], byUuid[p])
        /\ ListsHold(Linked(p), gen[p], parent[p], Lists(p)) /\ ParentsHold(Linked(p), parent[p])
        /\ NoCycle(Linked(p), parent[p])
        /\ StraysHold(Linked(p), Leaving(p), gen[p], parent[p], strays[p], Lists(p))
    BY <1>1 DEF PoolOK
  <1>4. LET c2 == IF free[p] = <<>> THEN 2 * cap[p] ELSE cap[p]
        IN  /\ c2 \in 1..MaxSlots /\ s \in Slots /\ ~alive[p][s] /\ Front(Stack(p)) \in Seq(Slots)
            /\ SlotsHold(c2, Front(Stack(p)), [alive[p] EXCEPT ![s] = TRUE])
    <2>1. free[p] = <<>> => 2 * cap[p] <= MaxSlots
      BY DEF MayCreate
    <2>2. Stack(p) = IF free[p] = <<>> THEN [i \in 1..cap[p] |-> 2 * cap[p] - i] ELSE free[p]
      BY DEF Stack, Grown
    <2>3. s = Last(Stack(p))
      BY DEF NextSlot
    <2> DEFINE c2 == IF free[p] = <<>> THEN 2 * cap[p] ELSE cap[p]
               st == Stack(p)
    <2>4. c2 = IF free[p] = <<>> THEN 2 * cap[p] ELSE cap[p]
      OBVIOUS
    <2> HIDE DEF c2, st, s
    <2>5. st = IF free[p] = <<>> THEN [i \in 1..cap[p] |-> 2 * cap[p] - i] ELSE free[p]
      BY <2>2 DEF st
    <2>6. /\ c2 \in 1..MaxSlots
          /\ Last(st) \in Slots /\ ~alive[p][Last(st)] /\ Front(st) \in Seq(Slots)
          /\ SlotsHold(c2, Front(st), [alive[p] EXCEPT ![Last(st)] = TRUE])
      <3> DEFINE c == cap[p]
                 f == free[p]
                 a == alive[p]
      <3>1. /\ c \in 1..MaxSlots /\ f \in Seq(Slots) /\ a \in [Slots -> BOOLEAN]
            /\ SlotsHold(c, f, a) /\ (f = <<>> => 2 * c <= MaxSlots)
            /\ c2 = IF f = <<>> THEN 2 * c ELSE c
            /\ st = IF f = <<>> THEN [i \in 1..c |-> 2 * c - i] ELSE f
        BY <1>2, <1>3, <2>1, <2>4, <2>5
      <3> HIDE DEF c, f, a
      <3>2. /\ c2 \in 1..MaxSlots
            /\ Last(st) \in Slots /\ ~a[Last(st)] /\ Front(st) \in Seq(Slots)
            /\ SlotsHold(c2, Front(st), [a EXCEPT ![Last(st)] = TRUE])
        BY <3>1, SlotTaken
      <3> QED
        BY <3>2 DEF a
    <2> QED
      BY <2>3, <2>6 DEF c2, st
  <1>5. s \in Slots /\ ~alive[p][s] /\ x = <<s, gen[p][s]>>
    BY <1>4 DEF NextId, IdAt
  <1>6. x \in Ids /\ Slot(x) = s
    BY <1>2, <1>5 DEF Ids, Slot
  <1> HIDE DEF s, x
  <1>7. s = NextSlot(p) /\ x = NextId(p)
    BY DEF s, x
  <1>8. /\ OnlyPool(p) /\ gen' = gen /\ strays' = strays
        /\ cap'[p] = IF free[p] = <<>> THEN 2 * cap[p] ELSE cap[p]
        /\ free'[p] = Front(Stack(p))
        /\ alive'[p] = [alive[p] EXCEPT ![s] = TRUE]
        /\ uuid'[p] = [uuid[p] EXCEPT ![s] = u]
        /\ byUuid'[p] = [byUuid[p] EXCEPT ![u] = x]
        /\ parent'[p] = [parent[p] EXCEPT ![s] = NoId]
        /\ children'[p] = [children[p] EXCEPT ![s] = <<>>]
        /\ roots'[p] = Append(roots[p], x)
        /\ comps' \in [Pools -> [Slots -> Seq(Components)]]
        /\ cap'[p] \in 1..MaxSlots /\ free'[p] \in Seq(Slots) => PoolsTyped'
    <2>1. NextSlot(p) \in Slots /\ NextId(p) \in Ids
      BY <1>5, <1>6, <1>7
    <2>2. PoolsTyped /\ comps \in [Pools -> [Slots -> Seq(Components)]]
      BY <1>1
    <2> QED
      BY <1>7, <2>1, <2>2, AllocateValues
  <1>9. PoolsTyped' /\ SlotsHold(cap'[p], free'[p], alive'[p])
    BY <1>4, <1>8
  <1>10. /\ Live(p)' = Live(p) \cup {x} /\ x \notin Live(p) /\ \A y \in Live(p) : Slot(y) # s
    <2>1. Live(p) = LiveOf(alive[p], gen[p]) /\ Live(p)' = LiveOf(alive'[p], gen'[p])
      BY WorldNow
    <2> DEFINE a == alive[p]
               b == alive'[p]
               g == gen[p]
    <2>2. gen'[p] = g /\ x = <<s, g[s]>>
      BY <1>5, <1>8
    <2>3. /\ a \in [Slots -> BOOLEAN] /\ g \in [Slots -> Nat] /\ s \in Slots /\ a[s] = FALSE
          /\ b \in [Slots -> BOOLEAN] /\ b[s] = TRUE /\ \A t \in Slots : t # s => b[t] = a[t]
      BY <1>2, <1>5, <1>8
    <2> HIDE DEF a, b, g
    <2>4. /\ LiveOf(b, g) = LiveOf(a, g) \cup {<<s, g[s]>>}
          /\ <<s, g[s]>> \notin LiveOf(a, g)
          /\ \A y \in LiveOf(a, g) : Slot(y) # s
      BY <2>3, LiveGrows
    <2> QED
      BY <2>1, <2>2, <2>4 DEF a, b, g
  <1>11. /\ Sane(World) /\ Stamped(Linked(p), gen[p]) /\ Leaving(p) \subseteq Live(p)
         /\ Linked(p) \subseteq Live(p) /\ Live(p) \subseteq Ids
    BY <1>1, WorldIsSane
  <1>12. Linked(p)' = Linked(p) \cup {x} /\ x \notin Linked(p) /\ x \notin Leaving(p)
    <2>1. Leaving(p)' = Leaving(p)
      OBVIOUS
    <2> QED
      BY <1>10, <1>11, <2>1 DEF Linked
  <1>13. UuidsHold(Linked(p)', uuid'[p], byUuid'[p])
    <2>1. \A y \in Linked(p) : y \in Ids /\ Slot(y) # Slot(x)
      BY <1>6, <1>10, <1>11
    <2>2. UuidsHold(Linked(p) \cup {x}, [uuid[p] EXCEPT ![Slot(x)] = u], [byUuid[p] EXCEPT ![u] = x])
      BY <1>2, <1>3, <1>6, <2>1, NewUuid
    <2> QED
      BY <1>6, <1>8, <1>12, <2>2
  <1>14. Stamped(Linked(p)', gen[p])
    <2>1. x = <<Slot(x), gen[p][Slot(x)]>>
      BY <1>5, <1>6
    <2> QED
      BY <1>6, <1>11, <1>12, <2>1 DEF Stamped
  <1>15. /\ ListsHold(Linked(p)', gen'[p], parent'[p], Lists(p)')
         /\ StraysHold(Linked(p)', Leaving(p)', gen'[p], parent'[p], strays'[p], Lists(p)')
    <2>1. Lists(p) \in AllLists
      BY <1>2 DEF Lists, AllLists
    <2>2. children[p][s] = <<>>
      <3>1. <<s, gen[p][s]>> \notin Linked(p)
        BY <1>5, <1>12
      <3>2. Lists(p).kids[s] = <<>>
        BY <1>3, <1>5, <3>1 DEF StraysHold
      <3> QED
        BY <3>2 DEF Lists
    <2>3. Lists(p)' = Under(Lists(p), NoId, x)
      <3>1. children'[p] = children[p]
        <4> DEFINE c == children[p]
        <4>1. c \in [Slots -> Seq(Ids)] /\ c[s] = <<>>
          BY <1>2, <2>2
        <4> HIDE DEF c
        <4>2. [c EXCEPT ![s] = <<>>] = c
          BY <4>1
        <4> QED
          BY <1>8, <4>2, Zenon DEF c
      <3>2. roots'[p] = Append(roots[p], x)
        BY <1>8
      <3> QED
        BY <3>1, <3>2 DEF Lists, Under
    <2>4. Linked(p)' \ {x} = Linked(p) /\ x \in Linked(p)'
      BY <1>12
    <2>5. /\ ListsHold(Linked(p)', gen[p], [parent[p] EXCEPT ![Slot(x)] = NoId], Under(Lists(p), NoId, x))
          /\ StraysHold(Linked(p)', Leaving(p), gen[p], [parent[p] EXCEPT ![Slot(x)] = NoId], strays[p],
                        Under(Lists(p), NoId, x))
      <3> DEFINE M == Linked(p)
                 L == Linked(p)'
                 V == Leaving(p)
                 g == gen[p]
                 up == parent[p]
                 S == strays[p]
                 lists == Lists(p)
      <3>1. /\ ListsHold(L \ {x}, g, up, lists) /\ x \in L /\ Stamped(L, g) /\ lists \in AllLists
            /\ g \in [Slots -> Nat] /\ up \in [Slots -> Ids \cup {NoId}]
            /\ StraysHold(M, V, g, up, S, lists) /\ L = M \cup {x} /\ x \notin V /\ x \notin M
            /\ x = <<s, g[s]>> /\ Slot(x) = s /\ s \in Slots
        BY <1>2, <1>3, <1>5, <1>6, <1>12, <1>14, <2>1, <2>4
      <3>2. \A y \in V : Slot(y) \in Slots /\ Slot(y) # s
        <4>1. Leaving(p) \subseteq Live(p) /\ Live(p) \subseteq Ids
          BY <1>11
        <4> QED
          BY <1>10, <4>1 DEF Ids, Slot
      <3> HIDE DEF M, L, V, g, up, S, lists
      <3>3. Unlisted(x, lists)
        <4>1. ~(Generation(x) < g[Slot(x)])
          BY <3>1 DEF Generation
        <4>2. \A o : ~StrayAt(V, g, up, S, x, o)
          BY <3>1, <4>1 DEF StrayAt
        <4> QED
          BY <3>1, <4>2 DEF StraysHold, Unlisted
      <3>4. ListsHold(L, g, [up EXCEPT ![Slot(x)] = NoId], Under(lists, NoId, x))
        BY <3>1, <3>3, UnderFacts
      <3>5. StraysHold(L, V, g, up, S, lists)
        BY <3>1 DEF StraysHold
      <3>6. Shrunk(lists, lists)
        BY DEF Shrunk
      <3>7. StraysHold(L, V, g, [up EXCEPT ![Slot(x)] = NoId], S, Under(lists, NoId, x))
        BY <3>1, <3>2, <3>5, <3>6, StraysUnder
      <3> QED
        BY <3>4, <3>7 DEF L, V, g, up, S, lists
    <2> QED
      BY <1>6, <1>8, <2>3, <2>5
  <1>16. /\ parent'[p][Slot(x)] = NoId
         /\ \A y \in Linked(p) : parent'[p][Slot(y)] = parent[p][Slot(y)]
    <2>1. \A y \in Linked(p) : Slot(y) # s /\ Slot(y) \in Slots
      BY <1>2, <1>10, <1>11, StampedFacts
    <2> QED
      BY <1>2, <1>5, <1>6, <1>8, <2>1
  <1>17. ParentsHold(Linked(p)', parent'[p])
    BY <1>3, <1>12, <1>16 DEF ParentsHold
  <1>18. NoCycle(Linked(p)', parent'[p])
    <2>1. \A y \in Linked(p)' : parent'[p][Slot(y)] # NoId =>
             y \in Linked(p) /\ parent'[p][Slot(y)] = parent[p][Slot(y)]
      BY <1>12, <1>16
    <2> QED
      BY <1>3, <2>1, FewerParents
  <1>19. PoolOK(p)'
    BY <1>9, <1>13, <1>15, <1>17, <1>18 DEF PoolOK
  <1>20. /\ \A r \in Pools : PoolOK(r)'
         /\ \A r \in Pools : r # p => Live(r)' = Live(r) /\ Linked(r)' = Linked(r)
    <2>1. \A r \in Pools : PoolOK(r)
      BY DEF IndInv
    <2> QED
      BY <1>8, <1>19, <2>1, OnePoolChanges
  <1>21. \A r \in Pools : r # p => parent'[r] = parent[r]
    BY <1>8 DEF OnlyPool
  <1>22. StackOK(World', frames) /\ MovesApart(World', frames)
    <2> DEFINE w == World
               v == World'
    <2>1. /\ \A r \in Pools : w.live[r] = Live(r) /\ v.live[r] = Live(r)'
          /\ \A r \in Pools : v.leaving[r] = w.leaving[r]
          /\ v.gen = w.gen /\ v.up = parent' /\ w.up = parent /\ v.strays = w.strays
      BY <1>8, WorldNow
    <2> HIDE DEF w, v
    <2>2. /\ v.live[p] = w.live[p] \cup {x}
          /\ \A y \in w.live[p] : Slot(y) # Slot(x)
          /\ \A r \in Pools : r # p => v.live[r] = w.live[r]
      BY <1>6, <1>10, <1>20, <2>1
    <2>3. /\ v.up[p][Slot(x)] = NoId
          /\ \A r \in Pools, t \in Slots : r # p \/ t # Slot(x) => v.up[r][t] = w.up[r][t]
      <3>1. v.up[p][Slot(x)] = NoId
        BY <1>16, <2>1
      <3>2. ASSUME NEW r \in Pools, NEW t \in Slots, r # p
            PROVE  v.up[r][t] = w.up[r][t]
        BY <1>21, <2>1, <3>2
      <3>3. ASSUME NEW t \in Slots, t # s
            PROVE  parent'[p][t] = parent[p][t]
        BY <1>2, <1>8, <3>3
      <3> QED
        BY <1>6, <2>1, <3>1, <3>2, <3>3
    <2>4. Sane(w) /\ StackOK(w, frames) /\ MovesApart(w, frames)
      BY <1>1, <1>11 DEF w
    <2>5. Grew(w, v, p, x)
      BY <2>1, <2>2, <2>3 DEF Grew
    <2>6. StackOK(v, frames) /\ MovesApart(v, frames)
      BY <1>1, <1>6, <2>4, <2>5, GrowthUnseen
    <2> QED
      BY <2>6 DEF v
  <1> QED
    BY <1>6, <1>8, <1>9, <1>10, <1>12, <1>20, <1>21, <1>22 DEF x, s

(* x is new, a root of pool q. *)
Enters(q, x) ==
    /\ x \in Ids \ Live(q) /\ Generation(x) = gen[q][Slot(x)]
    /\ Linked(q)' = Linked(q) \cup {x}
    /\ \A r \in Pools : r # q => Linked(r)' = Linked(r)
    /\ \A r \in Pools : Leaving(r)' = Leaving(r)
    /\ gen' = gen
    /\ parent'[q][Slot(x)] = NoId
    /\ \A r \in Pools : \A y \in Linked(r) : parent'[r][Slot(y)] = parent[r][Slot(y)]

\* The entity of the next free slot, when it has been created.
LEMMA NextIdEnters ==
    ASSUME IndInv, NEW q \in Pools, NextId(q) \in Ids, NextId(q) \notin Live(q),
           Linked(q)' = Linked(q) \cup {NextId(q)},
           \A r \in Pools : r # q => Linked(r)' = Linked(r),
           \A r \in Pools : Leaving(r)' = Leaving(r),
           gen' = gen,
           parent'[q] = [parent[q] EXCEPT ![Slot(NextId(q))] = NoId],
           \A r \in Pools : r # q => parent'[r] = parent[r]
    PROVE  Enters(q, NextId(q))
  <1> DEFINE x == NextId(q)
             s == Slot(x)
  <1>1. x = <<s, gen[q][s]>> /\ s \in Slots /\ Generation(x) = gen[q][s]
    BY DEF NextId, IdAt, Ids, Slot, Generation
  <1>2. /\ gen[q] \in [Slots -> Nat] /\ Stamped(Live(q), gen[q]) /\ Linked(q) \subseteq Live(q)
        /\ parent[q] \in [Slots -> Ids \cup {NoId}]
    BY WorldIsSane DEF IndInv, Typed, PoolsTyped
  <1> HIDE DEF x, s
  <1>3. ASSUME NEW y \in Linked(q) PROVE Slot(y) # s /\ Slot(y) \in Slots
    <2> DEFINE L == Live(q)
               g == gen[q]
    <2>1. y \in L /\ g \in [Slots -> Nat] /\ Stamped(L, g)
      BY <1>2
    <2> HIDE DEF L, g
    <2>2. y = <<Slot(y), g[Slot(y)]>> /\ Slot(y) \in Slots
      BY <2>1, StampedFacts
    <2>3. x \notin L /\ x = <<s, g[s]>>
      BY <1>1 DEF L, g, x
    <2> QED
      BY <2>1, <2>2, <2>3
  <1>4. parent'[q][s] = NoId /\ \A y \in Linked(q) : parent'[q][Slot(y)] = parent[q][Slot(y)]
    <2>1. parent'[q] = [parent[q] EXCEPT ![s] = NoId]
      BY DEF x, s
    <2> QED
      BY <1>1, <1>2, <1>3, <2>1
  <1>5. \A r \in Pools : \A y \in Linked(r) : parent'[r][Slot(y)] = parent[r][Slot(y)]
    BY <1>4
  <1> QED
    BY <1>1, <1>4, <1>5 DEF x, s, Enters

-----------------------------------------------------------------------------
(* Steps that change nothing but the frames, and the components.           *)

SamePools ==
    /\ cap' = cap /\ free' = free /\ gen' = gen /\ alive' = alive
    /\ uuid' = uuid /\ byUuid' = byUuid
    /\ parent' = parent /\ children' = children /\ roots' = roots /\ strays' = strays

(* Neither the entities in the tree, nor those on their way out, nor a     *)
(* parent, nor a generation changes.                                       *)
TreesStand ==
    /\ gen' = gen /\ parent' = parent
    /\ \A p \in Pools : Linked(p)' = Linked(p) /\ Leaving(p)' = Leaving(p)

ComponentsTyped == comps \in [Pools -> [Slots -> Seq(Components)]]

(* The frames fs may become the frames hs. *)
Continues(w, fs, hs) ==
    /\ hs \in Seq(Frames) /\ StackOK(w, hs) /\ MovesApart(w, hs)
    /\ \A p \in Pools : LeavingIn(hs, p) = LeavingIn(fs, p)

Proper(w, fs) == fs \in Seq(Frames) /\ StackOK(w, fs) /\ MovesApart(w, fs)

\* What the inductive invariant says of the frames, and of the pools.
LEMMA ProperNow ==
    ASSUME IndInv
    PROVE  /\ Typed /\ PoolsTyped /\ ComponentsTyped /\ frames \in Seq(Frames)
           /\ \A p \in Pools : PoolOK(p)
           /\ Proper(World, frames)
           /\ Top = Last(frames) /\ Popped = Front(frames) /\ Depth = Len(frames)
           /\ HostRuns <=> (frames # <<>> => Last(frames).stage \in Callbacks)
  <1>1. Top = Last(frames) /\ Popped = Front(frames) /\ Depth = Len(frames)
    BY DEF Top, Depth, Popped, Last
  <1>2. HostRuns <=> (frames # <<>> => Last(frames).stage \in Callbacks)
    BY <1>1 DEF HostRuns
  <1> QED
    BY <1>1, <1>2 DEF IndInv, Typed, ComponentsTyped, Proper

\* A step that changes only the frames keeps the invariant when these go on
\* as they should.
LEMMA OnlyFramesChange ==
    ASSUME IndInv, SamePools, ComponentsTyped', Continues(World, frames, frames')
    PROVE  IndInv' /\ TreesStand
  <1>1. PoolsTyped'
    BY DEF IndInv, Typed, PoolsTyped, SamePools
  <1>2. \A p \in Pools : Leaving(p)' = Leaving(p)
    BY WorldNow DEF Continues
  <1>3. ASSUME NEW p \in Pools PROVE PoolOK(p)' /\ Live(p)' = Live(p) /\ Linked(p)' = Linked(p)
    <2>1. PoolOK(p) /\ Leaving(p)' = Leaving(p)
      BY <1>2 DEF IndInv
    <2>2. /\ cap'[p] = cap[p] /\ free'[p] = free[p] /\ gen'[p] = gen[p] /\ alive'[p] = alive[p]
          /\ uuid'[p] = uuid[p] /\ byUuid'[p] = byUuid[p] /\ parent'[p] = parent[p]
          /\ children'[p] = children[p] /\ roots'[p] = roots[p] /\ strays'[p] = strays[p]
      BY DEF SamePools
    <2> QED
      BY <2>1, <2>2, PoolUntouched
  <1>4. World' = World
    <2>1. /\ [p \in Pools |-> Live(p)'] = [p \in Pools |-> Live(p)]
          /\ [p \in Pools |-> Leaving(p)'] = [p \in Pools |-> Leaving(p)]
      BY <1>2, <1>3
    <2>2. parent' = parent /\ gen' = gen /\ strays' = strays
      BY DEF SamePools
    <2> QED
      BY <2>1, <2>2, Zenon DEF World
  <1>5. StackOK(World', frames') /\ MovesApart(World', frames')
    BY <1>4 DEF Continues
  <1>6. frames' \in Seq(Frames) /\ comps' \in [Pools -> [Slots -> Seq(Components)]]
    BY DEF Continues, ComponentsTyped
  <1>7. TreesStand
    BY <1>2, <1>3 DEF TreesStand, SamePools
  <1>8. IndInv'
    BY <1>1, <1>3, <1>5, <1>6 DEF IndInv, Typed
  <1> QED
    BY <1>7, <1>8

\* One more operation that moves nothing.
LEMMA OneMore ==
    ASSUME NEW w, NEW fs \in Seq(Frames), \A i \in 1..Len(fs) : fs[i].op # "migrate",
           NEW g \in Frames, g.op # "migrate", \A p \in Pools : ~IsLeaving(g, p)
    PROVE  /\ MovesApart(w, Append(fs, g))
           /\ \A p \in Pools : LeavingIn(Append(fs, g), p) = LeavingIn(fs, p)
  <1> DEFINE hs == Append(fs, g)
  <1>1. \A i \in 1..Len(hs) : hs[i].op # "migrate"
    BY AppendFacts
  <1>2. ASSUME NEW p \in Pools PROVE LeavingIn(hs, p) = LeavingIn(fs, p)
    <2>1. LeavingIn(hs, p) = LeavingIn(fs, p) \cup {h \in {g.id} : IsLeaving(g, p)}
      BY LeavingFacts
    <2> QED
      BY <2>1
  <1> HIDE DEF hs
  <1>3. MovesApart(w, hs)
    BY <1>1, NothingMoves
  <1> QED
    BY <1>2, <1>3 DEF hs

\* The host begins an operation.
LEMMA Begins ==
    ASSUME NEW w, NEW fs, Proper(w, fs), fs # <<>> => Last(fs).stage \in Callbacks,
           NEW g \in Frames, ~g.made, g.op # "migrate", FrameOK(w, g),
           \A p \in Pools : ~IsLeaving(g, p),
           \A i \in 1..Len(fs) : fs[i].op # "migrate" => PairOK(fs[i], g)
    PROVE  Continues(w, fs, Append(fs, g))
  <1>1. fs \in Seq(Frames) /\ StackOK(w, fs)
    BY DEF Proper
  <1>2. \A i \in 1..Len(fs) : fs[i].op # "migrate"
    BY <1>1, NoMigrationUnderHost
  <1>3. fs # <<>> => NestOK(w, Last(fs), g)
    BY DEF NestOK
  <1>4. Append(fs, g) \in Seq(Frames) /\ StackOK(w, Append(fs, g))
    BY <1>1, <1>2, <1>3, StackPush
  <1> QED
    BY <1>1, <1>2, <1>4, OneMore DEF Continues

\* An operation other than a migration begins another one itself.
LEMMA BeginsMore ==
    ASSUME NEW w, NEW fs, Proper(w, fs), fs # <<>>, Last(fs).op # "migrate",
           NEW g \in Frames, g.op # "migrate", FrameOK(w, g), NestOK(w, Last(fs), g),
           \A p \in Pools : ~IsLeaving(g, p),
           \A i \in 1..Len(fs) : fs[i].op # "migrate" => PairOK(fs[i], g)
    PROVE  Continues(w, fs, Append(fs, g))
  <1>1. fs \in Seq(Frames) /\ StackOK(w, fs)
    BY DEF Proper
  <1>2. \A i \in 1..Len(fs) : fs[i].op # "migrate"
    BY <1>1, NoMigration
  <1>4. Append(fs, g) \in Seq(Frames) /\ StackOK(w, Append(fs, g))
    BY <1>1, <1>2, StackPush
  <1> QED
    BY <1>1, <1>2, <1>4, OneMore DEF Continues

\* The innermost operation is over.
LEMMA Ends ==
    ASSUME NEW w, NEW fs, Proper(w, fs), fs # <<>>,
           \A p \in Pools : ~IsLeaving(Last(fs), p)
    PROVE  Continues(w, fs, Front(fs))
  <1>1. fs \in Seq(Frames) /\ StackOK(w, fs) /\ MovesApart(w, fs)
    BY DEF Proper
  <1>2. /\ Front(fs) \in Seq(Frames) /\ Len(Front(fs)) = Len(fs) - 1 /\ Len(fs) \in Nat \ {0}
        /\ \A i \in 1..(Len(fs) - 1) : Front(fs)[i] = fs[i] /\ i \in 1..Len(fs)
        /\ Last(fs) \in Frames /\ fs = Append(Front(fs), Last(fs))
    BY <1>1, StackParts
  <1>3. StackOK(w, Front(fs))
    BY <1>1, StackTop
  <1>4. \A i \in 1..Len(Front(fs)) : Front(fs)[i] = fs[i] /\ i \in 1..Len(fs) /\ Front(fs)[i] \in Frames
    BY <1>2
  <1>5. MovesApart(w, Front(fs))
    BY <1>1, <1>4, StillApart
  <1>6. ASSUME NEW p \in Pools PROVE LeavingIn(Front(fs), p) = LeavingIn(fs, p)
    <2>1. LeavingIn(Append(Front(fs), Last(fs)), p) =
             LeavingIn(Front(fs), p) \cup {h \in {Last(fs).id} : IsLeaving(Last(fs), p)}
      BY <1>2, LeavingFacts
    <2> QED
      BY <1>2, <2>1
  <1> QED
    BY <1>2, <1>3, <1>5, <1>6 DEF Continues

\* The innermost operation goes on, with the same entities.
LEMMA GoesOn ==
    ASSUME NEW w, NEW fs, Proper(w, fs), fs # <<>>,
           NEW g \in Frames, g.op = Last(fs).op, g.pool = Last(fs).pool, g.made = Last(fs).made,
           g.to = Last(fs).to, g.copy = Last(fs).copy,
           g.op = "destroy" \/ (g.id = Last(fs).id /\ g.old = Last(fs).old),
           g.stage = "attach" => Last(fs).stage = "attach",
           g.op = "free" => g.stage # "published" /\ Last(fs).stage # "published",
           FrameOK(w, g)
    PROVE  Continues(w, fs, [fs EXCEPT ![Len(fs)] = g])
  <1> DEFINE r == Front(fs)
             t == Last(fs)
  <1>1. fs \in Seq(Frames) /\ StackOK(w, fs) /\ MovesApart(w, fs)
    BY DEF Proper
  <1>2. /\ r \in Seq(Frames) /\ Len(r) = Len(fs) - 1 /\ Len(fs) \in Nat \ {0}
        /\ \A i \in 1..(Len(fs) - 1) : r[i] = fs[i] /\ i \in 1..Len(fs)
        /\ t = fs[Len(fs)] /\ t \in Frames /\ fs = Append(r, t)
        /\ [fs EXCEPT ![Len(fs)] = g] = Append(r, g)
    BY <1>1, StackParts
  <1>3. /\ StackOK(w, r) /\ FrameOK(w, t) /\ (r = <<>> => ~t.made)
        /\ (r # <<>> => NestOK(w, Last(r), t))
        /\ \A i \in 1..Len(r) : PairOK(r[i], t)
    BY <1>1, StackTop
  <1> HIDE DEF r, t
  <1>4. /\ g.op = t.op /\ g.pool = t.pool /\ g.made = t.made /\ g.to = t.to /\ g.copy = t.copy
        /\ g.op = "destroy" \/ (g.id = t.id /\ g.old = t.old)
        /\ (g.stage = "attach" => t.stage = "attach")
        /\ (g.op = "free" => g.stage # "published" /\ t.stage # "published")
    BY DEF t
  <1>5. \A f : PairOK(f, t) => PairOK(f, g)
    BY <1>4 DEF PairOK
  <1>6. \A f : NestOK(w, f, t) => NestOK(w, f, g)
    BY <1>4 DEF NestOK
  <1>7. Append(r, g) \in Seq(Frames) /\ StackOK(w, Append(r, g))
    BY <1>2, <1>3, <1>4, <1>5, <1>6, StackPush
  <1>8. MovesApart(w, Append(r, g))
    <2> DEFINE hs == Append(r, g)
    <2>1. /\ Len(hs) = Len(fs) /\ hs[Len(fs)] = g /\ hs \in Seq(Frames)
          /\ \A i \in 1..(Len(fs) - 1) : hs[i] = fs[i]
      BY <1>2, <1>7, AppendFacts
    <2> HIDE DEF hs
    <2>2. \A i \in 1..Len(hs) : hs[i] \in Frames
      BY <2>1
    <2>3. ASSUME NEW i \in 1..Len(hs), hs[i].op # "destroy"
          PROVE  \E j \in 1..Len(fs) : /\ fs[j].op = hs[i].op /\ fs[j].pool = hs[i].pool
                                       /\ fs[j].id = hs[i].id
      <3>1. i \in 1..Len(fs)
        BY <2>1
      <3>2. CASE i = Len(fs)
        <4>1. hs[i] = g /\ fs[i] = t
          BY <1>2, <2>1, <3>2
        <4>2. fs[i].op = hs[i].op /\ fs[i].pool = hs[i].pool /\ fs[i].id = hs[i].id
          BY <1>4, <2>3, <4>1
        <4> QED
          BY <3>1, <4>2
      <3>3. CASE i # Len(fs)
        BY <1>2, <2>1, <3>1, <3>3
      <3> QED
        BY <3>2, <3>3
    <2>4. MovesApart(w, hs)
      BY <1>1, <2>2, <2>3, StillApart
    <2> QED
      BY <2>4 DEF hs
  <1>9. ASSUME NEW p \in Pools PROVE LeavingIn(Append(r, g), p) = LeavingIn(fs, p)
    <2>1. /\ LeavingIn(Append(r, g), p) = LeavingIn(r, p) \cup {h \in {g.id} : IsLeaving(g, p)}
          /\ LeavingIn(Append(r, t), p) = LeavingIn(r, p) \cup {h \in {t.id} : IsLeaving(t, p)}
      BY <1>2, LeavingFacts
    <2>2. ~IsLeaving(g, p) /\ ~IsLeaving(t, p)
      BY <1>4 DEF IsLeaving
    <2> QED
      BY <1>2, <2>1, <2>2
  <1> QED
    BY <1>2, <1>7, <1>8, <1>9 DEF Continues

\* The innermost operations, none of which frees an entity, are given up.
LEMMA GivenUp ==
    ASSUME NEW w, NEW fs, Proper(w, fs), NEW n \in 0..Len(fs),
           \A i \in (n + 1)..Len(fs) : fs[i].op # "free"
    PROVE  Continues(w, fs, SubSeq(fs, 1, n))
  <1> DEFINE hs == SubSeq(fs, 1, n)
  <1>1. fs \in Seq(Frames) /\ StackOK(w, fs) /\ MovesApart(w, fs)
    BY DEF Proper
  <1>2. /\ hs \in Seq(Frames) /\ Len(hs) = n /\ StackOK(w, hs)
        /\ \A i \in 1..n : hs[i] = fs[i] /\ i \in 1..Len(fs)
    BY <1>1, StackPrefix
  <1> HIDE DEF hs
  <1>3. \A i \in 1..Len(hs) : hs[i] = fs[i] /\ i \in 1..Len(fs) /\ hs[i] \in Frames
    BY <1>2
  <1>4. MovesApart(w, hs)
    BY <1>1, <1>3, StillApart
  <1>5. ASSUME NEW p \in Pools PROVE LeavingIn(hs, p) = LeavingIn(fs, p)
    <2>1. \A x : /\ x \in LeavingIn(fs, p) <=> \E i \in 1..Len(fs) : IsLeaving(fs[i], p) /\ fs[i].id = x
                 /\ x \in LeavingIn(hs, p) <=> \E i \in 1..Len(hs) : IsLeaving(hs[i], p) /\ hs[i].id = x
      BY <1>1, <1>2, LeavingFacts
    <2>2. \A i \in 1..Len(fs) : IsLeaving(fs[i], p) => i \in 1..n
      BY DEF IsLeaving
    <2> QED
      BY <1>2, <2>1, <2>2
  <1> QED
    BY <1>2, <1>4, <1>5 DEF Continues, hs

\* Nothing happens to the frames.
LEMMA StandsStill ==
    ASSUME NEW w, NEW fs, Proper(w, fs)
    PROVE  Continues(w, fs, fs)
  BY DEF Proper, Continues

-----------------------------------------------------------------------------
(* The host begins an operation that changes no pool yet.                  *)

\* What the guards of the host's calls say of the frames.
LEMMA FramesNow ==
    ASSUME IndInv, NEW p \in Pools
    PROVE  /\ \A i \in 1..Len(frames) : frames[i] \in Frames /\ frames[i] \in Running
           /\ \A f \in Running : \E i \in 1..Len(frames) : f = frames[i]
           /\ \A i \in 1..Len(frames) : frames[i].pool = p =>
                /\ frames[i].op = "free" /\ frames[i].stage = "published" => frames[i].id \in Leaving(p)
                /\ frames[i].op # "destroy" => frames[i].id \in Busy(p)
                /\ frames[i].op = "free" => frames[i].id \in Dying(p)
           /\ Usable(p) \subseteq Linked(p) /\ Usable(p) \cap Leaving(p) = {}
           /\ World.live[p] = Live(p) /\ World.leaving[p] = Leaving(p)
           /\ Leaving(p) \subseteq Live(p) /\ Linked(p) \subseteq Live(p) /\ Live(p) \subseteq Ids
           /\ NoId \notin Ids
  <1>1. frames \in Seq(Frames)
    BY ProperNow
  <1>2. Running = {frames[i] : i \in 1..Len(frames)}
    BY <1>1, ToSetFacts DEF Running
  <1>3. Leaving(p) \subseteq Live(p) /\ Linked(p) \subseteq Live(p) /\ Live(p) \subseteq Ids
    BY WorldIsSane DEF IndInv
  <1>4. Usable(p) \subseteq Linked(p) /\ Usable(p) \cap Leaving(p) = {}
    BY DEF Usable, Linked
  <1>5. World.live[p] = Live(p) /\ World.leaving[p] = Leaving(p)
    BY WorldNow
  <1> QED
    BY <1>1, <1>2, <1>3, <1>4, <1>5, PoolAssumption DEF Leaving, Busy, Dying

\* An add begins.
LEMMA AddComponentKeeps ==
    ASSUME IndInv, NEW p \in Pools, NEW id \in Usable(p), NEW c \in Components, AddComponent(p, id, c)
    PROVE  IndInv' /\ TreesStand
  <1> DEFINE g == [Frame("add", p, id) EXCEPT !.comp = c, !.at = 1, !.stage = "resolving"]
  <1>1. id \in Live(p) /\ id \notin Leaving(p) /\ id \in Ids
    BY FramesNow
  <1>2. /\ g \in Frames /\ ~g.made /\ g.op = "add" /\ g.stage = "resolving" /\ g.pool = p /\ g.id = id
        /\ g.comp = c
    BY <1>1 DEF Frame, Frames
  <1>3. frames' = Append(frames, g)
    BY DEF AddComponent, Pushed
  <1> HIDE DEF g
  <1>4. FrameOK(World, g)
    BY <1>1, <1>2, FramesNow DEF FrameOK
  <1>5. \A i \in 1..Len(frames) : frames[i].op # "migrate" => PairOK(frames[i], g)
    BY <1>1, <1>2, FramesNow DEF PairOK
  <1>6. \A r \in Pools : ~IsLeaving(g, r)
    BY <1>2 DEF IsLeaving
  <1>7. Proper(World, frames) /\ (frames # <<>> => Last(frames).stage \in Callbacks) /\ ComponentsTyped
    BY ProperNow DEF AddComponent, MayBegin
  <1>8. Continues(World, frames, Append(frames, g))
    BY <1>2, <1>4, <1>5, <1>6, <1>7, Begins
  <1>9. SamePools /\ comps' = comps
    BY DEF AddComponent, SamePools, slotVars, uuidVars, treeVars, componentVars
  <1> QED
    BY <1>3, <1>7, <1>8, <1>9, OnlyFramesChange DEF ComponentsTyped

\* A removal begins.
LEMMA RemoveComponentKeeps ==
    ASSUME IndInv, NEW p \in Pools, NEW id \in Usable(p), NEW c \in Components, RemoveComponent(p, id, c)
    PROVE  IndInv' /\ TreesStand
  <1> DEFINE g == [Frame("remove", p, id) EXCEPT !.comp = c, !.stage = "removing"]
  <1>1. id \in Live(p) /\ id \notin Leaving(p) /\ id \in Ids
    BY FramesNow
  <1>2. /\ g \in Frames /\ ~g.made /\ g.op = "remove" /\ g.stage = "removing" /\ g.pool = p /\ g.id = id
    BY <1>1 DEF Frame, Frames
  <1>3. frames' = Append(frames, g)
    BY DEF RemoveComponent, BeginRemoval, Pushed
  <1> HIDE DEF g
  <1>4. FrameOK(World, g)
    BY <1>1, <1>2, FramesNow DEF FrameOK
  <1>5. \A i \in 1..Len(frames) : frames[i].op # "migrate" => PairOK(frames[i], g)
    BY <1>1, <1>2, FramesNow DEF PairOK
  <1>6. \A r \in Pools : ~IsLeaving(g, r)
    BY <1>2 DEF IsLeaving
  <1>7. Proper(World, frames) /\ (frames # <<>> => Last(frames).stage \in Callbacks) /\ ComponentsTyped
    BY ProperNow DEF RemoveComponent, MayBegin
  <1>8. Continues(World, frames, Append(frames, g))
    BY <1>2, <1>4, <1>5, <1>6, <1>7, Begins
  <1>9. SamePools /\ comps' = comps
    BY DEF RemoveComponent, BeginRemoval, SamePools, slotVars, uuidVars, treeVars
  <1> QED
    BY <1>3, <1>7, <1>8, <1>9, OnlyFramesChange DEF ComponentsTyped

\* A replacement begins.
LEMMA ReplaceComponentKeeps ==
    ASSUME IndInv, NEW p \in Pools, NEW id \in Usable(p), NEW new \in Components,
           NEW k \in 1..Len(comps[p][Slot(id)]), ReplaceComponent(p, id, k, new)
    PROVE  IndInv' /\ TreesStand
  <1> DEFINE expected == comps[p][Slot(id)][k]
             g == [[Frame("replace", p, id) EXCEPT !.other = new, !.at = k]
                     EXCEPT !.comp = expected, !.stage = "removing"]
  <1>1. id \in Live(p) /\ id \notin Leaving(p) /\ id \in Ids /\ Slot(id) \in Slots
    BY FramesNow DEF Ids, Slot
  <1>2. expected \in Components /\ k \in Nat
    <2>1. comps[p][Slot(id)] \in Seq(Components)
      BY <1>1, ProperNow DEF ComponentsTyped
    <2> QED
      BY <2>1
  <1>3. frames' = Append(frames, g)
    BY DEF ReplaceComponent, BeginRemoval, Pushed
  <1> HIDE DEF expected
  <1>4. /\ g \in Frames /\ ~g.made /\ g.op = "replace" /\ g.stage = "removing" /\ g.pool = p /\ g.id = id
        /\ g.other = new /\ g.comp = expected
    BY <1>1, <1>2 DEF Frame, Frames
  <1> HIDE DEF g
  <1>5. FrameOK(World, g)
    BY <1>1, <1>2, <1>4, FramesNow DEF FrameOK
  <1>6. \A i \in 1..Len(frames) : frames[i].op # "migrate" => PairOK(frames[i], g)
    BY <1>1, <1>4, FramesNow DEF PairOK
  <1>7. \A r \in Pools : ~IsLeaving(g, r)
    BY <1>4 DEF IsLeaving
  <1>8. Proper(World, frames) /\ (frames # <<>> => Last(frames).stage \in Callbacks) /\ ComponentsTyped
    BY ProperNow DEF ReplaceComponent, MayBegin
  <1>9. Continues(World, frames, Append(frames, g))
    BY <1>4, <1>5, <1>6, <1>7, <1>8, Begins
  <1>10. SamePools /\ comps' = comps
    BY DEF ReplaceComponent, BeginRemoval, SamePools, slotVars, uuidVars, treeVars
  <1> QED
    BY <1>3, <1>8, <1>9, <1>10, OnlyFramesChange DEF ComponentsTyped

\* A free begins, and saves the parent.
LEMMA FreeKeeps ==
    ASSUME IndInv, NEW p \in Pools, NEW id \in Usable(p), Free(p, id)
    PROVE  IndInv' /\ TreesStand
  <1> DEFINE up == parent[p][Slot(id)]
             g == [Frame("free", p, id) EXCEPT !.old = up]
  <1>1. id \in Live(p) /\ id \in Linked(p) /\ id \notin Leaving(p) /\ id \in Ids /\ Slot(id) \in Slots
    BY FramesNow DEF Ids, Slot
  <1>2. up \in Linked(p) \cup {NoId} /\ up \notin Leaving(p) /\ up \in Ids \cup {NoId}
    <2>1. ParentsHold(Linked(p), parent[p])
      BY DEF IndInv, PoolOK
    <2> QED
      BY <1>1, <2>1, FramesNow DEF ParentsHold, Linked
  <1>3. frames' = Append(frames, g) /\ id \notin Busy(p)
    BY DEF Free, Pushed
  <1> HIDE DEF up
  <1>4. g \in Frames /\ ~g.made /\ g.op = "free" /\ g.stage = "begin" /\ g.pool = p /\ g.id = id /\ g.old = up
    BY <1>1, <1>2 DEF Frame, Frames
  <1> HIDE DEF g
  <1>5. FrameOK(World, g)
    <2>1. OldOK(World, g)
      BY <1>4, WorldNow DEF OldOK, Up, up
    <2> QED
      BY <1>1, <1>4, <2>1, FramesNow DEF FrameOK
  <1>6. \A i \in 1..Len(frames) : frames[i].op # "migrate" => PairOK(frames[i], g)
    BY <1>1, <1>2, <1>3, <1>4, FramesNow DEF PairOK
  <1>7. \A r \in Pools : ~IsLeaving(g, r)
    BY <1>4 DEF IsLeaving
  <1>8. Proper(World, frames) /\ (frames # <<>> => Last(frames).stage \in Callbacks) /\ ComponentsTyped
    BY ProperNow DEF Free, MayBegin
  <1>9. Continues(World, frames, Append(frames, g))
    BY <1>4, <1>5, <1>6, <1>7, <1>8, Begins
  <1>10. SamePools /\ comps' = comps
    BY DEF Free, SamePools, slotVars, uuidVars, treeVars, componentVars
  <1> QED
    BY <1>3, <1>8, <1>9, <1>10, OnlyFramesChange DEF ComponentsTyped

\* A pool in which nothing is in progress is about to go.
LEMMA DestroyPoolKeeps ==
    ASSUME IndInv, NEW p \in Pools, DestroyPool(p)
    PROVE  IndInv' /\ TreesStand
  <1> DEFINE g == [Frame("destroy", p, NoId) EXCEPT !.at = 0]
  <1>1. g \in Frames /\ ~g.made /\ g.op = "destroy" /\ g.stage = "begin" /\ g.pool = p
    BY DEF Frame, Frames
  <1>2. frames' = Append(frames, g) /\ \A f \in Running : p \notin {f.pool, f.to}
    BY DEF DestroyPool, Pushed
  <1> HIDE DEF g
  <1>3. FrameOK(World, g)
    BY <1>1 DEF FrameOK
  <1>4. \A i \in 1..Len(frames) : frames[i].op # "migrate" => PairOK(frames[i], g)
    BY <1>1, <1>2, FramesNow DEF PairOK
  <1>5. \A r \in Pools : ~IsLeaving(g, r)
    BY <1>1 DEF IsLeaving
  <1>6. Proper(World, frames) /\ (frames # <<>> => Last(frames).stage \in Callbacks) /\ ComponentsTyped
    BY ProperNow DEF DestroyPool, MayBegin
  <1>7. Continues(World, frames, Append(frames, g))
    BY <1>1, <1>3, <1>4, <1>5, <1>6, Begins
  <1>8. SamePools /\ comps' = comps
    BY DEF DestroyPool, SamePools, slotVars, uuidVars, treeVars, componentVars
  <1> QED
    BY <1>2, <1>6, <1>7, <1>8, OnlyFramesChange DEF ComponentsTyped

-----------------------------------------------------------------------------
(* The innermost operation goes on, or ends, and changes no pool.          *)

\* The innermost frame, what it may rely on, and its entity.
LEMMA TopNow ==
    ASSUME IndInv, frames # <<>>
    PROVE  /\ Top = Last(frames) /\ Top \in Frames /\ FrameOK(World, Top)
           /\ Depth = Len(frames) /\ Len(frames) \in Nat \ {0} /\ Top = frames[Depth]
           /\ Top.pool \in Pools
           /\ Top.op # "destroy" => Top.id \in Live(Top.pool) /\ Top.id \in Ids /\ Slot(Top.id) \in Slots
           /\ Top \in Running
  <1>1. frames \in Seq(Frames) /\ StackOK(World, frames) /\ Top = Last(frames) /\ Depth = Len(frames)
    BY ProperNow DEF Proper
  <1>2. /\ Last(frames) = frames[Len(frames)] /\ Last(frames) \in Frames /\ Len(frames) \in Nat \ {0}
        /\ FrameOK(World, Last(frames)) /\ Len(frames) \in 1..Len(frames)
    BY <1>1, StackParts, StackTop
  <1>3. Top.pool \in Pools
    BY <1>1, <1>2, FrameFields
  <1>4. Top \in Running
    BY <1>1, <1>2, <1>3, FramesNow
  <1>5. Top.op # "destroy" => Top.id \in Live(Top.pool) /\ Top.id \in Ids /\ Slot(Top.id) \in Slots
    <2>1. \A x \in Ids : Slot(x) \in Slots
      BY DEF Ids, Slot
    <2> QED
      BY <1>1, <1>2, <1>3, <2>1, FramesNow DEF FrameOK
  <1> QED
    BY <1>1, <1>2, <1>3, <1>4, <1>5

\* The top frame is replaced by one that works on the same.
LEMMA GoesOnKeeps ==
    ASSUME IndInv, frames # <<>>, SamePools, ComponentsTyped',
           NEW g \in Frames, frames' = [frames EXCEPT ![Depth] = g],
           g.op = Top.op, g.pool = Top.pool, g.made = Top.made,
           g.to = Top.to, g.copy = Top.copy,
           g.op = "destroy" \/ (g.id = Top.id /\ g.old = Top.old),
           g.stage = "attach" => Top.stage = "attach",
           g.op = "free" => g.stage # "published" /\ Top.stage # "published",
           FrameOK(World, g)
    PROVE  IndInv' /\ TreesStand
  <1>1. Proper(World, frames) /\ Top = Last(frames) /\ Depth = Len(frames)
    BY ProperNow
  <1>2. Continues(World, frames, [frames EXCEPT ![Len(frames)] = g])
    BY <1>1, GoesOn
  <1> QED
    BY <1>1, <1>2, OnlyFramesChange

\* One array of components replaced by another.
LEMMA OneArrayChanges ==
    ASSUME ComponentsTyped, NEW p \in Pools, NEW s \in Slots, NEW list \in Seq(Components)
    PROVE  /\ comps[p][s] \in Seq(Components)
           /\ [comps EXCEPT ![p][s] = list] \in [Pools -> [Slots -> Seq(Components)]]
  BY DEF ComponentsTyped

\* The requirement is there already: the next one.
LEMMA SkipRequirementKeeps ==
    ASSUME IndInv, SkipRequirement
    PROVE  IndInv' /\ TreesStand
  <1> DEFINE g == [Top EXCEPT !.at = @ + 1]
  <1>1. frames # <<>> /\ Top.op = "add" /\ Top.stage = "resolving"
    BY DEF SkipRequirement, At
  <1>2. Top \in Frames /\ FrameOK(World, Top)
    BY <1>1, TopNow
  <1>3. /\ g \in Frames /\ g.op = "add" /\ g.pool = Top.pool /\ g.made = Top.made /\ g.to = Top.to
        /\ g.copy = Top.copy /\ g.id = Top.id /\ g.old = Top.old /\ g.stage = "resolving"
        /\ g.comp = Top.comp
    BY <1>1, <1>2 DEF Frames
  <1>4. frames' = [frames EXCEPT ![Depth] = g]
    BY DEF SkipRequirement, Became
  <1>5. SamePools /\ ComponentsTyped'
    BY ProperNow DEF SkipRequirement, SamePools, ComponentsTyped, slotVars, uuidVars, treeVars, componentVars
  <1> HIDE DEF g
  <1>6. FrameOK(World, g)
    BY <1>1, <1>2, <1>3 DEF FrameOK
  <1> QED
    BY <1>1, <1>3, <1>4, <1>5, <1>6, GoesOnKeeps

\* The component stands in the array.
LEMMA AddRawKeeps ==
    ASSUME IndInv, AddRaw
    PROVE  IndInv' /\ TreesStand
  <1> DEFINE g == [Top EXCEPT !.stage = "added"]
  <1>1. frames # <<>> /\ Top.op = "add" /\ Top.stage = "resolving"
    BY DEF AddRaw, At
  <1>2. /\ Top \in Frames /\ FrameOK(World, Top) /\ Top.pool \in Pools /\ Slot(Top.id) \in Slots
        /\ Top.comp \in Components
    BY <1>1, TopNow DEF FrameOK
  <1>3. /\ g \in Frames /\ g.op = "add" /\ g.pool = Top.pool /\ g.made = Top.made /\ g.to = Top.to
        /\ g.copy = Top.copy /\ g.id = Top.id /\ g.old = Top.old /\ g.stage = "added"
        /\ g.comp = Top.comp
    BY <1>1, <1>2 DEF Frames
  <1>4. frames' = [frames EXCEPT ![Depth] = g]
    BY DEF AddRaw, To, Became
  <1>5. SamePools /\ comps' = [comps EXCEPT ![Top.pool][Slot(Top.id)] = Append(@, Top.comp)]
    BY DEF AddRaw, SamePools, slotVars, uuidVars, treeVars
  <1> HIDE DEF g
  <1>6. FrameOK(World, g)
    BY <1>1, <1>2, <1>3 DEF FrameOK
  <1>7. ComponentsTyped'
    BY <1>2, <1>5, ProperNow DEF ComponentsTyped
  <1> QED
    BY <1>1, <1>3, <1>4, <1>5, <1>6, <1>7, GoesOnKeeps

\* The component is off its entity.
LEMMA RemoveReturnKeeps ==
    ASSUME IndInv, RemoveReturn
    PROVE  IndInv' /\ TreesStand
  <1> DEFINE g == [Top EXCEPT !.stage = "published", !.comp = NoComponent, !.other = Top.comp]
  <1>1. frames # <<>> /\ Top.op = "remove" /\ Top.stage = "removing"
    BY DEF RemoveReturn, At
  <1>2. /\ Top \in Frames /\ FrameOK(World, Top) /\ Top.pool \in Pools /\ Slot(Top.id) \in Slots
    BY <1>1, TopNow
  <1>3. /\ g \in Frames /\ g.op = "remove" /\ g.pool = Top.pool /\ g.made = Top.made /\ g.to = Top.to
        /\ g.copy = Top.copy /\ g.id = Top.id /\ g.old = Top.old /\ g.stage = "published"
    BY <1>1, <1>2 DEF Frames
  <1>4. frames' = [frames EXCEPT ![Depth] = g]
    BY DEF RemoveReturn, Became
  <1>5. /\ SamePools
        /\ comps' = [comps EXCEPT ![Top.pool][Slot(Top.id)] =
                       RemoveFirst(comps[Top.pool][Slot(Top.id)], Top.comp)]
    BY DEF RemoveReturn, Detach, SamePools, slotVars, uuidVars, treeVars
  <1> HIDE DEF g
  <1>6. FrameOK(World, g)
    BY <1>1, <1>2, <1>3 DEF FrameOK
  <1>7. ComponentsTyped'
    <2>1. comps[Top.pool][Slot(Top.id)] \in Seq(Components)
      BY <1>2, ProperNow DEF ComponentsTyped
    <2>2. RemoveFirst(comps[Top.pool][Slot(Top.id)], Top.comp) \in Seq(Components)
      BY <2>1, RemoveFirstType
    <2> QED
      BY <1>2, <1>5, <2>2, ProperNow, OneArrayChanges DEF ComponentsTyped
  <1> QED
    BY <1>1, <1>3, <1>4, <1>5, <1>6, <1>7, GoesOnKeeps

\* The new component stands where the old one stood.
LEMMA ReplaceReturnKeeps ==
    ASSUME IndInv, ReplaceReturn
    PROVE  IndInv' /\ TreesStand
  <1> DEFINE g == [Top EXCEPT !.stage = "added", !.comp = Top.other, !.other = Top.comp]
  <1>1. frames # <<>> /\ Top.op = "replace" /\ Top.stage = "removing"
    BY DEF ReplaceReturn, At
  <1>2. /\ Top \in Frames /\ FrameOK(World, Top) /\ Top.pool \in Pools /\ Slot(Top.id) \in Slots
        /\ Top.comp \in Components /\ Top.other \in Components
    BY <1>1, TopNow DEF FrameOK
  <1>3. /\ g \in Frames /\ g.op = "replace" /\ g.pool = Top.pool /\ g.made = Top.made /\ g.to = Top.to
        /\ g.copy = Top.copy /\ g.id = Top.id /\ g.old = Top.old /\ g.stage = "added"
        /\ g.comp = Top.other /\ g.other = Top.comp
    BY <1>1, <1>2 DEF Frames
  <1>4. frames' = [frames EXCEPT ![Depth] = g]
    BY DEF ReplaceReturn, Became
  <1>5. SamePools /\ comps' = [comps EXCEPT ![Top.pool][Slot(Top.id)][Top.at] = Top.other]
    BY DEF ReplaceReturn, SamePools, slotVars, uuidVars, treeVars
  <1> HIDE DEF g
  <1>6. FrameOK(World, g)
    BY <1>1, <1>2, <1>3 DEF FrameOK
  <1>7. ComponentsTyped'
    <2>1. comps[Top.pool][Slot(Top.id)] \in Seq(Components)
      BY <1>2, ProperNow DEF ComponentsTyped
    <2>2. [comps[Top.pool][Slot(Top.id)] EXCEPT ![Top.at] = Top.other] \in Seq(Components)
      <3> DEFINE list == comps[Top.pool][Slot(Top.id)]
                 k == Top.at
                 c == Top.other
      <3>1. list \in Seq(Components) /\ c \in Components
        BY <1>2, <2>1
      <3> HIDE DEF list, k, c
      <3>2. Len(list) \in Nat /\ list \in [1..Len(list) -> Components]
        BY <3>1
      <3>3. [list EXCEPT ![k] = c] \in [1..Len(list) -> Components]
        BY <3>1, <3>2
      <3>4. [list EXCEPT ![k] = c] \in Seq(Components)
        BY <3>2, <3>3
      <3> QED
        BY <3>4, Zenon DEF list, k, c
    <2>3. comps' = [comps EXCEPT ![Top.pool][Slot(Top.id)] =
                      [comps[Top.pool][Slot(Top.id)] EXCEPT ![Top.at] = Top.other]]
      BY <1>5
    <2> QED
      BY <1>2, <2>2, <2>3, ProperNow, OneArrayChanges DEF ComponentsTyped
  <1> QED
    BY <1>1, <1>3, <1>4, <1>5, <1>6, <1>7, GoesOnKeeps

\* The first component of an entity that is being freed.
LEMMA FreeComponentKeeps ==
    ASSUME IndInv, FreeComponent
    PROVE  IndInv' /\ TreesStand
  <1> DEFINE c == Head(comps[Top.pool][Slot(Top.id)])
             g == [Top EXCEPT !.comp = c, !.stage = "removing"]
  <1>1. /\ frames # <<>> /\ Top.op = "free" /\ Top.stage = "begin"
        /\ comps[Top.pool][Slot(Top.id)] # <<>>
    BY DEF FreeComponent, At
  <1>2. /\ Top \in Frames /\ FrameOK(World, Top) /\ Top.pool \in Pools /\ Slot(Top.id) \in Slots
    BY <1>1, TopNow
  <1>3. c \in Components
    <2>1. comps[Top.pool][Slot(Top.id)] \in Seq(Components)
      BY <1>2, ProperNow DEF ComponentsTyped
    <2> QED
      BY <1>1, <2>1, HeadFacts
  <1>4. frames' = [frames EXCEPT ![Depth] = g]
    BY DEF FreeComponent, Became
  <1>5. SamePools /\ ComponentsTyped'
    BY ProperNow DEF FreeComponent, SamePools, ComponentsTyped, slotVars, uuidVars, treeVars
  <1> HIDE DEF c
  <1>6. /\ g \in Frames /\ g.op = "free" /\ g.pool = Top.pool /\ g.made = Top.made /\ g.to = Top.to
        /\ g.copy = Top.copy /\ g.id = Top.id /\ g.old = Top.old /\ g.stage = "removing"
    BY <1>1, <1>2, <1>3 DEF Frames
  <1> HIDE DEF g
  <1>7. FrameOK(World, g)
    BY <1>1, <1>2, <1>6 DEF FrameOK, OldOK
  <1> QED
    BY <1>1, <1>4, <1>5, <1>6, <1>7, GoesOnKeeps

\* That component is gone.
LEMMA FreeComponentReturnKeeps ==
    ASSUME IndInv, FreeComponentReturn
    PROVE  IndInv' /\ TreesStand
  <1> DEFINE g == [Top EXCEPT !.comp = NoComponent, !.stage = "begin"]
  <1>1. frames # <<>> /\ Top.op = "free" /\ Top.stage = "removing"
    BY DEF FreeComponentReturn, At
  <1>2. /\ Top \in Frames /\ FrameOK(World, Top) /\ Top.pool \in Pools /\ Slot(Top.id) \in Slots
    BY <1>1, TopNow
  <1>3. /\ g \in Frames /\ g.op = "free" /\ g.pool = Top.pool /\ g.made = Top.made /\ g.to = Top.to
        /\ g.copy = Top.copy /\ g.id = Top.id /\ g.old = Top.old /\ g.stage = "begin"
    BY <1>1, <1>2 DEF Frames
  <1>4. frames' = [frames EXCEPT ![Depth] = g]
    BY DEF FreeComponentReturn, Became
  <1>5. /\ SamePools
        /\ comps' = [comps EXCEPT ![Top.pool][Slot(Top.id)] =
                       RemoveFirst(comps[Top.pool][Slot(Top.id)], Top.comp)]
    BY DEF FreeComponentReturn, Detach, SamePools, slotVars, uuidVars, treeVars
  <1> HIDE DEF g
  <1>6. FrameOK(World, g)
    BY <1>1, <1>2, <1>3 DEF FrameOK, OldOK
  <1>7. ComponentsTyped'
    <2>1. comps[Top.pool][Slot(Top.id)] \in Seq(Components)
      BY <1>2, ProperNow DEF ComponentsTyped
    <2>2. RemoveFirst(comps[Top.pool][Slot(Top.id)], Top.comp) \in Seq(Components)
      BY <2>1, RemoveFirstType
    <2> QED
      BY <1>2, <1>5, <2>2, ProperNow, OneArrayChanges DEF ComponentsTyped
  <1> QED
    BY <1>1, <1>3, <1>4, <1>5, <1>6, <1>7, GoesOnKeeps

\* The components of a migrated entity are those of its copy.
LEMMA MigrateComponentsKeeps ==
    ASSUME IndInv, MigrateComponents
    PROVE  IndInv' /\ TreesStand
  <1> DEFINE g == [Top EXCEPT !.stage = "children"]
             moved == comps[Top.pool][Slot(Top.id)]
             q == Top.to
             s == Slot(Top.copy)
  <1>1. frames # <<>> /\ Top.op = "migrate" /\ Top.stage = "begin"
    BY DEF MigrateComponents, At
  <1>2. /\ Top \in Frames /\ FrameOK(World, Top) /\ Top.pool \in Pools /\ Slot(Top.id) \in Slots
        /\ MigrationOK(World, Top)
    BY <1>1, TopNow DEF FrameOK
  <1>3. q \in Pools /\ s \in Slots
    <2>1. q \in Pools /\ Top.copy \in World.live[q]
      BY <1>2 DEF MigrationOK, RootIn, InTree
    <2>2. Top.copy \in Ids
      BY <2>1, FramesNow
    <2> QED
      BY <2>1, <2>2 DEF Ids, Slot
  <1>4. /\ g \in Frames /\ g.op = "migrate" /\ g.pool = Top.pool /\ g.made = Top.made /\ g.to = Top.to
        /\ g.copy = Top.copy /\ g.id = Top.id /\ g.old = Top.old /\ g.stage = "children"
    BY <1>1, <1>2 DEF Frames
  <1>5. frames' = [frames EXCEPT ![Depth] = g]
    BY DEF MigrateComponents, To, Became
  <1>6. /\ SamePools
        /\ comps' = [comps EXCEPT ![Top.pool][Slot(Top.id)] = <<>>, ![q][s] = @ \o moved]
    BY DEF MigrateComponents, SamePools, slotVars, uuidVars, treeVars
  <1>7. ComponentsTyped'
    <2>1. ComponentsTyped /\ moved \in Seq(Components)
      BY <1>2, ProperNow DEF ComponentsTyped
    <2> DEFINE mid == [comps EXCEPT ![Top.pool][Slot(Top.id)] = <<>>]
    <2>2. mid \in [Pools -> [Slots -> Seq(Components)]]
      <3>1. <<>> \in Seq(Components)
        OBVIOUS
      <3> QED
        BY <1>2, <2>1, <3>1, OneArrayChanges
    <2>3. comps' = [mid EXCEPT ![q][s] = comps[q][s] \o moved]
      BY <1>6
    <2>4. comps[q][s] \o moved \in Seq(Components)
      BY <1>3, <2>1, OneArrayChanges
    <2> HIDE DEF mid, moved, q, s
    <2> QED
      BY <1>3, <2>2, <2>3, <2>4 DEF ComponentsTyped
  <1> HIDE DEF g
  <1>8. FrameOK(World, g)
    BY <1>1, <1>2, <1>4 DEF FrameOK, MigrationOK
  <1> QED
    BY <1>1, <1>4, <1>5, <1>6, <1>7, <1>8, GoesOnKeeps

-----------------------------------------------------------------------------
(* The innermost operation ends, gives up, or begins another one.          *)

\* The components of a removal and of a replacement are released.
LEMMA EndKeeps ==
    ASSUME IndInv, frames # <<>>, Top.op # "free", SamePools, ComponentsTyped', frames' = Popped
    PROVE  IndInv' /\ TreesStand
  <1>1. Proper(World, frames) /\ Top = Last(frames) /\ Popped = Front(frames)
    BY ProperNow
  <1>2. \A p \in Pools : ~IsLeaving(Last(frames), p)
    BY <1>1 DEF IsLeaving
  <1>3. Continues(World, frames, Front(frames))
    BY <1>1, <1>2, Ends
  <1> QED
    BY <1>1, <1>3, OnlyFramesChange

\* The end of tc_entity_pool_remove_component: the reference is let go.
LEMMA RemoveEndKeeps ==
    ASSUME IndInv, RemoveEnd
    PROVE  IndInv' /\ TreesStand
  <1>1. frames # <<>> /\ Top.op # "free" /\ frames' = Popped
    BY DEF RemoveEnd, At
  <1>2. SamePools /\ ComponentsTyped'
    BY ProperNow DEF RemoveEnd, SamePools, ComponentsTyped, slotVars, uuidVars, treeVars
  <1> QED
    BY <1>1, <1>2, EndKeeps

\* The end of tc_entity_pool_replace_component_at_checked.
LEMMA ReplaceEndKeeps ==
    ASSUME IndInv, ReplaceEnd
    PROVE  IndInv' /\ TreesStand
  <1>1. frames # <<>> /\ Top.op # "free" /\ frames' = Popped
    BY DEF ReplaceEnd, At
  <1>2. SamePools /\ ComponentsTyped'
    BY ProperNow DEF ReplaceEnd, SamePools, ComponentsTyped, slotVars, uuidVars, treeVars
  <1> QED
    BY <1>1, <1>2, EndKeeps

\* An add returns, to the one that made it if there is one.
LEMMA AddReturnKeeps ==
    ASSUME IndInv, AddReturn
    PROVE  IndInv' /\ TreesStand
  <1> DEFINE r == Front(frames)
             f == Last(r)
             g == [f EXCEPT !.at = @ + 1]
  <1>1. frames # <<>> /\ Top.op = "add" /\ Top.stage = "added"
    BY DEF AddReturn, At
  <1>2. SamePools /\ ComponentsTyped'
    BY ProperNow DEF AddReturn, SamePools, ComponentsTyped, slotVars, uuidVars, treeVars, componentVars
  <1>3. CASE ~Top.made
    <2>1. frames' = Popped
      BY <1>3 DEF AddReturn
    <2> QED
      BY <1>1, <1>2, <2>1, EndKeeps
  <1>4. CASE Top.made
    <2>1. /\ Proper(World, frames) /\ Top = Last(frames) /\ Popped = r /\ Depth = Len(frames)
          /\ frames \in Seq(Frames) /\ StackOK(World, frames)
      BY ProperNow DEF Proper
    <2>2. frames' = [r EXCEPT ![Len(frames) - 1].at = @ + 1]
      BY <1>4, <2>1 DEF AddReturn
    <2>3. /\ r \in Seq(Frames) /\ Len(r) = Len(frames) - 1
      BY <1>1, <2>1, StackParts
    <2>4. r # <<>> /\ NestOK(World, f, Top) /\ StackOK(World, r)
      BY <1>1, <1>4, <2>1, StackTop
    <2>5. Continues(World, frames, r)
      <3>1. \A p \in Pools : ~IsLeaving(Last(frames), p)
        BY <1>1, <2>1 DEF IsLeaving
      <3> QED
        BY <1>1, <2>1, <3>1, Ends
    <2>6. f \in Frames /\ FrameOK(World, f) /\ f = r[Len(r)]
      BY <2>3, <2>4, StackTop, StackParts
    <2>7. f.op = "add"
      BY <1>1, <1>4, <2>4 DEF NestOK
    <2>8. frames' = [r EXCEPT ![Len(r)] = g]
      BY <2>2, <2>3, <2>6
    <2>9. Proper(World, r)
      BY <2>5 DEF Continues, Proper
    <2> HIDE DEF r
    <2>10. /\ g \in Frames /\ g.op = f.op /\ g.pool = f.pool /\ g.made = f.made /\ g.to = f.to
           /\ g.copy = f.copy /\ g.id = f.id /\ g.old = f.old /\ g.stage = f.stage /\ g.comp = f.comp
      BY <2>6 DEF Frames
    <2>11. g.op # "free" /\ FrameOK(World, g)
      <3> HIDE DEF g
      <3> QED
        BY <2>6, <2>7, <2>10 DEF FrameOK
    <2>12. Continues(World, r, [r EXCEPT ![Len(r)] = g])
      <3> HIDE DEF g
      <3> QED
        BY <2>4, <2>9, <2>10, <2>11, GoesOn
    <2>13. Continues(World, frames, frames')
      BY <2>5, <2>8, <2>12 DEF Continues
    <2> QED
      BY <1>2, <2>13, OnlyFramesChange
  <1> QED
    BY <1>3, <1>4

\* The next entity of a pool that is being destroyed, or the end of it.
LEMMA DestroyNextKeeps ==
    ASSUME IndInv, DestroyNext
    PROVE  IndInv' /\ TreesStand
  <1> DEFINE p == Top.pool
             left == {s \in Top.at..(cap[p] - 1) : alive[p][s]}
             s == CHOOSE s \in left : \A x \in left : s <= x
             g == [Top EXCEPT !.stage = "destroying", !.at = s + 1, !.id = IdAt(p, s)]
  <1>1. frames # <<>> /\ Top.op = "destroy" /\ Top.stage = "begin"
    BY DEF DestroyNext, At
  <1>2. /\ Top \in Frames /\ FrameOK(World, Top) /\ p \in Pools /\ Top.at \in Nat
    BY <1>1, TopNow, FrameFields
  <1>3. ComponentsTyped' /\ SamePools
    BY ProperNow DEF DestroyNext, SamePools, ComponentsTyped, slotVars, uuidVars, treeVars, componentVars
  <1>4. CASE left = {}
    <2>1. frames' = Popped
      BY <1>4 DEF DestroyNext
    <2> QED
      BY <1>1, <1>3, <2>1, EndKeeps
  <1>5. CASE left # {}
    <2>1. frames' = [frames EXCEPT ![Depth] = g]
      BY <1>5 DEF DestroyNext, Became
    <2>2. cap[p] \in 1..MaxSlots /\ gen[p] \in [Slots -> Nat] /\ cap[p] \in Int /\ MaxSlots \in Nat
      BY <1>2, ProperNow, RowsAssumption DEF PoolsTyped
    <2>3. left \in SUBSET Nat /\ left \subseteq Slots
      BY <1>2, <2>2 DEF Slots
    <2>4. Min(left) \in left /\ \A x \in left : Min(left) <= x
      BY <1>5, <2>3, MinFacts
    <2> HIDE DEF left
    <2>5. s \in left
      BY <2>4
    <2> HIDE DEF s
    <2>6. IdAt(p, s) \in Ids /\ s + 1 \in Nat
      BY <2>2, <2>3, <2>5 DEF IdAt, Ids, Slots
    <2>7. /\ g \in Frames /\ g.op = "destroy" /\ g.pool = Top.pool /\ g.made = Top.made /\ g.to = Top.to
          /\ g.copy = Top.copy /\ g.stage = "destroying"
      BY <1>1, <1>2, <2>6 DEF Frames
    <2> HIDE DEF g
    <2>8. FrameOK(World, g)
      BY <2>7 DEF FrameOK
    <2> QED
      BY <1>1, <1>3, <2>1, <2>7, <2>8, GoesOnKeeps
  <1> QED
    BY <1>4, <1>5

\* The entity is freed, unless the callbacks have done it.
LEMMA DestroyEntityKeeps ==
    ASSUME IndInv, DestroyEntity
    PROVE  IndInv' /\ TreesStand
  <1> DEFINE p == Top.pool
             g == [Top EXCEPT !.stage = "begin", !.id = NoId]
             up == parent[p][Slot(Top.id)]
             h == [Frame("free", p, Top.id) EXCEPT !.old = up, !.made = TRUE]
             fs == [frames EXCEPT ![Depth] = g]
  <1>1. frames # <<>> /\ Top.op = "destroy" /\ Top.stage = "destroying"
    BY DEF DestroyEntity, At
  <1>2. /\ Top \in Frames /\ FrameOK(World, Top) /\ p \in Pools /\ Top.id \in Ids \cup {NoId}
    BY <1>1, TopNow, FrameFields
  <1>3. ComponentsTyped' /\ SamePools
    BY ProperNow DEF DestroyEntity, SamePools, ComponentsTyped, slotVars, uuidVars, treeVars, componentVars
  <1>4. /\ g \in Frames /\ g.op = "destroy" /\ g.pool = Top.pool /\ g.made = Top.made /\ g.to = Top.to
        /\ g.copy = Top.copy /\ g.stage = "begin"
    BY <1>1, <1>2 DEF Frames
  <1>5. frames' = IF Alive(p, Top.id) THEN fs \o <<h>> ELSE fs
    BY DEF DestroyEntity
  <1> HIDE DEF g
  <1>6. FrameOK(World, g)
    BY <1>4 DEF FrameOK
  <1>7. CASE ~Alive(p, Top.id)
    BY <1>1, <1>3, <1>4, <1>5, <1>6, <1>7, GoesOnKeeps
  <1>8. CASE Alive(p, Top.id)
    <2>1. /\ Proper(World, frames) /\ Top = Last(frames) /\ Depth = Len(frames)
          /\ frames \in Seq(Frames) /\ StackOK(World, frames)
      BY ProperNow DEF Proper
    <2>2. Continues(World, frames, fs)
      BY <1>1, <1>4, <1>6, <2>1, GoesOn
    <2>3. Proper(World, fs) /\ fs \in Seq(Frames)
      BY <2>2 DEF Continues, Proper
    <2>4. /\ Len(fs) = Len(frames) /\ Len(frames) \in Nat \ {0} /\ fs # <<>> /\ Last(fs) = g
          /\ \A i \in 1..(Len(fs) - 1) : fs[i] = frames[i] /\ i \in 1..Len(frames)
          /\ fs[Len(fs)] = g
      <3>1. Len(frames) \in Nat \ {0} /\ Len(fs) = Len(frames)
        BY <1>1, <2>1
      <3> QED
        BY <2>1, <2>3, <3>1, StackParts DEF Last
    <2>5. Top.id \in Live(p) /\ Top.id \in Ids /\ Slot(Top.id) \in Slots
      BY <1>2, <1>8, WorldIsSane DEF IndInv, Ids, Slot
    <2>6. up \in Ids \cup {NoId}
      BY <1>2, <2>5, ProperNow DEF PoolsTyped
    <2>7. fs \o <<h>> = Append(fs, h)
      BY <2>3
    <2> HIDE DEF up
    <2>8. /\ h \in Frames /\ h.op = "free" /\ h.stage = "begin" /\ h.pool = p /\ h.id = Top.id
          /\ h.old = up /\ h.made
      BY <1>2, <2>5, <2>6 DEF Frame, Frames
    <2> HIDE DEF h, fs
    <2>9. FrameOK(World, h)
      <3>1. OldOK(World, h)
        BY <1>2, <2>8, WorldNow DEF OldOK, Up, up
      <3> QED
        BY <1>2, <2>5, <2>8, <3>1, FramesNow DEF FrameOK
    <2>10. NestOK(World, Last(fs), h)
      BY <1>4, <2>4, <2>8 DEF NestOK
    <2>11. ASSUME NEW i \in 1..Len(fs) PROVE PairOK(fs[i], h)
      <3>1. CASE i = Len(fs)
        BY <1>4, <2>4, <2>8, <3>1 DEF PairOK
      <3>2. CASE i # Len(fs)
        <4>1. i \in 1..(Len(frames) - 1) /\ fs[i] = frames[i]
          BY <2>4, <3>2
        <4>2. PairOK(frames[i], frames[Len(frames)]) /\ frames[Len(frames)] = Top
          BY <2>1, <2>4, <4>1 DEF StackOK, Last
        <4>3. fs[i].pool # p /\ fs[i].op # "migrate"
          BY <1>1, <4>1, <4>2 DEF PairOK
        <4> QED
          BY <2>8, <4>3 DEF PairOK
      <3> QED
        BY <3>1, <3>2
    <2>12. \A r \in Pools : ~IsLeaving(h, r)
      BY <2>8 DEF IsLeaving
    <2>13. Last(fs).op # "migrate"
      BY <1>4, <2>4
    <2>14. Continues(World, fs, Append(fs, h))
      BY <2>3, <2>4, <2>8, <2>9, <2>10, <2>11, <2>12, <2>13, BeginsMore
    <2>15. Continues(World, frames, frames')
      BY <1>5, <1>8, <2>2, <2>7, <2>14 DEF Continues, fs
    <2> QED
      BY <1>3, <2>15, OnlyFramesChange
  <1> QED
    BY <1>7, <1>8

\* A requirement is made, and added first.
LEMMA MakeRequirementKeeps ==
    ASSUME IndInv, NEW d \in Components, NEW retains \in BOOLEAN, MakeRequirement(d, retains)
    PROVE  IndInv' /\ TreesStand
  <1> DEFINE g == [Frame("add", Top.pool, Top.id) EXCEPT
                      !.comp = d, !.at = 1, !.stage = "resolving", !.made = TRUE]
  <1>1. frames # <<>> /\ Top.op = "add" /\ Top.stage = "resolving"
    BY DEF MakeRequirement, At
  <1>2. Top \in Frames /\ FrameOK(World, Top) /\ Top.pool \in Pools /\ Top.id \in Ids
    BY <1>1, TopNow
  <1>3. ComponentsTyped' /\ SamePools /\ frames' = Append(frames, g)
    BY ProperNow DEF MakeRequirement, SamePools, ComponentsTyped, slotVars, uuidVars, treeVars, Pushed
  <1>4. /\ g \in Frames /\ g.op = "add" /\ g.stage = "resolving" /\ g.pool = Top.pool /\ g.id = Top.id
        /\ g.comp = d /\ g.made
    BY <1>2 DEF Frame, Frames
  <1> HIDE DEF g
  <1>5. FrameOK(World, g)
    BY <1>1, <1>2, <1>4 DEF FrameOK
  <1>6. /\ Proper(World, frames) /\ Top = Last(frames) /\ frames \in Seq(Frames) /\ StackOK(World, frames)
        /\ Last(frames) = frames[Len(frames)]
    BY ProperNow DEF Proper, Last
  <1>7. NestOK(World, Last(frames), g)
    BY <1>1, <1>4, <1>6 DEF NestOK
  <1>8. ASSUME NEW i \in 1..Len(frames), frames[i].op # "migrate" PROVE PairOK(frames[i], g)
    <2>1. CASE i = Len(frames)
      BY <1>1, <1>4, <1>6, <2>1 DEF PairOK
    <2>2. CASE i # Len(frames)
      <3>1. i < Len(frames) /\ Len(frames) \in 1..Len(frames)
        BY <1>6, <2>2
      <3>2. PairOK(frames[i], Top)
        BY <1>6, <3>1 DEF StackOK
      <3> QED
        BY <1>1, <1>4, <1>8, <3>2 DEF PairOK
    <2> QED
      BY <2>1, <2>2
  <1>9. \A r \in Pools : ~IsLeaving(g, r)
    BY <1>4 DEF IsLeaving
  <1>10. Last(frames).op # "migrate"
    BY <1>1, <1>6
  <1>11. Continues(World, frames, Append(frames, g))
    BY <1>1, <1>4, <1>5, <1>6, <1>7, <1>8, <1>9, <1>10, BeginsMore
  <1> QED
    BY <1>3, <1>11, OnlyFramesChange

\* The operations an operation of the host has begun are of its kind, up to
\* the innermost: all of them are given up together.
LEMMA BaseFacts ==
    ASSUME IndInv, frames # <<>>, Top.op \in {"add", "migrate"}
    PROVE  /\ Base - 1 \in 0..Len(frames) /\ Base \in 1..Len(frames)
           /\ \A i \in Base..Len(frames) : frames[i].op = Top.op
           /\ ~frames[Base].made /\ \A i \in (Base + 1)..Len(frames) : frames[i].made
  <1> DEFINE n == Len(frames)
             I == {k \in 0..(n - 1) : ~frames[n - k].made}
             b == n - Min(I)
  <1>1. /\ frames \in Seq(Frames) /\ StackOK(World, frames) /\ Top = frames[n] /\ Depth = n
        /\ n \in Nat \ {0}
    BY TopNow, ProperNow DEF Proper
  <1>2. n - 1 \in I
    BY <1>1 DEF StackOK
  <1>3. I \in SUBSET Nat /\ I # {}
    <2>1. I \subseteq 0..(n - 1)
      OBVIOUS
    <2> HIDE DEF I
    <2> QED
      BY <1>1, <1>2, <2>1
  <1>4. Min(I) \in I /\ \A k \in I : Min(I) <= k
    BY <1>3, MinFacts
  <1> HIDE DEF n
  <1>5. Min(I) \in 0..(n - 1) /\ ~frames[n - Min(I)].made
    BY <1>4
  <1>6. ASSUME NEW i \in (b + 1)..n PROVE frames[i].made
    <2>1. n - i \in 0..(n - 1) /\ n - i < Min(I) /\ i = n - (n - i)
      BY <1>1, <1>5
    <2>2. n - i \notin I
      BY <1>1, <1>4, <1>5, <2>1
    <2> QED
      BY <2>1, <2>2
  <1>7. b \in 1..Depth /\ ~frames[b].made /\ \A i \in (b + 1)..Depth : frames[i].made
    BY <1>1, <1>5, <1>6
  <1> HIDE DEF b
  <1>8. Base \in 1..Depth /\ ~frames[Base].made /\ \A i \in (Base + 1)..Depth : frames[i].made
    BY <1>7 DEF Base
  <1> DEFINE c == Base
             J == {k \in 0..(n - c) : frames[n - k].op # Top.op}
  <1>9. c \in 1..n /\ ~frames[c].made /\ \A i \in (c + 1)..n : frames[i].made
    BY <1>1, <1>8
  <1> HIDE DEF c
  <1>10. J = {}
    <2> SUFFICES ASSUME J # {} PROVE FALSE
      OBVIOUS
    <2>1. J \in SUBSET Nat
      BY <1>1, <1>9
    <2>2. Min(J) \in J /\ \A k \in J : Min(J) <= k
      BY <2>1, MinFacts
    <2> DEFINE m == Min(J)
               i == n - m
    <2>3. m \in 0..(n - c) /\ frames[i].op # Top.op
      BY <2>2
    <2>4. m # 0
      BY <1>1, <2>3
    <2>9. m \in Nat /\ m - 1 \in 0..(n - c)
      <3>1. n \in Int /\ c \in Int
        BY <1>1, <1>9
      <3> HIDE DEF m
      <3> QED
        BY <2>3, <2>4, <3>1
    <2>5. m - 1 \notin J
      <3>1. \A k \in J : m <= k
        BY <2>2
      <3> HIDE DEF m, J
      <3> QED
        BY <2>9, <3>1
    <2> HIDE DEF m
    <2>6. frames[i + 1].op = Top.op
      <3>1. n - (m - 1) = i + 1
        BY <1>1, <1>9, <2>3
      <3> QED
        BY <2>5, <2>9, <3>1
    <2>7. i \in 1..(n - 1) /\ i + 1 \in (c + 1)..n
      BY <1>1, <1>9, <2>3, <2>4
    <2>8. NestOK(World, frames[i], frames[i + 1]) /\ frames[i + 1].made
      <3>1. NestOK(World, frames[i], frames[i + 1])
        BY <1>1, <2>7 DEF StackOK, n
      <3> QED
        BY <1>9, <2>7, <3>1
    <2> QED
      BY <2>3, <2>6, <2>8 DEF NestOK
  <1>11. ASSUME NEW i \in c..n PROVE frames[i].op = Top.op
    <2>1. n - i \in 0..(n - c) /\ n - (n - i) = i
      BY <1>1, <1>9
    <2> QED
      BY <1>10, <2>1
  <1> QED
    BY <1>1, <1>9, <1>11 DEF c, n

\* Everything waiting is given up.
LEMMA GivenUpKeeps ==
    ASSUME IndInv, frames # <<>>, Top.op \in {"add", "migrate"}, SamePools, ComponentsTyped',
           frames' = SubSeq(frames, 1, Base - 1)
    PROVE  IndInv' /\ TreesStand
  <1> DEFINE n == Base - 1
  <1>1. n \in 0..Len(frames) /\ \A i \in (n + 1)..Len(frames) : frames[i].op = Top.op
    BY BaseFacts
  <1>2. \A i \in (n + 1)..Len(frames) : frames[i].op # "free"
    BY <1>1
  <1> HIDE DEF n
  <1>3. Proper(World, frames)
    BY ProperNow
  <1>4. Continues(World, frames, SubSeq(frames, 1, n))
    BY <1>1, <1>2, <1>3, GivenUp
  <1> QED
    BY <1>4, OnlyFramesChange DEF n

\* A required component cannot be made: every add that waits is given up.
LEMMA FailRequirementKeeps ==
    ASSUME IndInv, FailRequirement
    PROVE  IndInv' /\ TreesStand
  <1>1. frames # <<>> /\ Top.op \in {"add", "migrate"} /\ frames' = SubSeq(frames, 1, Base - 1)
    BY DEF FailRequirement, At
  <1>2. SamePools /\ ComponentsTyped'
    BY ProperNow DEF FailRequirement, SamePools, ComponentsTyped, slotVars, uuidVars, treeVars
  <1> QED
    BY <1>1, <1>2, GivenUpKeeps

\* The uuid of a child is taken: every migration that waits is given up.
LEMMA MigrateAbandonKeeps ==
    ASSUME IndInv, MigrateAbandon
    PROVE  IndInv' /\ TreesStand
  <1>1. frames # <<>> /\ Top.op \in {"add", "migrate"} /\ frames' = SubSeq(frames, 1, Base - 1)
    BY DEF MigrateAbandon, At
  <1>2. SamePools /\ ComponentsTyped'
    BY ProperNow DEF MigrateAbandon, SamePools, ComponentsTyped, slotVars, uuidVars, treeVars, componentVars
  <1> QED
    BY <1>1, <1>2, GivenUpKeeps

\* The calls that change neither the pools nor the frames.
LEMMA StandsStillKeeps ==
    ASSUME IndInv, SamePools, ComponentsTyped', frames' = frames
    PROVE  IndInv' /\ TreesStand
  <1>1. Continues(World, frames, frames)
    BY ProperNow, StandsStill
  <1> QED
    BY <1>1, OnlyFramesChange

\* The host makes a component, takes a reference or lets one go.
LEMMA ReferencesKeep ==
    ASSUME IndInv, NEW c \in Components, CreateComponent(c) \/ TakeReference(c) \/ LetGo(c)
    PROVE  IndInv' /\ TreesStand
  <1>1. SamePools /\ ComponentsTyped' /\ frames' = frames
    BY ProperNow DEF CreateComponent, TakeReference, LetGo, SamePools, ComponentsTyped,
                     slotVars, uuidVars, treeVars
  <1> QED
    BY <1>1, StandsStillKeeps

\* A data-only component is added, removed or written.
LEMMA ChangeRowKeeps ==
    ASSUME IndInv, NEW p \in Pools, NEW id, ChangeRow(p, id)
    PROVE  IndInv' /\ TreesStand
  <1>1. SamePools /\ ComponentsTyped' /\ frames' = frames
    BY ProperNow DEF ChangeRow, SamePools, ComponentsTyped, slotVars, uuidVars, treeVars, componentVars
  <1> QED
    BY <1>1, StandsStillKeeps

\* A component moves in the array of its entity.
LEMMA SetComponentIndexKeeps ==
    ASSUME IndInv, NEW p \in Pools, NEW id \in Usable(p), NEW c \in Components,
           NEW k \in 1..Len(comps[p][Slot(id)]), SetComponentIndex(p, id, c, k)
    PROVE  IndInv' /\ TreesStand
  <1> DEFINE list == comps[p][Slot(id)]
  <1>1. SamePools /\ frames' = frames /\ comps' = [comps EXCEPT ![p][Slot(id)] = Moved(list, c, k)]
    BY DEF SetComponentIndex, SamePools, slotVars, uuidVars, treeVars
  <1>2. Slot(id) \in Slots
    BY FramesNow DEF Ids, Slot
  <1>3. list \in Seq(Components) /\ k \in 1..Len(list)
    BY <1>2, ProperNow DEF ComponentsTyped
  <1> HIDE DEF list
  <1>4. Moved(list, c, k) \in Seq(Components)
    <2>1. /\ RemoveFirst(list, c) \in Seq(Components)
          /\ Len(RemoveFirst(list, c)) = IF c \in ToSet(list) THEN Len(list) - 1 ELSE Len(list)
      BY <1>3, RemoveFirstType
    <2>2. k \in 1..(Len(RemoveFirst(list, c)) + 1)
      BY <1>3, <2>1
    <2> QED
      BY <2>1, <2>2, InsertAtFacts DEF Moved
  <1>5. ComponentsTyped'
    BY <1>1, <1>2, <1>4, ProperNow, OneArrayChanges DEF ComponentsTyped
  <1> QED
    BY <1>1, <1>5, StandsStillKeeps

-----------------------------------------------------------------------------
(* The calls of the host that change one pool at once.                     *)

\* The invariant, put together.
LEMMA PutTogether ==
    ASSUME PoolsTyped', ComponentsTyped', frames' \in Seq(Frames), \A p \in Pools : PoolOK(p)',
           StackOK(World', frames'), MovesApart(World', frames')
    PROVE  IndInv'
  BY DEF IndInv, Typed, ComponentsTyped

\* The frames that stand still see the same entities leaving.
LEMMA SameFrames ==
    ASSUME frames' = frames
    PROVE  \A p \in Pools : Leaving(p)' = Leaving(p)
  BY WorldNow

\* What the frames see when no slot and no parent changes.
LEMMA WorldStands ==
    ASSUME gen' = gen, alive' = alive, parent' = parent, strays' = strays, frames' = frames
    PROVE  /\ World' = World
           /\ \A p \in Pools : Live(p)' = Live(p) /\ Leaving(p)' = Leaving(p) /\ Linked(p)' = Linked(p)
  <1>1. \A p \in Pools : Live(p)' = Live(p) /\ Leaving(p)' = Leaving(p)
    BY WorldNow
  <1>2. /\ [p \in Pools |-> Live(p)'] = [p \in Pools |-> Live(p)]
        /\ [p \in Pools |-> Leaving(p)'] = [p \in Pools |-> Leaving(p)]
    BY <1>1
  <1>3. World' = World
    BY <1>2, Zenon DEF World
  <1>4. \A p \in Pools : Linked(p)' = Linked(p)
    BY <1>1, WorldNow
  <1> QED
    BY <1>1, <1>3, <1>4

\* The host makes an entity.
LEMMA AllocKeeps ==
    ASSUME IndInv, NEW p \in Pools, NEW u \in Uuids, Alloc(p, u)
    PROVE  IndInv' /\ Enters(p, NextId(p))
  <1>1. /\ MayCreate(p) /\ byUuid[p][u] = NoId /\ Allocate(p, u) /\ frames' = frames
    BY DEF Alloc
  <1>2. \A r \in Pools : Leaving(r)' = Leaving(r)
    BY <1>1, SameFrames
  <1>3. /\ PoolsTyped' /\ comps' \in [Pools -> [Slots -> Seq(Components)]]
        /\ \A r \in Pools : PoolOK(r)'
        /\ StackOK(World', frames) /\ MovesApart(World', frames)
    BY <1>1, <1>2, AllocateFacts
  <1>4. frames' \in Seq(Frames)
    BY <1>1, ProperNow
  <1>5. ComponentsTyped'
    BY <1>3 DEF ComponentsTyped
  <1>6. Enters(p, NextId(p))
    <2>1. /\ NextId(p) \in Ids /\ NextId(p) \notin Live(p)
          /\ Linked(p)' = Linked(p) \cup {NextId(p)}
          /\ \A r \in Pools : r # p => Linked(r)' = Linked(r)
          /\ gen' = gen
          /\ parent'[p] = [parent[p] EXCEPT ![Slot(NextId(p))] = NoId]
          /\ \A r \in Pools : r # p => parent'[r] = parent[r]
      BY <1>1, <1>2, AllocateFacts
    <2> QED
      BY <1>2, <2>1, NextIdEnters
  <1> QED
    BY <1>1, <1>3, <1>4, <1>5, <1>6, PutTogether

\* An entity gets another uuid.
LEMMA SetUuidKeeps ==
    ASSUME IndInv, NEW p \in Pools, NEW id \in Usable(p), NEW v \in Uuids, SetUuid(p, id, v)
    PROVE  IndInv' /\ TreesStand
  <1> DEFINE L == Linked(p)
             u == uuid[p]
             by == byUuid[p]
             o == uuid[p][Slot(id)]
  <1>1. /\ cap' = cap /\ free' = free /\ gen' = gen /\ alive' = alive
        /\ parent' = parent /\ children' = children /\ roots' = roots /\ strays' = strays
        /\ comps' = comps /\ frames' = frames
        /\ byUuid' = [byUuid EXCEPT ![p][o] = NoId, ![p][v] = id]
        /\ uuid' = [uuid EXCEPT ![p][Slot(id)] = v]
        /\ by[v] = NoId
    BY DEF SetUuid, slotVars, treeVars, componentVars
  <1>2. /\ PoolsTyped /\ ComponentsTyped /\ frames \in Seq(Frames) /\ PoolOK(p)
        /\ StackOK(World, frames) /\ MovesApart(World, frames)
    BY ProperNow DEF Proper
  <1>3. id \in L /\ id \in Ids /\ Slot(id) \in Slots /\ L \subseteq Ids
    BY FramesNow DEF Ids, Slot
  <1>4. /\ u \in [Slots -> Uuids \cup {NoUuid}] /\ by \in [Uuids -> Ids \cup {NoId}]
        /\ UuidsHold(L, u, by)
    BY <1>2 DEF PoolsTyped, PoolOK
  <1>5. o \in Uuids
    BY <1>3, <1>4 DEF UuidsHold
  <1>6. PoolsTyped'
    <2>1. uuid' \in [Pools -> [Slots -> Uuids \cup {NoUuid}]]
      BY <1>1, <1>2, <1>3 DEF PoolsTyped
    <2>2. byUuid' \in [Pools -> [Uuids -> Ids \cup {NoId}]]
      <3>1. byUuid' = [byUuid EXCEPT ![p] = [[by EXCEPT ![o] = NoId] EXCEPT ![v] = id]]
        BY <1>1, <1>2 DEF PoolsTyped
      <3>2. [[by EXCEPT ![o] = NoId] EXCEPT ![v] = id] \in [Uuids -> Ids \cup {NoId}]
        BY <1>3, <1>4
      <3> HIDE DEF by, o
      <3> QED
        BY <1>2, <3>1, <3>2 DEF PoolsTyped
    <2> QED
      BY <1>1, <1>2, <2>1, <2>2 DEF PoolsTyped
  <1>7. /\ World' = World
        /\ \A r \in Pools : Live(r)' = Live(r) /\ Leaving(r)' = Leaving(r) /\ Linked(r)' = Linked(r)
    BY <1>1, WorldStands
  <1>8. UuidsHold(Linked(p)', uuid'[p], byUuid'[p])
    <2>1. uuid'[p] = [u EXCEPT ![Slot(id)] = v] /\ byUuid'[p] = [by EXCEPT ![u[Slot(id)]] = NoId, ![v] = id]
      BY <1>1, <1>2 DEF PoolsTyped
    <2>2. Linked(p)' = L
      BY <1>7
    <2>3. \A y \in L : y \in Ids /\ (Slot(y) = Slot(id) => y = id)
      <3>1. Stamped(L, gen[p])
        BY WorldIsSane DEF IndInv
      <3> HIDE DEF L
      <3>2. gen[p] \in [Slots -> Nat]
        BY <1>2 DEF PoolsTyped
      <3> QED
        BY <1>3, <3>1, <3>2, StampedFacts
    <2> HIDE DEF L, u, by, o
    <2>4. UuidsHold(L, [u EXCEPT ![Slot(id)] = v], [by EXCEPT ![u[Slot(id)]] = NoId, ![v] = id])
      BY <1>1, <1>3, <1>4, <2>3, UuidChanged
    <2> QED
      BY <2>1, <2>2, <2>4
  <1>9. PoolOK(p)'
    <2>1. Lists(p)' = Lists(p)
      BY <1>1 DEF Lists
    <2> QED
      BY <1>1, <1>2, <1>7, <1>8, <2>1 DEF PoolOK
  <1>10. OnlyPool(p)
    BY <1>1, <1>2 DEF OnlyPool, PoolsTyped
  <1>11. \A r \in Pools : PoolOK(r)'
    BY <1>7, <1>9, <1>10, OnePoolChanges DEF IndInv
  <1>12. StackOK(World', frames') /\ MovesApart(World', frames') /\ ComponentsTyped' /\ frames' \in Seq(Frames)
    BY <1>1, <1>2, <1>7 DEF ComponentsTyped
  <1>13. TreesStand
    BY <1>1, <1>7 DEF TreesStand
  <1> QED
    BY <1>6, <1>11, <1>12, <1>13, PutTogether

\* The lists and the parents of one pool, replaced.
LEMMA TreeValues ==
    ASSUME PoolsTyped, NEW p \in Pools, NEW lists \in AllLists, SetLists(p, lists),
           NEW up \in [Slots -> Ids \cup {NoId}], parent' = [parent EXCEPT ![p] = up]
    PROVE  /\ Lists(p)' = lists /\ parent'[p] = up
           /\ \A r \in Pools : r # p => /\ children'[r] = children[r] /\ roots'[r] = roots[r]
                                        /\ parent'[r] = parent[r]
           /\ children' \in [Pools -> [Slots -> Seq(Ids)]] /\ roots' \in [Pools -> Seq(Ids)]
           /\ parent' \in [Pools -> [Slots -> Ids \cup {NoId}]]
  <1>1. /\ children' = [children EXCEPT ![p] = lists.kids] /\ roots' = [roots EXCEPT ![p] = lists.top]
        /\ lists.kids \in [Slots -> Seq(Ids)] /\ lists.top \in Seq(Ids)
        /\ lists = [kids |-> lists.kids, top |-> lists.top]
    BY DEF SetLists, AllLists
  <1>2. children'[p] = lists.kids /\ roots'[p] = lists.top
    BY <1>1 DEF PoolsTyped
  <1>3. Lists(p)' = lists
    BY <1>1, <1>2 DEF Lists
  <1> QED
    BY <1>1, <1>3 DEF PoolsTyped

\* One pool, as the lemmas about a tree want it, with its entities in L.
LEMMA OnePool ==
    ASSUME IndInv, NEW p \in Pools
    PROVE  /\ gen[p] \in [Slots -> Nat] /\ alive[p] \in [Slots -> BOOLEAN]
           /\ parent[p] \in [Slots -> Ids \cup {NoId}]
           /\ uuid[p] \in [Slots -> Uuids \cup {NoUuid}] /\ byUuid[p] \in [Uuids -> Ids \cup {NoId}]
           /\ cap[p] \in 1..MaxSlots /\ free[p] \in Seq(Slots)
           /\ Lists(p) \in AllLists
           /\ Stamped(Linked(p), gen[p]) /\ Stamped(Live(p), gen[p])
           /\ SlotsHold(cap[p], free[p], alive[p])
           /\ UuidsHold(Linked(p), uuid[p], byUuid[p])
           /\ ListsHold(Linked(p), gen[p], parent[p], Lists(p))
           /\ StraysHold(Linked(p), Leaving(p), gen[p], parent[p], strays[p], Lists(p))
           /\ ParentsHold(Linked(p), parent[p])
           /\ NoCycle(Linked(p), parent[p])
           /\ \A x \in Live(p) : Alive(p, x) /\ x # NoId
           /\ \A x \in Linked(p) : parent[p][Slot(x)] = NoId \/ Alive(p, parent[p][Slot(x)])
           /\ \A y \in Leaving(p) : Slot(y) \in Slots /\ \A x \in Linked(p) : Slot(y) # Slot(x)
  <1>1. PoolsTyped /\ PoolOK(p)
    BY ProperNow
  <1>2. Lists(p) \in AllLists
    BY <1>1 DEF PoolsTyped, Lists, AllLists
  <1>3. /\ Stamped(Linked(p), gen[p]) /\ Stamped(Live(p), gen[p])
        /\ Linked(p) \subseteq Live(p)
        /\ \A x \in Live(p) : Alive(p, x)
    BY WorldIsSane DEF IndInv
  <1>4. \A x \in Linked(p) : parent[p][Slot(x)] = NoId \/ Alive(p, parent[p][Slot(x)])
    BY <1>1, <1>3 DEF PoolOK, ParentsHold
  <1>5. \A x \in Live(p) : x # NoId
    BY FramesNow
  <1>6. \A y \in Leaving(p) : Slot(y) \in Slots /\ \A x \in Linked(p) : Slot(y) # Slot(x)
    <2> DEFINE M == Live(p)
               V == Leaving(p)
               g == gen[p]
    <2>1. Leaving(p) \subseteq Live(p) /\ Linked(p) = Live(p) \ Leaving(p)
      BY WorldIsSane DEF IndInv, Linked
    <2>2. V \subseteq M /\ Linked(p) = M \ V /\ Stamped(M, g) /\ g \in [Slots -> Nat]
      BY <1>1, <1>3, <2>1 DEF PoolsTyped
    <2> HIDE DEF M, V, g
    <2>3. \A y, z \in M : Slot(y) \in Slots /\ (Slot(y) = Slot(z) => y = z)
      BY <2>2, StampedFacts
    <2>4. \A y \in V : Slot(y) \in Slots /\ \A x \in M \ V : Slot(y) # Slot(x)
      BY <2>2, <2>3
    <2> QED
      BY <2>2, <2>4 DEF V
  <1> QED
    BY <1>1, <1>2, <1>3, <1>4, <1>5, <1>6 DEF PoolsTyped, PoolOK

\* An entity moves among its siblings.
LEMMA SetSiblingIndexKeeps ==
    ASSUME IndInv, NEW p \in Pools, NEW id \in Usable(p), NEW k \in 1..MaxSlots,
           SetSiblingIndex(p, id, k)
    PROVE  IndInv' /\ TreesStand
  <1> DEFINE L == Linked(p)
             g == gen[p]
             up == parent[p]
             lists == Lists(p)
             V == Leaving(p)
             S == strays[p]
             q == parent[p][Slot(id)]
             t == Slot(q)
             new == IF Alive(p, q) THEN [lists EXCEPT !.kids[t] = Moved(lists.kids[t], id, k)]
                    ELSE [lists EXCEPT !.top = Moved(lists.top, id, k)]
  <1>1. /\ cap' = cap /\ free' = free /\ gen' = gen /\ alive' = alive
        /\ uuid' = uuid /\ byUuid' = byUuid /\ parent' = parent /\ strays' = strays
        /\ comps' = comps /\ frames' = frames
    BY DEF SetSiblingIndex, slotVars, uuidVars, componentVars
  <1>2. /\ PoolsTyped /\ ComponentsTyped /\ frames \in Seq(Frames) /\ PoolOK(p)
        /\ StackOK(World, frames) /\ MovesApart(World, frames)
    BY ProperNow DEF Proper
  <1>3. id \in L /\ id \in Ids /\ Slot(id) \in Slots
    BY FramesNow DEF Ids, Slot
  <1>4. /\ g \in [Slots -> Nat] /\ up \in [Slots -> Ids \cup {NoId}] /\ lists \in AllLists
        /\ Stamped(L, g) /\ ListsHold(L, g, up, lists) /\ StraysHold(L, V, g, up, S, lists) /\ ParentsHold(L, up)
    BY OnePool
  <1>5. Alive(p, q) => q \in L /\ t \in Slots /\ q = <<t, g[t]>>
    <2>1. q \in L \cup {NoId}
      BY <1>3, <1>4 DEF ParentsHold
    <2> HIDE DEF L, g, q
    <2> QED
      BY <1>4, <2>1, StampedFacts DEF Alive
  <1>6. ~Alive(p, q) => q = NoId
    BY <1>3, OnePool
  <1>7. new \in AllLists /\ ListsHold(L, g, up, new) /\ StraysHold(L, V, g, up, S, new)
    <2>1. /\ up[Slot(id)] = NoId =>
             \A j \in 1..Len(lists.top) :
                /\ [lists EXCEPT !.top = Moved(lists.top, id, j)] \in AllLists
                /\ ListsHold(L, g, up, [lists EXCEPT !.top = Moved(lists.top, id, j)])
                /\ StraysHold(L, V, g, up, S, [lists EXCEPT !.top = Moved(lists.top, id, j)])
          /\ \A s \in Slots : up[Slot(id)] = <<s, g[s]>> =>
             \A j \in 1..Len(lists.kids[s]) :
                /\ [lists EXCEPT !.kids[s] = Moved(lists.kids[s], id, j)] \in AllLists
                /\ ListsHold(L, g, up, [lists EXCEPT !.kids[s] = Moved(lists.kids[s], id, j)])
                /\ StraysHold(L, V, g, up, S, [lists EXCEPT !.kids[s] = Moved(lists.kids[s], id, j)])
      <3> HIDE DEF L, V, S, g, up, lists
      <3> QED
        BY <1>3, <1>4, MovedKeepsLists
    <2>2. k \in 1..Len(IF Alive(p, q) THEN lists.kids[t] ELSE lists.top)
      BY DEF SetSiblingIndex, Lists
    <2>3. up[Slot(id)] = q
      OBVIOUS
    <2> HIDE DEF L, V, S, g, up, lists, q, t
    <2>4. CASE Alive(p, q)
      <3>1. t \in Slots /\ up[Slot(id)] = <<t, g[t]>> /\ k \in 1..Len(lists.kids[t])
        BY <1>5, <2>2, <2>3, <2>4
      <3> QED
        BY <2>1, <2>4, <3>1
    <2>5. CASE ~Alive(p, q)
      <3>1. up[Slot(id)] = NoId /\ k \in 1..Len(lists.top)
        BY <1>6, <2>2, <2>3, <2>5
      <3> QED
        BY <2>1, <2>5, <3>1
    <2> QED
      BY <2>4, <2>5
  <1>8. SetLists(p, new)
    <2>1. lists.kids = children[p] /\ lists.top = roots[p]
      BY DEF Lists
    <2>2. children \in [Pools -> [Slots -> Seq(Ids)]] /\ roots \in [Pools -> Seq(Ids)]
      BY <1>2 DEF PoolsTyped
    <2>3. children = [children EXCEPT ![p] = children[p]] /\ roots = [roots EXCEPT ![p] = roots[p]]
      BY <2>2
    <2>4. CASE Alive(p, q)
      <3>1. /\ children' = [children EXCEPT ![p] = [children[p] EXCEPT ![t] = Moved(children[p][t], id, k)]]
            /\ roots' = roots
        BY <2>4 DEF SetSiblingIndex
      <3>2. new.kids = [children[p] EXCEPT ![t] = Moved(children[p][t], id, k)] /\ new.top = roots[p]
        BY <1>4, <2>1, <2>4 DEF AllLists
      <3> HIDE DEF new
      <3> QED
        BY <2>3, <3>1, <3>2, Zenon DEF SetLists
    <2>5. CASE ~Alive(p, q)
      <3>1. roots' = [roots EXCEPT ![p] = Moved(roots[p], id, k)] /\ children' = children
        BY <2>5 DEF SetSiblingIndex
      <3>2. new.kids = children[p] /\ new.top = Moved(roots[p], id, k)
        BY <1>4, <2>1, <2>5 DEF AllLists
      <3> HIDE DEF new
      <3> QED
        BY <2>3, <3>1, <3>2, Zenon DEF SetLists
    <2> QED
      BY <2>4, <2>5
  <1>9. /\ World' = World
        /\ \A r \in Pools : Live(r)' = Live(r) /\ Leaving(r)' = Leaving(r) /\ Linked(r)' = Linked(r)
    BY <1>1, WorldStands
  <1>10. /\ Lists(p)' = new /\ parent'[p] = up
         /\ \A r \in Pools : r # p => /\ children'[r] = children[r] /\ roots'[r] = roots[r]
                                      /\ parent'[r] = parent[r]
         /\ children' \in [Pools -> [Slots -> Seq(Ids)]] /\ roots' \in [Pools -> Seq(Ids)]
         /\ parent' \in [Pools -> [Slots -> Ids \cup {NoId}]]
    <2>1. parent' = [parent EXCEPT ![p] = up]
      BY <1>1, <1>2 DEF PoolsTyped
    <2> HIDE DEF new, up
    <2> QED
      BY <1>2, <1>4, <1>7, <1>8, <2>1, TreeValues
  <1>11. PoolsTyped'
    BY <1>1, <1>2, <1>10 DEF PoolsTyped
  <1>12. PoolOK(p)'
    <2>1. /\ ListsHold(Linked(p)', gen'[p], parent'[p], Lists(p)')
          /\ StraysHold(Linked(p)', Leaving(p)', gen'[p], parent'[p], strays'[p], Lists(p)')
      <3>1. Linked(p)' = L /\ gen'[p] = g /\ Leaving(p)' = V /\ strays'[p] = S
        BY <1>1, <1>9
      <3> HIDE DEF L, V, S, g, up, new
      <3> QED
        BY <1>7, <1>10, <3>1
    <2> QED
      BY <1>1, <1>2, <1>9, <2>1 DEF PoolOK
  <1>13. OnlyPool(p)
    BY <1>1, <1>10 DEF OnlyPool
  <1>14. \A r \in Pools : PoolOK(r)'
    BY <1>9, <1>12, <1>13, OnePoolChanges DEF IndInv
  <1>15. StackOK(World', frames') /\ MovesApart(World', frames') /\ ComponentsTyped' /\ frames' \in Seq(Frames)
    BY <1>1, <1>2, <1>9 DEF ComponentsTyped
  <1>16. TreesStand
    BY <1>1, <1>9 DEF TreesStand
  <1> QED
    BY <1>11, <1>14, <1>15, <1>16, PutTogether

(* x, which stood elsewhere, goes under q or among the roots. *)
GoesUnder(p, x, q) ==
    /\ x \in Linked(p) /\ q \in Linked(p) \cup {NoId} /\ parent[p][Slot(x)] # q
    /\ parent' = [parent EXCEPT ![p][Slot(x)] = q]
    /\ gen' = gen
    /\ \A r \in Pools : Linked(r)' = Linked(r) /\ Leaving(r)' = Leaving(r)

\* An entity goes below another one, or among the roots: what
\* tc_entity_pool_set_parent_checked does to the pool.
LEMMA ReparentFacts ==
    ASSUME IndInv, NEW p \in Pools, NEW x \in Linked(p), NEW q \in Linked(p) \cup {NoId},
           NEW old \in Linked(p) \cup {NoId}, NEW isAlive \in BOOLEAN,
           \/ parent[p][Slot(x)] = NoId /\ ~(old # NoId /\ isAlive)
           \/ parent[p][Slot(x)] = old /\ old \in Linked(p) /\ isAlive,
           q # NoId => \E C : /\ q \in C /\ x \notin C
                              /\ \A y \in C \cap Linked(p) :
                                   parent[p][Slot(y)] \in Linked(p) => parent[p][Slot(y)] \in C,
           UNCHANGED <<slotVars, uuidVars>>,
           strays' \in [Pools -> SUBSET Ids],
           \A r \in Pools : strays[r] \subseteq strays'[r] /\ (r # p => strays'[r] = strays[r]),
           SetLists(p, Under(Without(Lists(p), old, x, isAlive), q, x)),
           parent' = [parent EXCEPT ![p][Slot(x)] = q],
           \A r \in Pools : Leaving(r)' = Leaving(r)
    PROVE  /\ PoolsTyped' /\ \A r \in Pools : PoolOK(r)'
           /\ Sane(World) /\ Reparented(World, World', p, x)
           /\ \A r \in Pools : Linked(r)' = Linked(r) /\ Live(r)' = Live(r)
  <1> DEFINE L == Linked(p)
             g == gen[p]
             up == parent[p]
             up2 == [parent[p] EXCEPT ![Slot(x)] = q]
             lists == Lists(p)
             V == Leaving(p)
             S == strays[p]
             S2 == strays'[p]
             new == Under(Without(lists, old, x, isAlive), q, x)
  <1>1. /\ cap' = cap /\ free' = free /\ gen' = gen /\ alive' = alive
        /\ uuid' = uuid /\ byUuid' = byUuid
    BY DEF slotVars, uuidVars
  <1>2. PoolsTyped /\ PoolOK(p)
    BY ProperNow
  <1>3. /\ g \in [Slots -> Nat] /\ up \in [Slots -> Ids \cup {NoId}] /\ lists \in AllLists
        /\ Stamped(L, g) /\ ListsHold(L, g, up, lists) /\ ParentsHold(L, up) /\ NoCycle(L, up)
        /\ StraysHold(L, V, g, up, S, lists)
        /\ \A y \in V : Slot(y) \in Slots /\ \A z \in L : Slot(y) # Slot(z)
    BY OnePool
  <1>4. x \in L /\ q \in L \cup {NoId} /\ Slot(x) \in Slots /\ L \subseteq Ids
    BY FramesNow DEF Ids, Slot
  <1>5. new \in AllLists /\ ListsHold(L, g, up2, new) /\ StraysHold(L, V, g, up2, S2, new)
    <2> DEFINE mid == Without(lists, old, x, isAlive)
    <2>1. \/ up[Slot(x)] = NoId /\ ~(old # NoId /\ isAlive)
          \/ up[Slot(x)] = old /\ old \in L /\ isAlive
      OBVIOUS
    <2>2. up2 = [up EXCEPT ![Slot(x)] = q]
      OBVIOUS
    <2>3. old \in Ids \cup {NoId} /\ S \subseteq S2
      BY <1>3, <1>4, <2>1
    <2> HIDE DEF L, V, S, S2, g, up, up2, lists
    <2>4. /\ mid \in AllLists /\ ListsHold(L \ {x}, g, up, mid)
          /\ Shrunk(lists, mid) /\ Unlisted(x, mid)
      BY <1>3, <1>4, <2>1, <2>3, WithoutFacts
    <2> HIDE DEF mid
    <2>5. Under(mid, q, x) \in AllLists /\ ListsHold(L, g, [up EXCEPT ![Slot(x)] = q], Under(mid, q, x))
      BY <1>3, <1>4, <2>4, UnderFacts
    <2>6. StraysHold(L, V, g, [up EXCEPT ![Slot(x)] = q], S2, Under(mid, q, x))
      BY <1>3, <1>4, <2>3, <2>4, StraysUnder
    <2> QED
      BY <2>2, <2>5, <2>6 DEF mid
  <1>6. up2 \in [Slots -> Ids \cup {NoId}] /\ parent' = [parent EXCEPT ![p] = up2]
    BY <1>3, <1>4
  <1>7. /\ Lists(p)' = new /\ parent'[p] = up2
        /\ \A r \in Pools : r # p => /\ children'[r] = children[r] /\ roots'[r] = roots[r]
                                     /\ parent'[r] = parent[r]
        /\ children' \in [Pools -> [Slots -> Seq(Ids)]] /\ roots' \in [Pools -> Seq(Ids)]
        /\ parent' \in [Pools -> [Slots -> Ids \cup {NoId}]]
    <2>1. SetLists(p, new)
      OBVIOUS
    <2> HIDE DEF new, up2
    <2> QED
      BY <1>2, <1>5, <1>6, <2>1, TreeValues
  <1>8. PoolsTyped'
    BY <1>1, <1>2, <1>7 DEF PoolsTyped
  <1>9. \A r \in Pools : Live(r)' = Live(r) /\ Linked(r)' = Linked(r)
    BY <1>1, WorldNow
  <1>10. \A y \in L : up2[Slot(y)] = IF y = x THEN q ELSE up[Slot(y)]
    <2>1. \A y \in L : Slot(y) \in Slots /\ (Slot(y) = Slot(x) => y = x)
      <3> HIDE DEF L, g
      <3> QED
        BY <1>3, <1>4, StampedFacts
    <2> QED
      BY <1>3, <2>1
  <1>11. ParentsHold(L, up2)
    <2> HIDE DEF L, up, up2
    <2> QED
      BY <1>3, <1>4, <1>10 DEF ParentsHold
  <1>12. NoCycle(L, up2)
    <2>1. CASE q = NoId
      <3>1. \A y \in L : up2[Slot(y)] # NoId => y \in L /\ up2[Slot(y)] = up[Slot(y)]
        BY <1>10, <2>1
      <3> HIDE DEF L, up, up2
      <3> QED
        BY <1>3, <3>1, FewerParents
    <2>2. CASE q # NoId
      <3>1. PICK C : /\ q \in C /\ x \notin C
                     /\ \A y \in C \cap L : up[Slot(y)] \in L => up[Slot(y)] \in C
        BY <2>2
      <3>2. up2 = [up EXCEPT ![Slot(x)] = q] /\ q \in L
        BY <2>2
      <3> HIDE DEF L, g, up, up2
      <3>3. NoCycle(L, [up EXCEPT ![Slot(x)] = q])
        BY <1>3, <1>4, <3>1, <3>2, NewParentNoCycle
      <3> QED
        BY <3>2, <3>3
    <2> QED
      BY <2>1, <2>2
  <1>13. PoolOK(p)'
    <2>1. Linked(p)' = L /\ gen'[p] = g /\ Leaving(p)' = V /\ strays'[p] = S2
      BY <1>1, <1>9
    <2> HIDE DEF L, V, S2, g, up2, new
    <2>2. /\ StraysHold(Linked(p)', Leaving(p)', gen'[p], parent'[p], strays'[p], Lists(p)')
          /\ ListsHold(Linked(p)', gen'[p], parent'[p], Lists(p)') /\ ParentsHold(Linked(p)', parent'[p])
          /\ NoCycle(Linked(p)', parent'[p])
      BY <1>5, <1>7, <1>11, <1>12, <2>1
    <2>3. SlotsHold(cap'[p], free'[p], alive'[p]) /\ UuidsHold(Linked(p)', uuid'[p], byUuid'[p])
      BY <1>1, <1>2, <1>9 DEF PoolOK
    <2> QED
      BY <2>2, <2>3 DEF PoolOK
  <1>14. OnlyPool(p)
    BY <1>1, <1>7 DEF OnlyPool
  <1>15. \A r \in Pools : PoolOK(r)'
    BY <1>13, <1>14, OnePoolChanges DEF IndInv
  <1>16. Sane(World)
    BY WorldIsSane DEF IndInv
  <1>17. Reparented(World, World', p, x)
    <2> DEFINE w == World
               v == World'
    <2>1. /\ \A r \in Pools : v.live[r] = w.live[r] /\ v.leaving[r] = w.leaving[r]
          /\ v.gen = w.gen /\ v.up = parent' /\ w.up = parent
          /\ \A r \in Pools : w.strays[r] \subseteq v.strays[r]
      BY <1>1, <1>9, WorldNow, ZenonT(60)
    <2>2. ASSUME NEW r \in Pools, NEW s \in Slots, r # p \/ s # Slot(x)
          PROVE  parent'[r][s] = parent[r][s]
      <3>1. CASE r # p
        BY <1>7, <3>1
      <3>2. CASE r = p
        BY <1>3, <1>7, <2>2, <3>2
      <3> QED
        BY <3>1, <3>2
    <2> HIDE DEF w, v
    <2>3. Reparented(w, v, p, x)
      BY <2>1, <2>2 DEF Reparented
    <2> QED
      BY <2>3 DEF w, v
  <1> QED
    BY <1>8, <1>9, <1>15, <1>16, <1>17

\* The host gives an entity another parent.
LEMMA SetParentKeeps ==
    ASSUME IndInv, NEW p \in Pools, NEW id \in Usable(p), NEW q \in Usable(p) \cup {NoId},
           SetParent(p, id, q)
    PROVE  IndInv' /\ GoesUnder(p, id, q)
  <1> DEFINE old == parent[p][Slot(id)]
             isAlive == Alive(p, old)
  <1>1. /\ HostRuns /\ Astray(p, id)
        /\ old # q /\ (q # NoId => id \notin Chain(p, q))
        /\ SetLists(p, Under(Without(Lists(p), old, id, isAlive), q, id))
        /\ parent' = [parent EXCEPT ![p][Slot(id)] = q]
        /\ UNCHANGED <<slotVars, uuidVars>> /\ comps' = comps /\ frames' = frames
    BY DEF SetParent, componentVars
  <1>2. id \in Linked(p) /\ q \in Linked(p) \cup {NoId} /\ id \in Live(p) /\ id \in Ids
        /\ Linked(p) \subseteq Live(p)
    BY FramesNow
  <1>3. isAlive \in BOOLEAN
    <2>1. alive[p] \in [Slots -> BOOLEAN] /\ old \in Linked(p) \cup {NoId}
      BY <1>2, OnePool DEF ParentsHold
    <2>2. \A y \in Ids : Slot(y) \in Slots
      BY DEF Ids, Slot
    <2> QED
      BY <1>2, <2>1, <2>2, FramesNow DEF Alive
  <1>4. old \in Linked(p) \cup {NoId}
    BY <1>2, OnePool DEF ParentsHold
  <1>14. \/ parent[p][Slot(id)] = NoId /\ ~(old # NoId /\ isAlive)
         \/ parent[p][Slot(id)] = old /\ old \in Linked(p) /\ isAlive
    <2>1. old \in Linked(p) \cup {NoId} /\ (old = NoId \/ Alive(p, old))
      BY <1>2, OnePool DEF ParentsHold
    <2> QED
      BY <2>1
  <1>5. ASSUME q # NoId
        PROVE  \E C : /\ q \in C /\ id \notin C
                      /\ \A y \in C \cap Linked(p) :
                           parent[p][Slot(y)] \in Linked(p) => parent[p][Slot(y)] \in C
    <2>1. PICK C \in SUBSET Live(p) :
             /\ q \in C /\ id \notin C
             /\ \A y \in C : Alive(p, parent[p][Slot(y)]) => parent[p][Slot(y)] \in C
      BY <1>1, <1>2, <1>5 DEF Chain
    <2>2. \A y \in Linked(p) : Alive(p, y)
      BY <1>2, OnePool
    <2> QED
      BY <2>1, <2>2
  <1>6. \A r \in Pools : Leaving(r)' = Leaving(r)
    BY <1>1, SameFrames
  <1>13. /\ strays' \in [Pools -> SUBSET Ids]
         /\ \A r \in Pools : strays[r] \subseteq strays'[r] /\ (r # p => strays'[r] = strays[r])
         /\ id \in Dying(p) => id \in strays'[p]
    <2>1. strays \in [Pools -> SUBSET Ids]
      BY ProperNow DEF PoolsTyped
    <2> QED
      BY <1>1, <1>2, <2>1 DEF Astray
  <1> HIDE DEF old, isAlive
  <1>7. /\ PoolsTyped' /\ \A r \in Pools : PoolOK(r)'
        /\ Sane(World) /\ Reparented(World, World', p, id)
        /\ \A r \in Pools : Linked(r)' = Linked(r)
    BY <1>1, <1>2, <1>3, <1>4, <1>5, <1>6, <1>13, <1>14, ReparentFacts
  <1>8. /\ frames \in Seq(Frames) /\ StackOK(World, frames) /\ MovesApart(World, frames)
        /\ ComponentsTyped /\ (frames # <<>> => Last(frames).stage \in Callbacks)
    BY <1>1, ProperNow DEF Proper
  <1>9. /\ \A i \in 1..Len(frames) : frames[i].op # "migrate"
        /\ \A i \in 1..Len(frames) :
             frames[i].op = "free" /\ frames[i].pool = p /\ frames[i].id = id => id \in strays'[p]
    <2>1. \A i \in 1..Len(frames) :
             frames[i].op = "free" /\ frames[i].pool = p /\ frames[i].id = id => id \in Dying(p)
      BY <1>8 DEF Dying, Running, ToSet
    <2> QED
      BY <1>1, <1>8, <1>13, <2>1, NoMigrationUnderHost
  <1>10. StackOK(World', frames) /\ MovesApart(World', frames)
    <2> DEFINE w == World
               v == World'
    <2>1. /\ Sane(w) /\ StackOK(w, frames) /\ MovesApart(w, frames) /\ Reparented(w, v, p, id)
          /\ id \in w.live[p] /\ v.strays = strays'
      BY <1>2, <1>7, <1>8, FramesNow, WorldNow
    <2> HIDE DEF w, v
    <2>2. StackOK(v, frames) /\ MovesApart(v, frames)
      BY <1>8, <1>9, <2>1, ReparentingUnseen
    <2> QED
      BY <2>2 DEF v
  <1>11. frames' \in Seq(Frames) /\ StackOK(World', frames') /\ MovesApart(World', frames') /\ ComponentsTyped'
    BY <1>1, <1>8, <1>10 DEF ComponentsTyped
  <1>12. GoesUnder(p, id, q)
    BY <1>1, <1>2, <1>6, <1>7 DEF GoesUnder, slotVars, old
  <1> QED
    BY <1>7, <1>11, <1>12, PutTogether

-----------------------------------------------------------------------------
(* The innermost operation changes the pools.                              *)

\* The frames beneath the innermost one, and what that one may rely on.
LEMMA Beneath ==
    ASSUME IndInv, frames # <<>>
    PROVE  /\ Popped = Front(frames) /\ Popped \in Seq(Frames) /\ Len(Popped) = Depth - 1
           /\ StackOK(World, Popped) /\ MovesApart(World, Popped)
           /\ Popped = <<>> => ~Top.made
           /\ Popped # <<>> => NestOK(World, Last(Popped), Top) /\ Last(Popped) = Popped[Len(Popped)]
           /\ \A i \in 1..Len(Popped) : /\ Popped[i] = frames[i] /\ Popped[i] \in Frames
                                        /\ PairOK(Popped[i], Top) /\ FrameOK(World, Popped[i])
           /\ \A i \in 1..Len(frames) : i = Depth \/ i \in 1..Len(Popped)
           /\ frames = Append(Popped, Top)
           /\ \A g \in Frames : [frames EXCEPT ![Depth] = g] = Append(Popped, g)
           /\ \A p \in Pools : Leaving(p) = LeavingIn(Popped, p) \cup {h \in {Top.id} : IsLeaving(Top, p)}
  <1> DEFINE r == Front(frames)
             t == Last(frames)
  <1>1. /\ frames \in Seq(Frames) /\ StackOK(World, frames) /\ MovesApart(World, frames)
        /\ Top = t /\ Depth = Len(frames) /\ Popped = r
    BY ProperNow DEF Proper
  <1>2. /\ r \in Seq(Frames) /\ Len(r) = Len(frames) - 1 /\ Len(frames) \in Nat \ {0}
        /\ \A i \in 1..(Len(frames) - 1) : r[i] = frames[i] /\ i \in 1..Len(frames)
        /\ t \in Frames /\ frames = Append(r, t)
        /\ \A g \in Frames : [frames EXCEPT ![Len(frames)] = g] = Append(r, g)
    BY <1>1, StackParts
  <1>3. /\ StackOK(World, r) /\ (r = <<>> => ~t.made)
        /\ (r # <<>> => NestOK(World, Last(r), t))
        /\ \A i \in 1..Len(r) : PairOK(r[i], t)
    BY <1>1, StackTop
  <1> HIDE DEF r, t
  <1>4. \A i \in 1..Len(r) : r[i] = frames[i] /\ i \in 1..Len(frames) /\ r[i] \in Frames
    BY <1>2
  <1>5. MovesApart(World, r)
    BY <1>1, <1>4, StillApart
  <1>6. \A i \in 1..Len(r) : FrameOK(World, r[i])
    BY <1>3 DEF StackOK
  <1>7. \A i \in 1..Len(frames) : i = Len(frames) \/ i \in 1..Len(r)
    BY <1>2
  <1>8. ASSUME NEW p \in Pools PROVE Leaving(p) = LeavingIn(r, p) \cup {h \in {t.id} : IsLeaving(t, p)}
    <2>1. Leaving(p) = LeavingIn(frames, p)
      BY WorldNow
    <2>2. LeavingIn(Append(r, t), p) = LeavingIn(r, p) \cup {h \in {t.id} : IsLeaving(t, p)}
      BY <1>2, LeavingFacts
    <2> QED
      BY <1>2, <2>1, <2>2
  <1>9. r # <<>> => Last(r) = r[Len(r)]
    BY DEF Last
  <1> QED
    BY <1>1, <1>2, <1>3, <1>4, <1>5, <1>6, <1>7, <1>8, <1>9 DEF r

\* The moves are where the pools have not changed.
LEMMA MovesElsewhere ==
    ASSUME NEW w, NEW v, NEW fs, NEW hs, MovesApart(w, fs),
           \A i \in 1..Len(hs) : hs[i] \in Frames,
           \A i \in 1..Len(hs) : hs[i].op = "migrate" =>
              /\ v.live[hs[i].pool] = w.live[hs[i].pool]
              /\ v.up[hs[i].pool] = w.up[hs[i].pool],
           \A i \in 1..Len(hs) :
              hs[i].op # "destroy" =>
                 \E j \in 1..Len(fs) : /\ fs[j].op = hs[i].op /\ fs[j].pool = hs[i].pool
                                       /\ fs[j].id = hs[i].id
    PROVE  MovesApart(v, hs)
  <1> SUFFICES ASSUME NEW i \in 1..Len(hs), hs[i].op = "migrate" PROVE Apart(v, hs, hs[i])
    BY DEF MovesApart
  <1>2. PICK j \in 1..Len(fs) : fs[j].op = "migrate" /\ fs[j].pool = hs[i].pool /\ fs[j].id = hs[i].id
    OBVIOUS
  <1>3. Apart(w, fs, fs[j])
    BY <1>2 DEF MovesApart
  <1>4. PICK C \in SUBSET w.live[hs[i].pool] :
           /\ hs[i].id \in C
           /\ \A x \in w.live[hs[i].pool] : Up(w, hs[i].pool, x) \in C => x \in C
           /\ \A k \in 1..Len(fs) :
                fs[k].pool = hs[i].pool /\ fs[k].op \notin {"migrate", "destroy"} => fs[k].id \notin C
    BY <1>2, <1>3 DEF Apart
  <1>5. \A k \in 1..Len(hs) :
           hs[k].pool = hs[i].pool /\ hs[k].op \notin {"migrate", "destroy"} => hs[k].id \notin C
    BY <1>4
  <1>6. /\ v.live[hs[i].pool] = w.live[hs[i].pool]
        /\ \A x : Up(v, hs[i].pool, x) = Up(w, hs[i].pool, x)
    BY DEF Up
  <1> QED
    BY <1>4, <1>5, <1>6 DEF Apart

\* The slot of an entity nobody has for a parent is reused under another id.
LEMMA BuryKeepsLists ==
    ASSUME NEW L, NEW g \in [Slots -> Nat], Stamped(L, g),
           NEW up \in [Slots -> Ids \cup {NoId}], NEW lists \in AllLists,
           ListsHold(L, g, up, lists), ParentsHold(L, up),
           NEW V, NEW S, StraysHold(L, V, g, up, S, lists),
           NEW s \in Slots, <<s, g[s]>> \notin L,
           NEW h \in [Slots -> Nat], h[s] = g[s] + 1, \A t \in Slots : t # s => h[t] = g[t]
    PROVE  /\ ListsHold(L, h, up, lists)
           /\ StraysHold(L, V \ {<<s, g[s]>>}, h, up, S, lists)
  <1>1. \A x \in L : up[Slot(x)] # <<s, g[s]>> /\ up[Slot(x)] # <<s, h[s]>>
    <2>1. <<s, h[s]>> \notin L
      <3> SUFFICES ASSUME <<s, h[s]>> \in L PROVE FALSE
        OBVIOUS
      <3>1. Generation(<<s, h[s]>>) = g[Slot(<<s, h[s]>>)]
        BY StampedFacts
      <3>2. Generation(<<s, h[s]>>) = h[s] /\ Slot(<<s, h[s]>>) = s
        BY DEF Generation, Slot
      <3> QED
        BY <3>1, <3>2
    <2>2. <<s, h[s]>> # NoId /\ <<s, g[s]>> # NoId
      <3>1. <<s, h[s]>> \in Ids /\ <<s, g[s]>> \in Ids
        BY DEF Ids
      <3> QED
        BY <3>1, PoolAssumption
    <2> QED
      BY <2>1, <2>2 DEF ParentsHold
  <1>2. ASSUME NEW t \in Slots
        PROVE  {x \in L : up[Slot(x)] = <<t, h[t]>>} = {x \in L : up[Slot(x)] = <<t, g[t]>>}
    <2>1. CASE t = s
      BY <1>1, <2>1
    <2>2. CASE t # s
      BY <2>2
    <2> QED
      BY <2>1, <2>2
  <1>3. ListsHold(L, h, up, lists)
    BY <1>2 DEF ListsHold
  <1>4. lists.kids \in [Slots -> Seq(Ids)] /\ lists.top \in Seq(Ids) /\ lists.kids[s] = <<>>
    BY DEF AllLists, StraysHold
  <1>5. ASSUME NEW y \in Ids, NEW o, StrayAt(V, g, up, S, y, o)
        PROVE  StrayAt(V \ {<<s, g[s]>>}, h, up, S, y, o)
    <2>1. Slot(y) \in Slots /\ Generation(y) \in Nat /\ y = <<Slot(y), Generation(y)>>
      BY DEF Ids, Slot, Generation
    <2>2. Generation(y) < g[Slot(y)] => Generation(y) < h[Slot(y)]
      BY <2>1
    <2>3. y = <<s, g[s]>> => Generation(y) < h[Slot(y)]
      BY <2>1 DEF Slot, Generation
    <2> QED
      BY <1>5, <2>2, <2>3 DEF StrayAt
  <1>6. ASSUME NEW t \in Slots
        PROVE  /\ <<t, h[t]>> \notin L => lists.kids[t] = <<>>
               /\ \A y \in ToSet(lists.kids[t]) \ L : StrayAt(V \ {<<s, g[s]>>}, h, up, S, y, <<t, h[t]>>)
    <2>1. CASE t = s
      BY <1>4, <2>1, ToSetFacts
    <2>2. CASE t # s
      BY <1>4, <1>5, <2>2, ToSetFacts DEF StraysHold
    <2> QED
      BY <2>1, <2>2
  <1>7. \A y \in ToSet(lists.top) \ L : StrayAt(V \ {<<s, g[s]>>}, h, up, S, y, NoId)
    BY <1>4, <1>5, ToSetFacts DEF StraysHold
  <1>8. StraysHold(L, V \ {<<s, g[s]>>}, h, up, S, lists)
    BY <1>6, <1>7 DEF StraysHold
  <1> QED
    BY <1>3, <1>8

\* A slot is given back: what Bury does to one pool.
LEMMA BuryFacts ==
    ASSUME IndInv, NEW p \in Pools, NEW x \in Live(p), Bury(p, Slot(x))
    PROVE  /\ cap' = cap
           /\ \A r \in Pools : r # p => free'[r] = free[r] /\ gen'[r] = gen[r] /\ alive'[r] = alive[r]
           /\ free' \in [Pools -> Seq(Slots)] /\ gen' \in [Pools -> [Slots -> Nat]]
           /\ alive' \in [Pools -> [Slots -> BOOLEAN]]
           /\ SlotsHold(cap'[p], free'[p], alive'[p])
           /\ Live(p)' = Live(p) \ {x} /\ \A r \in Pools : r # p => Live(r)' = Live(r)
           /\ gen'[p] = [gen[p] EXCEPT ![Slot(x)] = @ + 1]
           /\ gen'[p][Slot(x)] = gen[p][Slot(x)] + 1
           /\ \A t \in Slots : t # Slot(x) => gen'[p][t] = gen[p][t]
  <1> DEFINE s == Slot(x)
             a == alive[p]
             g == gen[p]
             b == alive'[p]
             h == gen'[p]
             c == cap[p]
             f == free[p]
  <1>1. /\ alive' = [alive EXCEPT ![p][s] = FALSE] /\ gen' = [gen EXCEPT ![p][s] = @ + 1]
        /\ free' = [free EXCEPT ![p] = Append(@, s)] /\ cap' = cap
    BY DEF Bury
  <1>2. /\ a \in [Slots -> BOOLEAN] /\ g \in [Slots -> Nat] /\ c \in 1..MaxSlots /\ f \in Seq(Slots)
        /\ SlotsHold(c, f, a) /\ PoolsTyped
    BY OnePool, ProperNow
  <1>3. x \in LiveOf(a, g) /\ x \in Ids /\ s \in Slots /\ a[s]
    BY FramesNow, WorldNow, WorldIsSane DEF IndInv, Ids, Slot
  <1>4. /\ b = [a EXCEPT ![s] = FALSE] /\ h = [g EXCEPT ![s] = @ + 1] /\ free'[p] = Append(f, s)
    BY <1>1, <1>2 DEF PoolsTyped
  <1> HIDE DEF a, g, b, h, c, f, s
  <1>5. /\ b \in [Slots -> BOOLEAN] /\ h \in [Slots -> Nat] /\ ~b[s] /\ h[s] = g[s] + 1
        /\ \A t \in Slots : t # s => b[t] = a[t] /\ h[t] = g[t]
    BY <1>2, <1>3, <1>4
  <1>6. Append(f, s) \in Seq(Slots) /\ SlotsHold(c, Append(f, s), [a EXCEPT ![s] = FALSE])
    BY <1>2, <1>3, SlotGivenBack
  <1>7. LiveOf(b, h) = LiveOf(a, g) \ {x}
    <2>1. ~b[Slot(x)] /\ \A t \in Slots : t # Slot(x) => b[t] = a[t] /\ h[t] = g[t]
      BY <1>5 DEF s
    <2>2. a \in [Slots -> BOOLEAN] /\ g \in [Slots -> Nat] /\ x \in LiveOf(a, g)
      BY <1>2, <1>3
    <2>3. b \in [Slots -> BOOLEAN] /\ h \in [Slots -> Nat]
      BY <1>5
    <2> QED
      BY ONLY <2>1, <2>2, <2>3, LiveShrinks
  <1>8. Live(p)' = Live(p) \ {x}
    BY <1>7, WorldNow DEF a, b, g, h
  <1>9. /\ \A r \in Pools : r # p => free'[r] = free[r] /\ gen'[r] = gen[r] /\ alive'[r] = alive[r]
    BY <1>1, <1>2 DEF PoolsTyped
  <1>10. \A r \in Pools : r # p => Live(r)' = Live(r)
    BY <1>9, WorldNow
  <1>11. /\ free' \in [Pools -> Seq(Slots)] /\ gen' \in [Pools -> [Slots -> Nat]]
         /\ alive' \in [Pools -> [Slots -> BOOLEAN]]
    <2>1. free' = [free EXCEPT ![p] = Append(f, s)]
      BY <1>1 DEF f
    <2> QED
      BY <1>1, <1>2, <1>3, <1>6, <2>1 DEF PoolsTyped
  <1> QED
    BY <1>1, <1>4, <1>5, <1>6, <1>8, <1>9, <1>10, <1>11 DEF a, b, c, g, h, s

\* An entity that goes is not found by its uuid any more.
LEMMA UuidDropped ==
    ASSUME IndInv, NEW p \in Pools, NEW x \in Linked(p),
           uuid' = [uuid EXCEPT ![p][Slot(x)] = NoUuid],
           byUuid' = [byUuid EXCEPT ![p][uuid[p][Slot(x)]] = NoId]
    PROVE  /\ uuid' \in [Pools -> [Slots -> Uuids \cup {NoUuid}]]
           /\ byUuid' \in [Pools -> [Uuids -> Ids \cup {NoId}]]
           /\ UuidsHold(Linked(p) \ {x}, uuid'[p], byUuid'[p])
           /\ \A r \in Pools : r # p => uuid'[r] = uuid[r] /\ byUuid'[r] = byUuid[r]
  <1> DEFINE L == Linked(p)
             u == uuid[p]
             by == byUuid[p]
             s == Slot(x)
             o == uuid[p][Slot(x)]
  <1>1. /\ u \in [Slots -> Uuids \cup {NoUuid}] /\ by \in [Uuids -> Ids \cup {NoId}]
        /\ UuidsHold(L, u, by) /\ gen[p] \in [Slots -> Nat] /\ Stamped(L, gen[p])
    BY OnePool
  <1>2. x \in L /\ s \in Slots /\ PoolsTyped
    BY FramesNow, ProperNow DEF Ids, Slot
  <1>3. uuid' = [uuid EXCEPT ![p][s] = NoUuid] /\ byUuid' = [byUuid EXCEPT ![p][o] = NoId]
    OBVIOUS
  <1>4. \A y \in L : y \in Ids /\ (Slot(y) = Slot(x) => y = x)
    <2> HIDE DEF L
    <2> QED
      BY ONLY <1>1, <1>2, StampedFacts
  <1>5. /\ u[Slot(x)] \in Uuids
        /\ UuidsHold(L \ {x}, [u EXCEPT ![Slot(x)] = NoUuid], [by EXCEPT ![u[Slot(x)]] = NoId])
    <2> HIDE DEF L, u, by
    <2> QED
      BY ONLY <1>1, <1>2, <1>4, UuidGone
  <1>6. /\ uuid'[p] = [u EXCEPT ![Slot(x)] = NoUuid] /\ byUuid'[p] = [by EXCEPT ![u[Slot(x)]] = NoId]
        /\ \A r \in Pools : r # p => uuid'[r] = uuid[r] /\ byUuid'[r] = byUuid[r]
    BY <1>2, <1>3 DEF PoolsTyped
  <1>7. uuid' \in [Pools -> [Slots -> Uuids \cup {NoUuid}]]
    BY <1>2, <1>3 DEF PoolsTyped
  <1>8. byUuid' \in [Pools -> [Uuids -> Ids \cup {NoId}]]
    <2>1. byUuid' = [byUuid EXCEPT ![p] = [by EXCEPT ![o] = NoId]] /\ o \in Uuids
      BY <1>3, <1>5
    <2>2. [by EXCEPT ![o] = NoId] \in [Uuids -> Ids \cup {NoId}]
      BY <1>1, <2>1
    <2> HIDE DEF by, o
    <2> QED
      BY <1>2, <2>1, <2>2 DEF PoolsTyped
  <1> QED
    BY <1>5, <1>6, <1>7, <1>8

(* What free takes for the parent of x, old with isAlive, is that, unless  *)
(* x was moved meanwhile.                                                  *)
StandsUnder(p, x, old, isAlive) ==
    \/ parent[p][Slot(x)] = NoId /\ ~(old # NoId /\ isAlive)
    \/ parent[p][Slot(x)] = old /\ old \in Linked(p) /\ isAlive
    \/ x \in strays[p]

(* x is out of the lists and the uuids, its children kids are roots, and   *)
(* its end is announced.                                                   *)
LeavesTree(p, x, out, kids) ==
    /\ SetLists(p, [kids |-> [out.kids EXCEPT ![Slot(x)] = <<>>], top |-> out.top \o kids])
    /\ parent' = [parent EXCEPT ![p] = [s \in Slots |->
                     IF \E i \in 1..Len(kids) : Slot(kids[i]) = s THEN NoId ELSE parent[p][s]]]
    /\ uuid' = [uuid EXCEPT ![p][Slot(x)] = NoUuid]
    /\ byUuid' = [byUuid EXCEPT ![p][uuid[p][Slot(x)]] = NoId]
    /\ UNCHANGED slotVars /\ strays' = strays
    /\ Leaving(p)' = Leaving(p) \cup {x}
    /\ \A r \in Pools : r # p => Leaving(r)' = Leaving(r)

(* x leaves the tree of p, and its children are roots. *)
Unlinks(p, x) ==
    /\ x \in Linked(p) /\ Linked(p)' = Linked(p) \ {x} /\ Leaving(p)' = Leaving(p) \cup {x}
    /\ \A y \in Linked(p) \ {x} :
         parent'[p][Slot(y)] = IF parent[p][Slot(y)] = x THEN NoId ELSE parent[p][Slot(y)]
    /\ \A r \in Pools : r # p =>
         Linked(r)' = Linked(r) /\ Leaving(r)' = Leaving(r) /\ parent'[r] = parent[r]
    /\ gen' = gen

\* An entity leaves the tree, its children become roots: what
\* tc_entity_pool_free does to the pool before the event.
LEMMA UnlinkFacts ==
    ASSUME IndInv, NEW p \in Pools, NEW x \in Linked(p), NEW old \in Ids \cup {NoId}, NEW isAlive \in BOOLEAN,
           StandsUnder(p, x, old, isAlive),
           NEW out, out = Without(Lists(p), old, x, isAlive),
           NEW kids, kids = Survivors(p, out.kids[Slot(x)]),
           LeavesTree(p, x, out, kids)
    PROVE  /\ PoolsTyped' /\ \A r \in Pools : PoolOK(r)'
           /\ Unlinked(World, World', p, x)
           /\ \A r \in Pools : Live(r)' = Live(r)
           /\ Linked(p)' = Linked(p) \ {x}
           /\ \A y \in Linked(p) \ {x} :
                parent'[p][Slot(y)] = IF parent[p][Slot(y)] = x THEN NoId ELSE parent[p][Slot(y)]
           /\ \A r \in Pools : r # p => Linked(r)' = Linked(r) /\ parent'[r] = parent[r]
  <1> DEFINE L == Linked(p)
             g == gen[p]
             up == parent[p]
             lists == Lists(p)
             V == Leaving(p)
             S == strays[p]
             s == Slot(x)
             up2 == [t \in Slots |-> IF \E i \in 1..Len(kids) : Slot(kids[i]) = t THEN NoId ELSE up[t]]
             new == [kids |-> [out.kids EXCEPT ![s] = <<>>], top |-> out.top \o kids]
  <1>1. /\ cap' = cap /\ free' = free /\ gen' = gen /\ alive' = alive
        /\ Leaving(p)' = Leaving(p) \cup {x} /\ \A r \in Pools : r # p => Leaving(r)' = Leaving(r)
        /\ strays' = strays
    BY DEF LeavesTree, slotVars
  <1>2. PoolsTyped /\ PoolOK(p)
    BY ProperNow
  <1>3. /\ g \in [Slots -> Nat] /\ up \in [Slots -> Ids \cup {NoId}] /\ lists \in AllLists
        /\ Stamped(L, g) /\ ListsHold(L, g, up, lists) /\ ParentsHold(L, up) /\ NoCycle(L, up)
        /\ StraysHold(L, V, g, up, S, lists)
    BY OnePool
  <1>4. x \in L /\ s \in Slots /\ L \subseteq Ids /\ x \in Ids
    BY FramesNow DEF Ids, Slot
  <1>5. \/ up[Slot(x)] = NoId /\ ~(old # NoId /\ isAlive)
        \/ up[Slot(x)] = old /\ old \in L /\ isAlive
        \/ x \in S
    BY DEF StandsUnder
  <1>6. /\ out \in AllLists /\ ListsHold(L \ {x}, g, up, out) /\ Shrunk(lists, out)
        /\ Unlisted(x, out) \/ x \in S
    <2>1. isAlive \in BOOLEAN /\ out = Without(lists, old, x, isAlive)
      OBVIOUS
    <2> HIDE DEF L, g, up, lists
    <2>2. /\ Without(lists, old, x, isAlive) \in AllLists
          /\ ListsHold(L \ {x}, g, up, Without(lists, old, x, isAlive))
          /\ Shrunk(lists, Without(lists, old, x, isAlive))
          /\ \/ up[Slot(x)] = NoId /\ ~(old # NoId /\ isAlive)
             \/ up[Slot(x)] = old /\ old \in L /\ isAlive
             => Unlisted(x, Without(lists, old, x, isAlive))
      BY ONLY <1>3, <1>4, <2>1, old \in Ids \cup {NoId}, WithoutFacts
    <2> QED
      BY <1>5, <2>1, <2>2
  <1>7. /\ L \cup V = Live(p) /\ L \cap V = {} /\ Stamped(L \cup V, g)
        /\ \A y \in Ids : y \in Live(p) <=> Alive(p, y)
    <2>1. /\ Linked(p) = Live(p) \ Leaving(p) /\ Leaving(p) \subseteq Live(p)
          /\ Stamped(Live(p), gen[p]) /\ \A y \in Live(p) : Alive(p, y)
      BY WorldIsSane DEF IndInv, Linked
    <2>2. \A y \in Ids : Alive(p, y) => y \in Live(p)
      BY DEF Alive, Live, IdAt, Ids, Slot, Generation
    <2>3. L \cup V = Live(p)
      BY <2>1
    <2> QED
      BY <2>1, <2>2, <2>3
  <1>8. up[Slot(x)] # x
    <2>1. ASSUME up[Slot(x)] = x PROVE FALSE
      <3>1. x # NoId
        BY <1>4, PoolAssumption
      <3>2. {x} \in SUBSET {y \in L : up[Slot(y)] # NoId}
        BY <1>4, <2>1, <3>1
      <3> HIDE DEF L, up
      <3>3. \E y \in {x} : up[Slot(y)] \notin {x}
        BY <1>3, <3>2 DEF NoCycle
      <3> QED
        BY <2>1, <3>3
    <2> QED
      BY <2>1
  <1>9. /\ out.kids \in [Slots -> Seq(Ids)] /\ out.top \in Seq(Ids)
        /\ out.kids[s] \in Seq(Ids) /\ IsInjective(out.kids[s])
    <2> HIDE DEF L, g, up, s
    <2> QED
      BY <1>4, <1>6 DEF AllLists, ListsHold
  <1>10. /\ kids \in Seq(Ids) /\ IsInjective(kids)
         /\ ToSet(kids) = {y \in ToSet(out.kids[s]) : y \in L \cup V}
    <2> DEFINE list == out.kids[s]
    <2>1. list \in Seq(Ids) /\ IsInjective(list) /\ kids = Survivors(p, list)
      BY <1>9
    <2> HIDE DEF list
    <2>2. /\ kids \in Seq(Ids) /\ IsInjective(kids)
          /\ ToSet(kids) = {y \in ToSet(list) : Alive(p, y)}
      BY <2>1, SurvivorsFacts
    <2>3. ToSet(list) \subseteq Ids
      BY <2>1, ToSetFacts
    <2>4. {y \in ToSet(list) : Alive(p, y)} = {y \in ToSet(list) : y \in L \cup V}
      BY <1>7, <2>3
    <2> QED
      BY <2>2, <2>4 DEF list
  <1>11. /\ up2 \in [Slots -> Ids \cup {NoId}]
         /\ Cleared(L, up, x, up2) /\ Freed(L, V, up, S, x, kids, up2)
    <2>1. Orphaned(up, kids, up2)
      BY DEF Orphaned
    <2>2. ToSet(kids) = {y \in ToSet(out.kids[Slot(x)]) : y \in L \cup V}
      BY <1>10
    <2> HIDE DEF L, V, S, g, up, up2, lists
    <2> QED
      BY ONLY <1>3, <1>4, <1>6, <1>7, <1>8, <1>10, <2>1, <2>2, OrphansHaveNoParent
  <1>12. /\ new \in AllLists /\ new.top = out.top \o kids /\ new.kids[s] = <<>>
         /\ \A t \in Slots : t # s => new.kids[t] = out.kids[t]
    <2>1. out.top \o kids \in Seq(Ids)
      BY <1>9, <1>10
    <2>2. [out.kids EXCEPT ![s] = <<>>] \in [Slots -> Seq(Ids)]
      <3>1. <<>> \in Seq(Ids)
        OBVIOUS
      <3> HIDE DEF s
      <3> QED
        BY <1>4, <1>9, <3>1
    <2> HIDE DEF s
    <2> QED
      BY <1>4, <1>9, <2>1, <2>2 DEF AllLists
  <1>13. /\ ListsHold(L \ {x}, g, up2, new) /\ ParentsHold(L \ {x}, up2)
         /\ StraysHold(L \ {x}, V \cup {x}, g, up2, S, new)
    <2>1. MadeRoots(out, x, kids, new)
      BY <1>12 DEF MadeRoots
    <2>2. new \in AllLists
      BY <1>12
    <2>3. ToSet(kids) = {y \in ToSet(out.kids[Slot(x)]) : y \in L \cup V}
      BY <1>10
    <2> HIDE DEF L, V, S, g, up, up2, lists, new
    <2> QED
      BY ONLY <1>3, <1>4, <1>6, <1>7, <1>8, <1>10, <1>11, <2>1, <2>2, <2>3, OrphansAreRoots
  <1>14. NoCycle(L \ {x}, up2)
    <2>1. \A y \in L \ {x} : up2[Slot(y)] # NoId => y \in L /\ up2[Slot(y)] = up[Slot(y)]
      BY <1>11 DEF Cleared
    <2> HIDE DEF L, up, up2
    <2> QED
      BY <1>3, <2>1, FewerParents
  <1>15. parent' = [parent EXCEPT ![p] = up2] /\ SetLists(p, new)
    BY DEF LeavesTree
  <1>16. /\ Lists(p)' = new /\ parent'[p] = up2
         /\ \A r \in Pools : r # p => /\ children'[r] = children[r] /\ roots'[r] = roots[r]
                                      /\ parent'[r] = parent[r]
         /\ children' \in [Pools -> [Slots -> Seq(Ids)]] /\ roots' \in [Pools -> Seq(Ids)]
         /\ parent' \in [Pools -> [Slots -> Ids \cup {NoId}]]
    <2>1. up2 \in [Slots -> Ids \cup {NoId}] /\ new \in AllLists
      BY <1>11, <1>12
    <2> HIDE DEF new, up2
    <2> QED
      BY ONLY <1>2, <1>15, <2>1, p \in Pools, TreeValues
  <1>17. /\ uuid' \in [Pools -> [Slots -> Uuids \cup {NoUuid}]]
         /\ byUuid' \in [Pools -> [Uuids -> Ids \cup {NoId}]]
         /\ UuidsHold(L \ {x}, uuid'[p], byUuid'[p])
         /\ \A r \in Pools : r # p => uuid'[r] = uuid[r] /\ byUuid'[r] = byUuid[r]
    BY UuidDropped DEF LeavesTree
  <1>18. PoolsTyped'
    BY <1>1, <1>2, <1>16, <1>17 DEF PoolsTyped
  <1>19. \A r \in Pools : Live(r)' = Live(r)
    BY <1>1, WorldNow
  <1>20. Linked(p)' = L \ {x}
    BY <1>1, <1>19, WorldNow
  <1>21. PoolOK(p)'
    <2>1. /\ cap'[p] = cap[p] /\ free'[p] = free[p] /\ alive'[p] = alive[p] /\ gen'[p] = g
          /\ SlotsHold(cap[p], free[p], alive[p]) /\ Leaving(p)' = V \cup {x} /\ strays'[p] = S
      BY <1>1, <1>2 DEF PoolOK, LeavesTree
    <2> HIDE DEF L, V, S, g, up2, new
    <2>2. /\ StraysHold(Linked(p)', Leaving(p)', gen'[p], parent'[p], strays'[p], Lists(p)')
          /\ ListsHold(Linked(p)', gen'[p], parent'[p], Lists(p)') /\ ParentsHold(Linked(p)', parent'[p])
          /\ NoCycle(Linked(p)', parent'[p])
      BY <1>13, <1>14, <1>16, <1>20, <2>1
    <2>3. SlotsHold(cap'[p], free'[p], alive'[p]) /\ UuidsHold(Linked(p)', uuid'[p], byUuid'[p])
      BY <1>17, <1>20, <2>1
    <2> QED
      BY <2>2, <2>3 DEF PoolOK
  <1>22. OnlyPool(p)
    BY <1>1, <1>16, <1>17 DEF OnlyPool
  <1>23. /\ \A r \in Pools : PoolOK(r)'
         /\ \A r \in Pools : r # p => Linked(r)' = Linked(r)
    BY <1>1, <1>21, <1>22, OnePoolChanges, ProperNow
  <1>24. Unlinked(World, World', p, x)
    <2> DEFINE w == World
               v == World'
    <2>1. /\ \A r \in Pools : v.live[r] = w.live[r] /\ (r # p => v.leaving[r] = w.leaving[r])
          /\ v.leaving[p] = w.leaving[p] \cup {x}
          /\ v.gen = w.gen /\ v.up = parent' /\ w.up = parent /\ w.live[p] = Live(p)
          /\ v.strays = w.strays
      BY <1>1, <1>19, WorldNow
    <2>2. ASSUME NEW y \in Live(p)
          PROVE  \/ parent'[p][Slot(y)] = parent[p][Slot(y)]
                 \/ parent[p][Slot(y)] = x /\ parent'[p][Slot(y)] = NoId
      <3>1. Slot(y) \in Slots /\ y \in Ids
        BY FramesNow DEF Ids, Slot
      <3>2. CASE \E i \in 1..Len(kids) : Slot(kids[i]) = Slot(y)
        <4>1. PICK i \in 1..Len(kids) : Slot(kids[i]) = Slot(y)
          BY <3>2
        <4>2. kids[i] \in ToSet(kids)
          BY <1>10, ToSetFacts
        <4>3. up[Slot(y)] = x
          <5> HIDE DEF L, V, S, up, up2
          <5>1. up[Slot(kids[i])] = x
            BY <1>11, <4>2 DEF Freed
          <5> QED
            BY <4>1, <5>1
        <4>4. up2[Slot(y)] = NoId
          BY <3>1, <3>2
        <4> QED
          BY <1>16, <4>3, <4>4
      <3>3. CASE ~\E i \in 1..Len(kids) : Slot(kids[i]) = Slot(y)
        BY <1>16, <3>1, <3>3
      <3> QED
        BY <3>2, <3>3
    <2>3. \A r \in Pools : r # p => parent'[r] = parent[r]
      BY <1>16
    <2> HIDE DEF w, v
    <2>4. Unlinked(w, v, p, x)
      BY <2>1, <2>2, <2>3 DEF Unlinked
    <2> QED
      BY <2>4 DEF w, v
  <1>25. \A y \in Linked(p) \ {x} :
            parent'[p][Slot(y)] = IF parent[p][Slot(y)] = x THEN NoId ELSE parent[p][Slot(y)]
    <2> HIDE DEF L, up, up2
    <2>1. \A y \in L \ {x} : parent'[p][Slot(y)] = IF up[Slot(y)] = x THEN NoId ELSE up[Slot(y)]
      BY <1>11, <1>16 DEF Cleared
    <2> QED
      BY <2>1 DEF L, up
  <1> QED
    BY <1>16, <1>18, <1>19, <1>20, <1>23, <1>24, <1>25

\* The entity is out of the tree, and the event is published.
LEMMA FreeUnlinkKeeps ==
    ASSUME IndInv, FreeUnlink
    PROVE  IndInv' /\ \E p \in Pools : \E x : p = Top.pool /\ x = Top.id /\ Unlinks(p, x)
  <1>a. PICK p, x, old : p = Top.pool /\ x = Top.id /\ old = Top.old
    <2> WITNESS Top.pool, Top.id, Top.old
    <2> QED
      OBVIOUS
  <1> DEFINE isAlive == Alive(p, old)
             out == Without(Lists(p), old, x, isAlive)
             kids == Survivors(p, out.kids[Slot(x)])
             g == [Top EXCEPT !.stage = "published"]
             rest == Popped
  <1>1. /\ frames # <<>> /\ Top.op = "free" /\ Top.stage = "begin"
        /\ SetLists(p, [kids |-> [out.kids EXCEPT ![Slot(x)] = <<>>], top |-> out.top \o kids])
        /\ parent' = [parent EXCEPT ![p] = [t \in Slots |->
                         IF \E i \in 1..Len(kids) : Slot(kids[i]) = t THEN NoId ELSE parent[p][t]]]
        /\ uuid' = [uuid EXCEPT ![p][Slot(x)] = NoUuid]
        /\ byUuid' = [byUuid EXCEPT ![p][uuid[p][Slot(x)]] = NoId]
        /\ frames' = [frames EXCEPT ![Depth] = g]
        /\ UNCHANGED slotVars /\ strays' = strays /\ comps' = comps
    BY <1>a, Zenon DEF FreeUnlink, At, To, Became, componentVars
  <1>2. /\ Top \in Frames /\ FrameOK(World, Top) /\ p \in Pools /\ Top = Last(frames)
        /\ x \in Live(p) /\ x \in Ids /\ Slot(x) \in Slots
    BY <1>a, <1>1, TopNow, ZenonT(60)
  <1>3. /\ rest \in Seq(Frames) /\ StackOK(World, rest) /\ (rest = <<>> => ~Top.made)
        /\ (rest # <<>> => NestOK(World, Last(rest), Top) /\ Last(rest) = rest[Len(rest)])
        /\ \A i \in 1..Len(rest) : rest[i] \in Frames /\ PairOK(rest[i], Top) /\ rest[i] = frames[i]
        /\ \A i \in 1..Len(rest) : i \in 1..Len(frames)
        /\ \A r \in Pools : Leaving(r) = LeavingIn(rest, r) \cup {h \in {x} : IsLeaving(Top, r)}
        /\ \A h \in Frames : [frames EXCEPT ![Depth] = h] = Append(rest, h)
    <2>1. /\ Popped \in Seq(Frames) /\ StackOK(World, Popped)
          /\ Popped = <<>> => ~Top.made
          /\ Popped # <<>> => NestOK(World, Last(Popped), Top) /\ Last(Popped) = Popped[Len(Popped)]
          /\ \A i \in 1..Len(Popped) : /\ Popped[i] = frames[i] /\ Popped[i] \in Frames
                                       /\ PairOK(Popped[i], Top)
          /\ Len(Popped) = Depth - 1
          /\ \A h \in Frames : [frames EXCEPT ![Depth] = h] = Append(Popped, h)
          /\ \A r \in Pools : Leaving(r) = LeavingIn(Popped, r) \cup {h \in {Top.id} : IsLeaving(Top, r)}
      <3>1. frames # <<>>
        BY <1>1
      <3> QED
        BY ONLY IndInv, <3>1, Beneath
    <2>2. \A i \in 1..Len(Popped) : i \in 1..Len(frames)
      <3>1. Len(frames) \in Nat
        BY ProperNow DEF Proper
      <3> QED
        BY <2>1, <3>1 DEF Depth
    <2> HIDE DEF rest
    <2>3. rest = Popped
      BY DEF rest
    <2> QED
      BY ONLY <1>a, <2>1, <2>2, <2>3
  <1>4. /\ g \in Frames /\ g.op = "free" /\ g.stage = "published" /\ g.pool = p /\ g.id = x
        /\ g.old = old /\ g.made = Top.made
    <2>1. Top.op = "free" /\ Top \in Frames
      BY <1>1, <1>2
    <2> HIDE DEF kids, out, isAlive, rest
    <2>2. g \in Frames /\ g.op = Top.op /\ g.stage = "published" /\ g.pool = Top.pool /\ g.id = Top.id
          /\ g.old = Top.old /\ g.made = Top.made
      BY ONLY <2>1 DEF Frames, g
    <2> QED
      BY ONLY <1>a, <2>1, <2>2
  <1> HIDE DEF g, rest
  <1>5. \A r \in Pools : Leaving(r) = LeavingIn(rest, r)
    BY <1>a, <1>1, <1>3 DEF IsLeaving
  <1>6. ASSUME NEW y \in Leaving(p)
        PROVE  \E i \in 1..Len(rest) : IsLeaving(rest[i], p) /\ rest[i].id = y
    BY <1>2, <1>3, <1>5, <1>6, LeavingFacts
  <1>7. x \in Linked(p) /\ old \notin Leaving(p)
    <2>1. \A i \in 1..Len(rest) : IsLeaving(rest[i], p) => rest[i].id # x /\ rest[i].id # old
      BY <1>a, <1>1, <1>3, Zenon DEF PairOK, IsLeaving
    <2>2. x \notin Leaving(p) /\ old \notin Leaving(p)
      BY <1>6, <2>1
    <2> QED
      BY <1>2, <2>2, Zenon DEF Linked
  <1>8. old \in Ids \cup {NoId} /\ isAlive \in BOOLEAN
    <2>1. old \in Ids \cup {NoId}
      BY <1>a, <1>2, FrameFields
    <2>2. alive[p] \in [Slots -> BOOLEAN]
      BY <1>2, OnePool
    <2>3. old \in Ids => Slot(old) \in Slots
      BY DEF Ids, Slot
    <2> QED
      BY <2>1, <2>2, <2>3 DEF Alive
  <1>9. \/ parent[p][Slot(x)] = NoId /\ ~(old # NoId /\ isAlive)
        \/ parent[p][Slot(x)] = old /\ old \in Linked(p) /\ isAlive
        \/ x \in strays[p]
    <2>1. \/ x \in strays[p]
          \/ parent[p][Slot(x)] = old
          \/ /\ parent[p][Slot(x)] = NoId /\ old # NoId
             /\ old \in Leaving(p) \/ Generation(old) < gen[p][Slot(old)]
      BY <1>a, <1>1, <1>2, WorldNow, Zenon DEF FrameOK, OldOK, Up, GoneIn
    <2>2. CASE parent[p][Slot(x)] = old
      <3>1. old \in Linked(p) \cup {NoId} /\ (old = NoId \/ Alive(p, old))
        BY <1>2, <1>7, <2>2, OnePool DEF ParentsHold
      <3> QED
        BY <2>2, <3>1
    <2>3. CASE parent[p][Slot(x)] = NoId /\ old # NoId /\ Generation(old) < gen[p][Slot(old)]
      <3>1. gen[p] \in [Slots -> Nat] /\ old \in Ids
        BY <1>2, <1>8, <2>3, OnePool
      <3>2. Slot(old) \in Slots /\ Generation(old) \in Nat
        BY <3>1 DEF Ids, Slot, Generation
      <3>3. gen[p][Slot(old)] # Generation(old)
        BY <2>3, <3>1, <3>2
      <3> QED
        BY <2>3, <3>3 DEF Alive
    <2> QED
      BY <1>7, <2>1, <2>2, <2>3
  <1>10. /\ frames' = Append(rest, g)
         /\ \A r \in Pools : Leaving(r)' = LeavingIn(rest, r) \cup {h \in {x} : IsLeaving(g, r)}
    <2>1. frames' = Append(rest, g)
      BY <1>1, <1>3, <1>4
    <2>2. \A r \in Pools : LeavingIn(Append(rest, g), r) = LeavingIn(rest, r) \cup {h \in {g.id} : IsLeaving(g, r)}
      BY <1>3, <1>4, LeavingFacts
    <2> QED
      BY <1>4, <2>1, <2>2, WorldNow
  <1>11. /\ Leaving(p)' = Leaving(p) \cup {x}
         /\ \A r \in Pools : r # p => Leaving(r)' = Leaving(r)
    <2>1. IsLeaving(g, p) /\ \A r \in Pools : r # p => ~IsLeaving(g, r)
      BY <1>4 DEF IsLeaving
    <2>2. \A r \in Pools : {h \in {x} : IsLeaving(g, r)} = IF r = p THEN {x} ELSE {}
      BY <2>1
    <2>3. p \in Pools
      BY <1>2
    <2>4. ASSUME NEW r \in Pools
          PROVE  Leaving(r)' = Leaving(r) \cup IF r = p THEN {x} ELSE {}
      <3>1. Leaving(r)' = LeavingIn(rest, r) \cup {h \in {x} : IsLeaving(g, r)}
        BY <1>10
      <3>2. {h \in {x} : IsLeaving(g, r)} = IF r = p THEN {x} ELSE {}
        BY <2>2
      <3>3. Leaving(r) = LeavingIn(rest, r)
        BY <1>5
      <3> QED
        BY ONLY <3>1, <3>2, <3>3, Zenon
    <2> QED
      BY ONLY <2>3, <2>4
  <1> HIDE DEF isAlive, out, kids
  <1>12. /\ PoolsTyped' /\ \A r \in Pools : PoolOK(r)'
         /\ Unlinked(World, World', p, x)
         /\ \A r \in Pools : Live(r)' = Live(r)
         /\ Linked(p)' = Linked(p) \ {x}
         /\ \A y \in Linked(p) \ {x} :
              parent'[p][Slot(y)] = IF parent[p][Slot(y)] = x THEN NoId ELSE parent[p][Slot(y)]
         /\ \A r \in Pools : r # p => Linked(r)' = Linked(r) /\ parent'[r] = parent[r]
    <2>1. out = Without(Lists(p), old, x, isAlive) /\ kids = Survivors(p, out.kids[Slot(x)])
      BY DEF out, kids
    <2>2. StandsUnder(p, x, old, isAlive) /\ LeavesTree(p, x, out, kids)
      BY <1>1, <1>9, <1>11 DEF StandsUnder, LeavesTree
    <2> QED
      BY ONLY IndInv, <1>2, <1>7, <1>8, <2>1, <2>2, UnlinkFacts
  <1>13. \A i \in 1..Len(rest) : rest[i].op # "migrate"
    <2>1. frames \in Seq(Frames) /\ StackOK(World, frames) /\ (frames # <<>> => Last(frames).op # "migrate")
      BY <1>1, <1>2, ProperNow DEF Proper
    <2>2. \A i \in 1..Len(frames) : frames[i].op # "migrate"
      BY <2>1, NoMigration
    <2> QED
      BY <1>3, <2>2
  <1>14. StackOK(World', rest)
    <2> DEFINE w == World
               v == World'
    <2>1. StackOK(w, rest) /\ Unlinked(w, v, p, x)
      BY <1>3, <1>12
    <2> HIDE DEF w, v
    <2>2. StackOK(v, rest)
      BY ONLY <1>2, <1>3, <1>13, <2>1, UnlinkingSeen
    <2> QED
      BY <2>2 DEF v
  <1>15. StackOK(World', frames') /\ MovesApart(World', frames') /\ frames' \in Seq(Frames)
    <2> DEFINE v == World'
    <2>1. FrameOK(v, g)
      <3>1. x \in v.live[p]
        BY <1>2, <1>12, WorldNow
      <3> QED
        BY <1>4, <3>1 DEF FrameOK
    <2>2. rest = <<>> => ~g.made
      BY <1>3, <1>4
    <2>3. rest # <<>> => NestOK(v, Last(rest), g)
      <3> SUFFICES ASSUME rest # <<>> PROVE NestOK(v, Last(rest), g)
        OBVIOUS
      <3>1. NestOK(World, Last(rest), Top)
        BY <1>3
      <3> QED
        BY <1>a, <1>1, <1>4, <3>1 DEF NestOK
    <2>4. \A i \in 1..Len(rest) : PairOK(rest[i], g)
      <3> SUFFICES ASSUME NEW i \in 1..Len(rest) PROVE PairOK(rest[i], g)
        OBVIOUS
      <3>1. PairOK(rest[i], Top) /\ rest[i].op # "migrate"
        BY <1>3, <1>13
      <3> QED
        BY <1>a, <1>1, <1>4, <3>1 DEF PairOK
    <2>5. StackOK(v, rest)
      BY <1>14
    <2> HIDE DEF v
    <2>6. Append(rest, g) \in Seq(Frames) /\ StackOK(v, Append(rest, g))
      BY <1>3, <1>4, <2>1, <2>2, <2>3, <2>4, <2>5, StackPush
    <2>7. \A i \in 1..Len(Append(rest, g)) : Append(rest, g)[i].op # "migrate"
      BY <1>3, <1>4, <1>13
    <2>8. MovesApart(v, Append(rest, g))
      BY <2>7, NothingMoves
    <2> QED
      BY <1>10, <2>6, <2>8 DEF v
  <1>16. ComponentsTyped'
    BY <1>1, ProperNow DEF ComponentsTyped
  <1>17. Unlinks(p, x)
    BY <1>1, <1>7, <1>11, <1>12 DEF Unlinks, slotVars
  <1> QED
    BY <1>a, <1>2, <1>12, <1>15, <1>16, <1>17, PutTogether

\* The lists and the parents of the entities in L, when the slot of x, which
\* is not one of them, is given back.
LEMMA BuriedPool ==
    ASSUME IndInv, NEW p \in Pools, NEW x \in Live(p), Bury(p, Slot(x)),
           NEW L, Stamped(L, gen[p]), x \notin L,
           NEW up \in [Slots -> Ids \cup {NoId}], NEW lists \in AllLists,
           ListsHold(L, gen[p], up, lists), ParentsHold(L, up),
           NEW V, NEW S, StraysHold(L, V, gen[p], up, S, lists)
    PROVE  ListsHold(L, gen'[p], up, lists) /\ StraysHold(L, V \ {x}, gen'[p], up, S, lists)
  <1> DEFINE g == gen[p]
             h == gen'[p]
             s == Slot(x)
  <1>1. g \in [Slots -> Nat] /\ Stamped(Live(p), g)
    BY OnePool
  <1>2. /\ x = <<s, g[s]>> /\ s \in Slots
    <2>1. \A y \in Live(p) : Slot(y) \in Slots /\ y = <<Slot(y), g[Slot(y)]>>
      <3> HIDE DEF g
      <3> QED
        BY <1>1, StampedFacts
    <2> QED
      BY <2>1
  <1>3. /\ gen' \in [Pools -> [Slots -> Nat]] /\ h[s] = g[s] + 1
        /\ \A t \in Slots : t # s => h[t] = g[t]
    BY BuryFacts
  <1>4. h \in [Slots -> Nat]
    BY <1>3
  <1>5. <<s, g[s]>> \notin L /\ Stamped(L, g) /\ ListsHold(L, g, up, lists) /\ ParentsHold(L, up)
        /\ StraysHold(L, V, g, up, S, lists)
    BY <1>2
  <1> HIDE DEF g, h, s
  <1>6. ListsHold(L, h, up, lists) /\ StraysHold(L, V \ {x}, h, up, S, lists)
    BY <1>1, <1>2, <1>3, <1>4, <1>5, BuryKeepsLists
  <1> QED
    BY <1>6 DEF h

(* x, whose end was announced, is dead. *)
Dies(p, x) ==
    /\ x \in Leaving(p) /\ Leaving(p)' = Leaving(p) \ {x}
    /\ \A r \in Pools : Linked(r)' = Linked(r)
    /\ \A r \in Pools : r # p => Leaving(r)' = Leaving(r) /\ gen'[r] = gen[r]
    /\ gen'[p] = [gen[p] EXCEPT ![Slot(x)] = @ + 1]
    /\ parent' = parent

\* The entity is dead: the end of tc_entity_pool_free.
LEMMA FreeEndKeeps ==
    ASSUME IndInv, FreeEnd
    PROVE  IndInv' /\ \E p \in Pools : \E x : Dies(p, x)
  <1>a. PICK p, x : p = Top.pool /\ x = Top.id
    OBVIOUS
  <1> DEFINE rest == Popped
  <1>1. /\ frames # <<>> /\ Top.op = "free" /\ Top.stage = "published"
        /\ Bury(p, Slot(x)) /\ frames' = rest
        /\ uuid' = uuid /\ byUuid' = byUuid /\ parent' = parent
        /\ children' = children /\ roots' = roots /\ strays' = strays /\ comps' = comps
    BY <1>a DEF FreeEnd, At, componentVars, uuidVars, treeVars
  <1>2. /\ Top \in Frames /\ p \in Pools /\ Top = Last(frames)
        /\ x \in Live(p) /\ x \in Ids /\ Slot(x) \in Slots
    BY <1>a, <1>1, TopNow, ZenonT(60)
  <1>3. /\ rest \in Seq(Frames) /\ StackOK(World, rest) /\ MovesApart(World, rest)
        /\ \A i \in 1..Len(rest) : rest[i] \in Frames /\ PairOK(rest[i], Top) /\ rest[i] = frames[i]
        /\ \A i \in 1..Len(rest) : i \in 1..Len(frames)
        /\ \A r \in Pools : Leaving(r) = LeavingIn(rest, r) \cup {h \in {x} : IsLeaving(Top, r)}
    <2>1. /\ Popped \in Seq(Frames) /\ StackOK(World, Popped) /\ MovesApart(World, Popped)
          /\ \A i \in 1..Len(Popped) : /\ Popped[i] = frames[i] /\ Popped[i] \in Frames
                                       /\ PairOK(Popped[i], Top)
          /\ Len(Popped) = Depth - 1
          /\ \A r \in Pools : Leaving(r) = LeavingIn(Popped, r) \cup {h \in {Top.id} : IsLeaving(Top, r)}
      <3>1. frames # <<>>
        BY <1>1
      <3> QED
        BY ONLY IndInv, <3>1, Beneath
    <2>2. \A i \in 1..Len(Popped) : i \in 1..Len(frames)
      <3>1. Len(frames) \in Nat
        BY ProperNow DEF Proper
      <3> QED
        BY <2>1, <3>1 DEF Depth
    <2> HIDE DEF rest
    <2>3. rest = Popped
      BY DEF rest
    <2> QED
      BY ONLY <1>a, <2>1, <2>2, <2>3
  <1> HIDE DEF rest
  <1>4. \A i \in 1..Len(rest) : rest[i].op # "destroy" /\ rest[i].pool = p => rest[i].id # x
    BY <1>a, <1>1, <1>3 DEF PairOK
  <1>5. x \notin LeavingIn(rest, p)
    <2>1. \A i \in 1..Len(rest) : IsLeaving(rest[i], p) => rest[i].id # x
      BY <1>4 DEF IsLeaving
    <2> QED
      BY <1>2, <1>3, <2>1, LeavingFacts
  <1>6. ASSUME NEW r \in Pools
        PROVE  Leaving(r)' = Leaving(r) \ IF r = p THEN {x} ELSE {}
    <2>1. Leaving(r)' = LeavingIn(rest, r)
      BY <1>1, WorldNow
    <2>2. {h \in {x} : IsLeaving(Top, r)} = IF r = p THEN {x} ELSE {}
      BY <1>a, <1>1 DEF IsLeaving
    <2>3. Leaving(r) = LeavingIn(rest, r) \cup IF r = p THEN {x} ELSE {}
      BY <1>3, <2>2, Zenon
    <2> QED
      BY ONLY <1>5, <2>1, <2>3
  <1>7. x \in Leaving(p) /\ Leaving(p)' = Leaving(p) \ {x}
    <2>1. IsLeaving(Top, p)
      BY <1>a, <1>1 DEF IsLeaving
    <2> QED
      BY <1>2, <1>3, <1>6, <2>1
  <1>8. \A r \in Pools : r # p => Leaving(r)' = Leaving(r)
    BY <1>6
  <1>9. /\ cap' = cap
        /\ \A r \in Pools : r # p => free'[r] = free[r] /\ gen'[r] = gen[r] /\ alive'[r] = alive[r]
        /\ free' \in [Pools -> Seq(Slots)] /\ gen' \in [Pools -> [Slots -> Nat]]
        /\ alive' \in [Pools -> [Slots -> BOOLEAN]]
        /\ SlotsHold(cap'[p], free'[p], alive'[p])
        /\ Live(p)' = Live(p) \ {x} /\ \A r \in Pools : r # p => Live(r)' = Live(r)
        /\ gen'[p] = [gen[p] EXCEPT ![Slot(x)] = @ + 1]
    BY <1>1, <1>2, BuryFacts
  <1>10. Linked(p)' = Linked(p) /\ x \notin Linked(p)
    <2>1. Live(p)' = Live(p) \ {x}
      BY <1>9
    <2>2. Linked(p)' = Live(p)' \ Leaving(p)' /\ Linked(p) = Live(p) \ Leaving(p)
      BY DEF Linked
    <2> QED
      BY ONLY <1>7, <2>1, <2>2
  <1>11. /\ parent[p] \in [Slots -> Ids \cup {NoId}] /\ Lists(p) \in AllLists
         /\ Stamped(Linked(p), gen[p])
         /\ UuidsHold(Linked(p), uuid[p], byUuid[p])
         /\ ListsHold(Linked(p), gen[p], parent[p], Lists(p))
         /\ StraysHold(Linked(p), Leaving(p), gen[p], parent[p], strays[p], Lists(p))
         /\ ParentsHold(Linked(p), parent[p])
         /\ NoCycle(Linked(p), parent[p])
    BY <1>2, OnePool
  <1>12. /\ ListsHold(Linked(p), gen'[p], parent[p], Lists(p))
         /\ StraysHold(Linked(p), Leaving(p) \ {x}, gen'[p], parent[p], strays[p], Lists(p))
    <2> DEFINE L == Linked(p)
               up == parent[p]
               lists == Lists(p)
               V == Leaving(p)
               S == strays[p]
    <2>1. /\ up \in [Slots -> Ids \cup {NoId}] /\ lists \in AllLists /\ Stamped(L, gen[p])
          /\ ListsHold(L, gen[p], up, lists) /\ ParentsHold(L, up) /\ x \notin L
          /\ StraysHold(L, V, gen[p], up, S, lists)
      BY <1>10, <1>11
    <2> HIDE DEF L, V, S, up, lists
    <2>2. ListsHold(L, gen'[p], up, lists) /\ StraysHold(L, V \ {x}, gen'[p], up, S, lists)
      BY <1>1, <1>2, <2>1, BuriedPool
    <2> QED
      BY <2>2 DEF L, V, S, up, lists
  <1>13. Lists(p)' = Lists(p)
    BY <1>1 DEF Lists
  <1>14. PoolOK(p)'
    BY <1>1, <1>7, <1>9, <1>10, <1>11, <1>12, <1>13 DEF PoolOK
  <1>15. OnlyPool(p)
    BY <1>1, <1>9 DEF OnlyPool
  <1>16. \A r \in Pools : PoolOK(r)'
    BY <1>2, <1>8, <1>14, <1>15, OnePoolChanges, ProperNow
  <1>17. PoolsTyped' /\ ComponentsTyped'
    BY <1>1, <1>9, ProperNow DEF PoolsTyped, ComponentsTyped
  <1>18. Died(World, World', p, x)
    <2> DEFINE w == World
               v == World'
    <2>1. /\ w.live[p] = Live(p) /\ v.live[p] = Live(p) \ {x}
          /\ w.leaving[p] = Leaving(p) /\ v.leaving[p] = Leaving(p) \ {x}
          /\ w.gen = gen /\ v.gen = gen' /\ w.up = parent /\ v.up = parent /\ v.strays = w.strays
      BY <1>1, <1>2, <1>7, <1>9, WorldNow
    <2>2. ASSUME NEW r \in Pools, r # p
          PROVE  v.live[r] = w.live[r] /\ v.leaving[r] = w.leaving[r] /\ v.gen[r] = w.gen[r]
      BY <1>8, <1>9, <2>1, <2>2, WorldNow
    <2> HIDE DEF w, v
    <2>3. Died(w, v, p, x)
      BY <1>9, <2>1, <2>2 DEF Died
    <2> QED
      BY <2>3 DEF w, v
  <1>19. \A i \in 1..Len(rest) : rest[i].op # "migrate"
    <2>1. frames \in Seq(Frames) /\ StackOK(World, frames) /\ (frames # <<>> => Last(frames).op # "migrate")
      BY <1>1, <1>2, ProperNow DEF Proper
    <2>2. \A i \in 1..Len(frames) : frames[i].op # "migrate"
      BY <2>1, NoMigration
    <2> QED
      BY <1>3, <2>2
  <1>20. StackOK(World', rest) /\ MovesApart(World', rest)
    <2> DEFINE w == World
               v == World'
    <2>1. Sane(w) /\ StackOK(w, rest) /\ MovesApart(w, rest) /\ Died(w, v, p, x) /\ x \in w.live[p]
      BY <1>2, <1>3, <1>18, WorldNow, WorldIsSane DEF IndInv
    <2>2. \A i \in 1..Len(rest) : rest[i].op = "migrate" => rest[i].to # p
      BY <1>19
    <2> HIDE DEF w, v
    <2>3. StackOK(v, rest) /\ MovesApart(v, rest)
      BY ONLY <1>2, <1>3, <1>4, <2>1, <2>2, DeathSeen
    <2> QED
      BY <2>3 DEF v
  <1>21. Dies(p, x)
    <2>1. \A r \in Pools : r # p => Linked(r)' = Linked(r)
      BY <1>8, <1>9 DEF Linked
    <2> QED
      BY <1>1, <1>7, <1>8, <1>9, <1>10, <2>1 DEF Dies
  <1> QED
    BY <1>1, <1>2, <1>3, <1>16, <1>17, <1>20, <1>21, PutTogether

\* A migration goes on: another frame stands for it on top.
LEMMA Instead ==
    ASSUME NEW w, NEW fs \in Seq(Frames), StackOK(w, fs), MovesApart(w, fs), fs # <<>>,
           Last(fs).op = "migrate",
           NEW g \in Frames, g.op = "migrate", g.pool = Last(fs).pool, g.id = Last(fs).id,
           g.made = Last(fs).made, FrameOK(w, g),
           \A i \in 1..(Len(fs) - 1) : PairOK(fs[i], g)
    PROVE  /\ Append(Front(fs), g) \in Seq(Frames) /\ StackOK(w, Append(Front(fs), g))
           /\ MovesApart(w, Append(Front(fs), g))
  <1> DEFINE r == Front(fs)
             t == Last(fs)
             hs == Append(r, g)
  <1>1. /\ Len(fs) \in Nat \ {0} /\ Len(fs) \in 1..Len(fs)
        /\ r \in Seq(Frames) /\ Len(r) = Len(fs) - 1
        /\ \A i \in 1..(Len(fs) - 1) : r[i] = fs[i] /\ i \in 1..Len(fs)
        /\ t = fs[Len(fs)] /\ t \in Frames
    BY StackParts
  <1>2. /\ StackOK(w, r) /\ (r = <<>> => ~t.made) /\ (r # <<>> => NestOK(w, Last(r), t))
    BY StackTop
  <1>3. g.op = "migrate" /\ t.op = "migrate" /\ g.pool = t.pool /\ g.id = t.id /\ g.made = t.made
    OBVIOUS
  <1> HIDE DEF r, t
  <1>4. r # <<>> => NestOK(w, Last(r), g)
    BY <1>2, <1>3 DEF NestOK
  <1>5. \A i \in 1..Len(r) : PairOK(r[i], g)
    BY <1>1
  <1>6. hs \in Seq(Frames) /\ StackOK(w, hs)
    BY <1>1, <1>2, <1>3, <1>4, <1>5, StackPush
  <1>7. /\ \A i \in 1..Len(hs) : hs[i] \in Frames
        /\ \A i \in 1..Len(hs) : hs[i].op # "destroy" =>
             \E j \in 1..Len(fs) : fs[j].op = hs[i].op /\ fs[j].pool = hs[i].pool /\ fs[j].id = hs[i].id
    <2>1. Len(hs) = Len(fs)
      BY <1>1
    <2> SUFFICES ASSUME NEW i \in 1..Len(hs)
                 PROVE  /\ hs[i] \in Frames
                        /\ \E j \in 1..Len(fs) : /\ fs[j].op = hs[i].op /\ fs[j].pool = hs[i].pool
                                                 /\ fs[j].id = hs[i].id
      OBVIOUS
    <2>2. CASE i = Len(fs)
      <3>1. hs[i] = g
        BY <1>1, <2>2
      <3> QED
        BY <1>1, <1>3, <3>1
    <2>3. CASE i # Len(fs)
      <3>1. hs[i] = fs[i] /\ i \in 1..Len(fs)
        BY <1>1, <2>1, <2>3
      <3> QED
        BY <3>1
    <2> QED
      BY <2>2, <2>3
  <1> HIDE DEF hs
  <1>8. MovesApart(w, hs)
    BY <1>7, StillApart
  <1> QED
    BY <1>6, <1>8 DEF hs, r

\* A migration that goes on frees nothing.
LEMMA InsteadLeaves ==
    ASSUME NEW fs \in Seq(Frames), fs # <<>>, Last(fs).op = "migrate",
           NEW g \in Frames, g.op = "migrate", NEW p \in Pools
    PROVE  LeavingIn(Append(Front(fs), g), p) = LeavingIn(fs, p)
  <1> DEFINE r == Front(fs)
             t == Last(fs)
  <1>1. r \in Seq(Frames) /\ t \in Frames /\ fs = Append(r, t)
    BY StackParts
  <1>2. ~IsLeaving(g, p) /\ ~IsLeaving(t, p)
    BY DEF IsLeaving
  <1> HIDE DEF r, t
  <1>3. /\ LeavingIn(Append(r, g), p) = LeavingIn(r, p) \cup {h \in {g.id} : IsLeaving(g, p)}
        /\ LeavingIn(Append(r, t), p) = LeavingIn(r, p) \cup {h \in {t.id} : IsLeaving(t, p)}
    BY <1>1, LeavingFacts
  <1>4. LeavingIn(Append(r, g), p) = LeavingIn(Append(r, t), p)
    BY <1>2, <1>3
  <1> QED
    BY <1>1, <1>4, Zenon DEF r

\* The parent of an entity in the tree is in the tree.
LEMMA StandsUnderParent ==
    ASSUME IndInv, NEW p \in Pools, NEW x \in Linked(p)
    PROVE  /\ parent[p][Slot(x)] \in Linked(p) \cup {NoId}
           /\ Alive(p, parent[p][Slot(x)]) \in BOOLEAN
           /\ \/ parent[p][Slot(x)] = NoId /\ ~(parent[p][Slot(x)] # NoId /\ Alive(p, parent[p][Slot(x)]))
              \/ parent[p][Slot(x)] \in Linked(p) /\ Alive(p, parent[p][Slot(x)])
  <1> DEFINE old == parent[p][Slot(x)]
  <1>1. /\ old \in Linked(p) \cup {NoId} /\ (old = NoId \/ Alive(p, old))
        /\ alive[p] \in [Slots -> BOOLEAN]
    BY OnePool DEF ParentsHold
  <1>2. Linked(p) \subseteq Ids
    BY FramesNow
  <1>3. \A y \in Ids : Slot(y) \in Slots
    BY DEF Ids, Slot
  <1> HIDE DEF old
  <1>4. Alive(p, old) \in BOOLEAN
    BY <1>1, <1>2, <1>3 DEF Alive
  <1>5. (old = NoId /\ ~(old # NoId /\ Alive(p, old))) \/ (old \in Linked(p) /\ Alive(p, old))
    BY <1>1
  <1> QED
    BY <1>1, <1>4, <1>5 DEF old

(* x, which has no children, is dead at once. *)
SourceDies(p, x) ==
    /\ x \in Linked(p) /\ Linked(p)' = Linked(p) \ {x}
    /\ \A y \in Linked(p) \ {x} : parent[p][Slot(y)] # x
    /\ \A r \in Pools : Leaving(r)' = Leaving(r)
    /\ \A r \in Pools : r # p => Linked(r)' = Linked(r) /\ gen'[r] = gen[r]
    /\ gen'[p] = [gen[p] EXCEPT ![Slot(x)] = @ + 1]
    /\ parent' = parent

\* The source of a migration is dead: what the end of tc_entity_pool_migrate
\* does to its pool.
LEMMA SourceGone ==
    ASSUME IndInv, NEW p \in Pools, NEW x \in Linked(p), children[p][Slot(x)] = <<>>,
           SetLists(p, Without(Lists(p), parent[p][Slot(x)], x, Alive(p, parent[p][Slot(x)]))),
           uuid' = [uuid EXCEPT ![p][Slot(x)] = NoUuid],
           byUuid' = [byUuid EXCEPT ![p][uuid[p][Slot(x)]] = NoId],
           Bury(p, Slot(x)), parent' = parent, strays' = strays,
           \A r \in Pools : Leaving(r)' = Leaving(r)
    PROVE  /\ PoolsTyped' /\ \A r \in Pools : PoolOK(r)'
           /\ Died(World, World', p, x) /\ SourceDies(p, x)
           /\ Linked(p)' = Linked(p) \ {x}
           /\ \A y \in Linked(p) \ {x} : parent[p][Slot(y)] # x
           /\ \A r \in Pools : r # p => Live(r)' = Live(r) /\ Linked(r)' = Linked(r)
  <1> DEFINE L == Linked(p)
             g == gen[p]
             up == parent[p]
             lists == Lists(p)
             old == parent[p][Slot(x)]
             isAlive == Alive(p, parent[p][Slot(x)])
             mid == Without(lists, old, x, isAlive)
             M == L \ {x}
             V == Leaving(p)
             S == strays[p]
  <1>1. /\ g \in [Slots -> Nat] /\ up \in [Slots -> Ids \cup {NoId}] /\ lists \in AllLists
        /\ Stamped(L, g) /\ ListsHold(L, g, up, lists) /\ ParentsHold(L, up) /\ NoCycle(L, up)
        /\ StraysHold(L, V, g, up, S, lists)
    BY OnePool
  <1>2. x \in L /\ x \in Live(p) /\ Slot(x) \in Slots /\ L \subseteq Ids /\ PoolsTyped
    BY FramesNow, ProperNow DEF Ids, Slot
  <1>3. /\ isAlive \in BOOLEAN
        /\ \/ up[Slot(x)] = NoId /\ ~(old # NoId /\ isAlive)
           \/ up[Slot(x)] = old /\ old \in L /\ isAlive
    BY StandsUnderParent
  <1>4. lists.kids[Slot(x)] = <<>>
    BY DEF Lists
  <1>5. \A y \in L : up[Slot(y)] # x
    <2>1. x = <<Slot(x), g[Slot(x)]>>
      BY <1>1, <1>2 DEF Stamped
    <2>2. ToSet(lists.kids[Slot(x)]) \cap L = {y \in L : up[Slot(y)] = x}
      <3> HIDE DEF L, g, up, lists
      <3> QED
        BY <1>1, <1>2, <2>1 DEF ListsHold
    <2>3. ToSet(lists.kids[Slot(x)]) = {}
      BY <1>4 DEF ToSet
    <2> QED
      BY <2>2, <2>3
  <1>6. /\ mid \in AllLists /\ ListsHold(M, g, up, mid) /\ Stamped(M, g)
        /\ Shrunk(lists, mid) /\ Unlisted(x, mid)
    <2>1. old \in Ids \cup {NoId}
      BY <1>2, <1>3
    <2> HIDE DEF L, g, up, lists, old, isAlive
    <2> QED
      BY <1>1, <1>2, <1>3, <2>1, WithoutFacts DEF Stamped
  <1>20. StraysHold(M, V, g, up, S, mid)
    <2>1. x = <<Slot(x), g[Slot(x)]>> /\ lists.kids[Slot(x)] = <<>>
      BY <1>1, <1>2, <1>4 DEF Stamped
    <2>2. mid.kids \in [Slots -> Seq(Ids)]
      BY <1>6 DEF AllLists
    <2> HIDE DEF L, g, up, lists, old, isAlive, V, S, mid
    <2>3. /\ \A s \in Slots :
               /\ <<s, g[s]>> \notin L => lists.kids[s] = <<>>
               /\ \A y \in ToSet(lists.kids[s]) \ L : StrayAt(V, g, up, S, y, <<s, g[s]>>)
          /\ \A y \in ToSet(lists.top) \ L : StrayAt(V, g, up, S, y, NoId)
      BY <1>1 DEF StraysHold
    <2>4. ASSUME NEW s \in Slots, <<s, g[s]>> \notin M PROVE mid.kids[s] = <<>>
      <3>1. lists.kids[s] = <<>>
        BY <2>1, <2>3, <2>4
      <3>2. ToSet(lists.kids[s]) = {}
        BY <3>1 DEF ToSet
      <3>3. ToSet(mid.kids[s]) = {} /\ mid.kids[s] \in Seq(Ids)
        BY <1>6, <2>2, <3>2 DEF Shrunk
      <3> QED
        BY <3>3, EmptyIffNoElement
    <2>5. /\ \A s \in Slots : \A y \in ToSet(mid.kids[s]) \ M : y \in ToSet(lists.kids[s]) \ L
          /\ \A y \in ToSet(mid.top) \ M : y \in ToSet(lists.top) \ L
      BY <1>6 DEF Shrunk, Unlisted
    <2> HIDE DEF M
    <2> QED
      BY <2>3, <2>4, <2>5 DEF StraysHold
  <1>7. ParentsHold(M, up)
    BY <1>1, <1>5 DEF ParentsHold
  <1>8. NoCycle(M, up)
    <2>1. \A y \in M : up[Slot(y)] # NoId => y \in L /\ up[Slot(y)] = up[Slot(y)]
      OBVIOUS
    <2> HIDE DEF L, up, M
    <2> QED
      BY <1>1, <2>1, FewerParents
  <1>9. ListsHold(M, gen'[p], up, mid) /\ StraysHold(M, V \ {x}, gen'[p], up, S, mid)
    <2>1. ListsHold(M, gen[p], up, mid) /\ Stamped(M, gen[p]) /\ x \notin M /\ StraysHold(M, V, gen[p], up, S, mid)
      BY <1>6, <1>20
    <2> HIDE DEF M, V, S, up, mid
    <2> QED
      BY <1>1, <1>2, <1>6, <1>7, <2>1, BuriedPool
  <1>10. /\ Lists(p)' = mid /\ parent'[p] = up
         /\ \A r \in Pools : r # p => children'[r] = children[r] /\ roots'[r] = roots[r]
         /\ children' \in [Pools -> [Slots -> Seq(Ids)]] /\ roots' \in [Pools -> Seq(Ids)]
    <2>1. parent' = [parent EXCEPT ![p] = up] /\ SetLists(p, mid)
      BY <1>2 DEF PoolsTyped
    <2>2. up \in [Slots -> Ids \cup {NoId}] /\ mid \in AllLists /\ PoolsTyped
      BY <1>1, <1>2, <1>6
    <2> HIDE DEF mid, up
    <2> QED
      BY <2>1, <2>2, TreeValues
  <1>11. /\ uuid' \in [Pools -> [Slots -> Uuids \cup {NoUuid}]]
         /\ byUuid' \in [Pools -> [Uuids -> Ids \cup {NoId}]]
         /\ UuidsHold(M, uuid'[p], byUuid'[p])
         /\ \A r \in Pools : r # p => uuid'[r] = uuid[r] /\ byUuid'[r] = byUuid[r]
    BY UuidDropped
  <1>12. /\ cap' = cap
         /\ \A r \in Pools : r # p => free'[r] = free[r] /\ gen'[r] = gen[r] /\ alive'[r] = alive[r]
         /\ free' \in [Pools -> Seq(Slots)] /\ gen' \in [Pools -> [Slots -> Nat]]
         /\ alive' \in [Pools -> [Slots -> BOOLEAN]]
         /\ SlotsHold(cap'[p], free'[p], alive'[p])
         /\ Live(p)' = Live(p) \ {x} /\ \A r \in Pools : r # p => Live(r)' = Live(r)
         /\ gen'[p] = [gen[p] EXCEPT ![Slot(x)] = @ + 1]
    BY <1>2, BuryFacts
  <1>13. Linked(p)' = M /\ x \notin Leaving(p) /\ Leaving(p)' = Leaving(p)
    <2>1. Live(p)' = Live(p) \ {x} /\ Leaving(p)' = Leaving(p)
      BY <1>12
    <2>2. Linked(p)' = Live(p)' \ Leaving(p)' /\ L = Live(p) \ Leaving(p)
      BY DEF Linked
    <2> QED
      BY <1>2, <2>1, <2>2
  <1>14. PoolOK(p)'
    <2>1. V \ {x} = Leaving(p)' /\ S = strays'[p]
      BY <1>13
    <2> HIDE DEF M, V, S, mid
    <2> QED
      BY <1>7, <1>8, <1>9, <1>10, <1>11, <1>12, <1>13, <2>1 DEF PoolOK
  <1>15. OnlyPool(p)
    BY <1>10, <1>11, <1>12 DEF OnlyPool
  <1>16. /\ \A r \in Pools : PoolOK(r)'
         /\ \A r \in Pools : r # p => Linked(r)' = Linked(r)
    BY <1>14, <1>15, OnePoolChanges, ProperNow
  <1>17. PoolsTyped'
    BY <1>2, <1>10, <1>11, <1>12 DEF PoolsTyped
  <1>18. Died(World, World', p, x)
    <2> DEFINE w == World
               v == World'
    <2>1. /\ w.live[p] = Live(p) /\ v.live[p] = Live(p) \ {x}
          /\ w.leaving[p] = Leaving(p) /\ v.leaving[p] = Leaving(p)
          /\ w.gen = gen /\ v.gen = gen' /\ w.up = parent /\ v.up = parent /\ v.strays = w.strays
      BY <1>12, <1>13, WorldNow
    <2>2. ASSUME NEW r \in Pools, r # p
          PROVE  v.live[r] = w.live[r] /\ v.leaving[r] = w.leaving[r] /\ v.gen[r] = w.gen[r]
      BY <1>12, <2>1, <2>2, WorldNow
    <2>3. v.leaving[p] = w.leaving[p] \ {x}
      BY <1>13, <2>1
    <2> HIDE DEF w, v
    <2>4. Died(w, v, p, x)
      BY <1>12, <2>1, <2>2, <2>3 DEF Died
    <2> QED
      BY <2>4 DEF w, v
  <1>19. SourceDies(p, x)
    BY <1>5, <1>12, <1>13, <1>16 DEF SourceDies
  <1> QED
    BY <1>5, <1>12, <1>13, <1>16, <1>17, <1>18, <1>19

\* What a migration relies on, and what no operation beneath it does.
LEMMA MigrationNow ==
    ASSUME IndInv, frames # <<>>, Top.op = "migrate"
    PROVE  /\ Top.pool \in Pools /\ Top.to \in Pools /\ Top.to # Top.pool
           /\ Top.id \in Linked(Top.pool) /\ Top.copy \in Linked(Top.to)
           /\ parent[Top.to][Slot(Top.copy)] = NoId
           /\ Top.stage = "attach" => /\ Top.old \in Linked(Top.to) /\ Top.old # Top.copy
                                      /\ parent[Top.to][Slot(Top.old)] = NoId
           /\ MigrationOK(World, Top)
           /\ \A r \in Pools : Leaving(r) = LeavingIn(Popped, r)
           /\ \A i \in 1..Len(Popped) :
                /\ Popped[i].op # "destroy" /\ Popped[i].pool = Top.pool => Popped[i].id # Top.id
                /\ Popped[i].op = "migrate" =>
                      /\ Popped[i].pool = Top.pool /\ Popped[i].to = Top.to
                      /\ Popped[i].id # Top.id /\ Popped[i].copy # Top.copy
                /\ Popped[i].op # "destroy" /\ Popped[i].pool = Top.to => Popped[i].id # Top.copy
                /\ Popped[i].op # "destroy" /\ Popped[i].pool = Top.to /\ Top.stage = "attach" =>
                      Popped[i].id # Top.old
                /\ Popped[i].op = "migrate" /\ Top.stage = "attach" => Popped[i].copy # Top.old
  <1>1. /\ Top \in Frames /\ FrameOK(World, Top) /\ Top.pool \in Pools /\ Depth = Len(frames)
        /\ Len(frames) \in Nat \ {0} /\ Top = frames[Depth]
    BY TopNow
  <1>2. /\ Popped \in Seq(Frames) /\ MovesApart(World, frames) /\ Len(Popped) = Depth - 1
        /\ \A i \in 1..Len(Popped) : Popped[i] = frames[i] /\ PairOK(Popped[i], Top)
        /\ \A r \in Pools : Leaving(r) = LeavingIn(Popped, r) \cup {h \in {Top.id} : IsLeaving(Top, r)}
    BY Beneath, ProperNow DEF Proper
  <1>3. MigrationOK(World, Top)
    BY <1>1 DEF FrameOK
  <1>4. /\ Top.to \in Pools /\ Top.to # Top.pool
        /\ Top.id \in InTree(World, Top.pool)
        /\ Top.copy \in InTree(World, Top.to) /\ parent[Top.to][Slot(Top.copy)] = NoId
        /\ Top.stage = "attach" => /\ Top.old \in InTree(World, Top.to) /\ Top.old # Top.copy
                                   /\ parent[Top.to][Slot(Top.old)] = NoId
    BY <1>1, <1>3, WorldNow DEF MigrationOK, RootIn, Up
  <1>5. Apart(World, frames, Top)
    BY <1>1, <1>2 DEF MovesApart
  <1>6. ASSUME NEW i \in 1..Len(Popped)
        PROVE  /\ Popped[i].op # "destroy" /\ Popped[i].pool = Top.pool => Popped[i].id # Top.id
               /\ Popped[i].op = "migrate" =>
                     /\ Popped[i].pool = Top.pool /\ Popped[i].to = Top.to
                     /\ Popped[i].id # Top.id /\ Popped[i].copy # Top.copy
               /\ Popped[i].op # "destroy" /\ Popped[i].pool = Top.to => Popped[i].id # Top.copy
               /\ Popped[i].op # "destroy" /\ Popped[i].pool = Top.to /\ Top.stage = "attach" =>
                     Popped[i].id # Top.old
               /\ Popped[i].op = "migrate" /\ Top.stage = "attach" => Popped[i].copy # Top.old
    <2>1. PairOK(Popped[i], Top) /\ Popped[i] = frames[i] /\ i \in 1..Len(frames)
      BY <1>1, <1>2
    <2>2. Popped[i].pool = Top.pool /\ Popped[i].op \notin {"migrate", "destroy"} => Popped[i].id # Top.id
      BY <1>5, <2>1 DEF Apart
    <2> QED
      BY <2>1, <2>2 DEF PairOK
  <1>7. \A r \in Pools : Leaving(r) = LeavingIn(Popped, r)
    <2>1. \A r \in Pools : ~IsLeaving(Top, r)
      BY DEF IsLeaving
    <2> QED
      BY <1>2, <2>1
  <1>8. Top.id \in Linked(Top.pool) /\ Top.copy \in Linked(Top.to)
        /\ (Top.stage = "attach" => Top.old \in Linked(Top.to))
    BY <1>1, <1>4, WorldNow
  <1> QED
    BY <1>1, <1>3, <1>4, <1>6, <1>7, <1>8

\* The source of a migration dies; one that made it goes on with the copy.
LEMMA MigrateEndKeeps ==
    ASSUME IndInv, MigrateEnd
    PROVE  IndInv' /\ \E p \in Pools : \E x : p = Top.pool /\ x = Top.id /\ SourceDies(p, x)
  <1>a. PICK p, x, q, c : p = Top.pool /\ x = Top.id /\ q = Top.to /\ c = Top.copy
    OBVIOUS
  <1> DEFINE rest == Popped
             f == Last(rest)
             g == [f EXCEPT !.stage = "attach", !.old = c]
  <1>1. /\ frames # <<>> /\ Top.op = "migrate" /\ Top.stage = "children"
        /\ children[p][Slot(x)] = <<>>
        /\ SetLists(p, Without(Lists(p), parent[p][Slot(x)], x, Alive(p, parent[p][Slot(x)])))
        /\ uuid' = [uuid EXCEPT ![p][Slot(x)] = NoUuid]
        /\ byUuid' = [byUuid EXCEPT ![p][uuid[p][Slot(x)]] = NoId]
        /\ Bury(p, Slot(x)) /\ parent' = parent /\ strays' = strays /\ comps' = comps
        /\ frames' = IF Top.made
                     THEN [rest EXCEPT ![Depth - 1] = [rest[Depth - 1] EXCEPT !.stage = "attach", !.old = c]]
                     ELSE rest
    BY <1>a DEF MigrateEnd, At, componentVars
  <1>2. /\ Top \in Frames /\ Depth = Len(frames) /\ Len(frames) \in Nat \ {0}
    BY <1>1, TopNow
  <1>3. /\ rest \in Seq(Frames) /\ StackOK(World, rest) /\ MovesApart(World, rest)
        /\ (rest = <<>> => ~Top.made) /\ Len(rest) = Depth - 1
        /\ (rest # <<>> => NestOK(World, f, Top) /\ f = rest[Len(rest)])
        /\ \A i \in 1..Len(rest) : rest[i] \in Frames
    BY <1>1, Beneath
  <1>4. /\ p \in Pools /\ q \in Pools /\ q # p /\ x \in Linked(p) /\ c \in Linked(q)
        /\ RootIn(World, q, c) /\ c \in Ids
        /\ \A r \in Pools : Leaving(r) = LeavingIn(rest, r)
        /\ \A i \in 1..Len(rest) :
             /\ rest[i].op # "destroy" /\ rest[i].pool = p => rest[i].id # x
             /\ rest[i].op = "migrate" => rest[i].pool = p /\ rest[i].to = q /\ rest[i].copy # c
             /\ rest[i].op # "destroy" /\ rest[i].pool = q => rest[i].id # c
    <2>1. /\ p \in Pools /\ q \in Pools /\ q # p /\ x \in Linked(p) /\ c \in Linked(q)
          /\ MigrationOK(World, Top)
          /\ \A r \in Pools : Leaving(r) = LeavingIn(rest, r)
          /\ \A i \in 1..Len(rest) :
               /\ rest[i].op # "destroy" /\ rest[i].pool = p => rest[i].id # x
               /\ rest[i].op = "migrate" => rest[i].pool = p /\ rest[i].to = q /\ rest[i].copy # c
               /\ rest[i].op # "destroy" /\ rest[i].pool = q => rest[i].id # c
      BY <1>1, <1>a, MigrationNow
    <2>2. c \in Ids
      BY <2>1, FramesNow
    <2> QED
      BY <1>a, <2>1, <2>2 DEF MigrationOK
  <1> HIDE DEF rest, f
  <1>5. CASE Top.made
    <2>1. /\ rest # <<>> /\ f.op = "migrate" /\ f = rest[Len(rest)] /\ f.stage = "children"
          /\ f \in Frames /\ Len(rest) \in 1..Len(rest) /\ Len(rest) \in Nat \ {0}
      BY <1>1, <1>2, <1>3, <1>5, StackParts DEF NestOK
    <2>2. frames' = [rest EXCEPT ![Len(rest)] = g]
      BY <1>1, <1>3, <1>5, <2>1
    <2>3. /\ g \in Frames /\ g.op = "migrate" /\ g.pool = f.pool /\ g.id = f.id /\ g.made = f.made
          /\ g.to = f.to /\ g.copy = f.copy /\ g.stage = "attach" /\ g.old = c
      BY <1>4, <2>1 DEF Frames
    <2> HIDE DEF g
    <2>4. \A i \in 1..(Len(rest) - 1) : PairOK(rest[i], g)
      <3> SUFFICES ASSUME NEW i \in 1..(Len(rest) - 1) PROVE PairOK(rest[i], g)
        OBVIOUS
      <3>1. i \in 1..Len(rest) /\ i < Len(rest)
        BY <2>1
      <3>2. PairOK(rest[i], f)
        BY <1>3, <2>1, <3>1 DEF StackOK
      <3>3. /\ rest[i].op = "migrate" => rest[i].copy # c
            /\ rest[i].op # "destroy" /\ rest[i].pool = q => rest[i].id # c
            /\ f.to = q
        BY <1>4, <2>1, <3>1
      <3> QED
        BY <2>1, <2>3, <3>2, <3>3 DEF PairOK
    <2>5. /\ frames' = Append(Front(rest), g) /\ f = Last(rest)
          /\ \A r \in Pools : LeavingIn(frames', r) = LeavingIn(rest, r)
      <3>1. [rest EXCEPT ![Len(rest)] = g] = Append(Front(rest), g)
        BY <1>3, <2>1, <2>3, StackParts
      <3>2. f = Last(rest)
        BY DEF f
      <3>3. frames' = Append(Front(rest), g)
        BY <2>2, <3>1, Zenon
      <3>4. \A r \in Pools : LeavingIn(Append(Front(rest), g), r) = LeavingIn(rest, r)
        BY <1>3, <2>1, <2>3, <3>2, InsteadLeaves
      <3> QED
        BY ONLY <3>2, <3>3, <3>4, Zenon
    <2>6. \A r \in Pools : Leaving(r)' = Leaving(r)
      BY <1>4, <2>5, WorldNow
    <2>7. /\ PoolsTyped' /\ \A r \in Pools : PoolOK(r)'
          /\ Died(World, World', p, x)
          /\ SourceDies(p, x)
      BY <1>1, <1>4, <2>6, SourceGone
    <2>8. StackOK(World', rest) /\ MovesApart(World', rest)
      <3> DEFINE w == World
                 v == World'
      <3>1. Sane(w) /\ StackOK(w, rest) /\ MovesApart(w, rest) /\ Died(w, v, p, x) /\ x \in w.live[p]
        BY <1>3, <1>4, <2>7, WorldNow, WorldIsSane, FramesNow DEF IndInv
      <3>2. \A i \in 1..Len(rest) : rest[i].op = "migrate" => rest[i].to # p
        BY <1>4
      <3> HIDE DEF w, v
      <3>3. StackOK(v, rest) /\ MovesApart(v, rest)
        BY <1>3, <1>4, <3>1, <3>2, DeathSeen
      <3> QED
        BY <3>3 DEF v
    <2>9. frames' \in Seq(Frames) /\ StackOK(World', frames') /\ MovesApart(World', frames')
      <3> DEFINE v == World'
      <3>1. FrameOK(v, g)
        <4>1. FrameOK(v, f)
          BY <2>1, <2>8 DEF StackOK
        <4>2. MigrationOK(v, f) /\ f.to = q /\ f.copy # c /\ f.id \in v.live[f.pool]
          BY <1>4, <2>1, <4>1 DEF FrameOK
        <4>3. RootIn(v, q, c)
          <5>1. /\ v.live[q] = World.live[q] /\ v.leaving[q] = World.leaving[q]
                /\ v.up[q][Slot(c)] = World.up[q][Slot(c)]
            BY <1>4, <2>7 DEF Died
          <5> QED
            BY <1>4, <5>1 DEF RootIn, InTree, Up
        <4>4. MigrationOK(v, g)
          BY <1>4, <2>3, <4>2, <4>3 DEF MigrationOK
        <4> QED
          BY <2>3, <4>2, <4>4 DEF FrameOK
      <3>2. StackOK(v, rest) /\ MovesApart(v, rest) /\ f = Last(rest)
        BY <2>5, <2>8
      <3> HIDE DEF v
      <3>3. /\ Append(Front(rest), g) \in Seq(Frames) /\ StackOK(v, Append(Front(rest), g))
            /\ MovesApart(v, Append(Front(rest), g))
        BY <1>3, <2>1, <2>3, <2>4, <3>1, <3>2, Instead
      <3> QED
        BY <2>5, <3>3, Zenon DEF v
    <2>10. ComponentsTyped'
      BY <1>1, ProperNow DEF ComponentsTyped
    <2> QED
      BY <1>a, <1>4, <2>7, <2>9, <2>10, PutTogether
  <1>6. CASE ~Top.made
    <2>1. frames' = rest
      BY <1>1, <1>6
    <2>2. \A r \in Pools : Leaving(r)' = Leaving(r)
      BY <1>4, <2>1, WorldNow
    <2>3. /\ PoolsTyped' /\ \A r \in Pools : PoolOK(r)'
          /\ Died(World, World', p, x)
          /\ SourceDies(p, x)
      BY <1>1, <1>4, <2>2, SourceGone
    <2>4. StackOK(World', rest) /\ MovesApart(World', rest)
      <3> DEFINE w == World
                 v == World'
      <3>1. Sane(w) /\ StackOK(w, rest) /\ MovesApart(w, rest) /\ Died(w, v, p, x) /\ x \in w.live[p]
        BY <1>3, <1>4, <2>3, WorldNow, WorldIsSane, FramesNow DEF IndInv
      <3>2. \A i \in 1..Len(rest) : rest[i].op = "migrate" => rest[i].to # p
        BY <1>4
      <3> HIDE DEF w, v
      <3>3. StackOK(v, rest) /\ MovesApart(v, rest)
        BY <1>3, <1>4, <3>1, <3>2, DeathSeen
      <3> QED
        BY <3>3 DEF v
    <2>5. ComponentsTyped'
      BY <1>1, ProperNow DEF ComponentsTyped
    <2> QED
      BY <1>a, <1>3, <1>4, <2>1, <2>3, <2>4, <2>5, PutTogether
  <1> QED
    BY <1>5, <1>6

\* A migration that has begun another one waits for a child.
LEMMA WaitsForChild ==
    ASSUME NEW w, NEW fs \in Seq(Frames), StackOK(w, fs), NEW i \in 1..(Len(fs) - 1),
           fs[i].op = "migrate"
    PROVE  fs[i].stage = "children" /\ fs[i + 1].made /\ Up(w, fs[i].pool, fs[i + 1].id) = fs[i].id
  <1>1. FrameOK(w, fs[i]) /\ NestOK(w, fs[i], fs[i + 1])
    BY DEF StackOK
  <1>2. fs[i].stage \in {"begin", "children", "attach"}
    BY <1>1 DEF FrameOK, MigrationOK
  <1> QED
    BY <1>1, <1>2 DEF NestOK, Callbacks

\* The copy of a child goes under the copy of its parent.
LEMMA MigrateAttachKeeps ==
    ASSUME IndInv, MigrateAttach
    PROVE  IndInv' /\ \E q \in Pools : \E k, c : GoesUnder(q, k, c)
  <1>a. PICK p, x, q, c, k : p = Top.pool /\ x = Top.id /\ q = Top.to /\ c = Top.copy /\ k = Top.old
    OBVIOUS
  <1> DEFINE rest == Popped
             g == [Top EXCEPT !.stage = "children", !.old = NoId]
  <1>1. /\ frames # <<>> /\ Top.op = "migrate" /\ Top.stage = "attach"
        /\ SetLists(q, Under(Without(Lists(q), NoId, k, FALSE), c, k))
        /\ parent' = [parent EXCEPT ![q][Slot(k)] = c]
        /\ frames' = [frames EXCEPT ![Depth] = g]
        /\ UNCHANGED <<slotVars, uuidVars>> /\ strays' = strays /\ comps' = comps
    BY <1>a DEF MigrateAttach, At, Became, componentVars
  <1>2. /\ Top \in Frames /\ Depth = Len(frames) /\ Len(frames) \in Nat \ {0} /\ Top = Last(frames)
        /\ frames \in Seq(Frames) /\ StackOK(World, frames) /\ MovesApart(World, frames)
        /\ Top = frames[Depth]
    BY <1>1, TopNow, ProperNow DEF Proper
  <1>3. /\ rest \in Seq(Frames) /\ StackOK(World, rest) /\ MovesApart(World, rest)
        /\ (rest = <<>> => ~Top.made) /\ Len(rest) = Depth - 1 /\ rest = Front(frames)
        /\ (rest # <<>> => NestOK(World, Last(rest), Top) /\ Last(rest) = rest[Len(rest)])
        /\ \A i \in 1..Len(rest) : rest[i] \in Frames /\ rest[i] = frames[i] /\ PairOK(rest[i], Top)
        /\ \A h \in Frames : [frames EXCEPT ![Depth] = h] = Append(rest, h)
    BY <1>1, Beneath
  <1>4. /\ p \in Pools /\ q \in Pools /\ q # p /\ x \in Linked(p) /\ c \in Linked(q) /\ k \in Linked(q)
        /\ k # c /\ parent[q][Slot(c)] = NoId /\ parent[q][Slot(k)] = NoId
        /\ MigrationOK(World, Top)
        /\ \A r \in Pools : Leaving(r) = LeavingIn(rest, r)
        /\ \A i \in 1..Len(rest) :
             /\ rest[i].op = "migrate" => rest[i].pool = p /\ rest[i].copy # k
             /\ rest[i].op # "destroy" /\ rest[i].pool = q => rest[i].id # k
    BY <1>1, <1>a, MigrationNow
  <1>5. /\ g \in Frames /\ g.op = "migrate" /\ g.stage = "children" /\ g.pool = p /\ g.id = x
        /\ g.to = q /\ g.copy = c /\ g.made = Top.made
    BY <1>1, <1>2, <1>a DEF Frames
  <1> HIDE DEF rest, g
  <1>6. frames' = Append(rest, g)
    BY <1>1, <1>3, <1>5
  <1>7. \A r \in Pools : Leaving(r)' = Leaving(r)
    <2> TAKE r \in Pools
    <2>1. LeavingIn(Append(rest, g), r) = LeavingIn(frames, r)
      BY <1>1, <1>2, <1>3, <1>5, InsteadLeaves
    <2>2. Leaving(r)' = LeavingIn(frames', r) /\ Leaving(r) = LeavingIn(frames, r)
      BY WorldNow
    <2> QED
      BY ONLY <1>6, <2>1, <2>2, Zenon
  <1>8. /\ PoolsTyped' /\ \A r \in Pools : PoolOK(r)'
        /\ Sane(World) /\ Reparented(World, World', q, k)
        /\ \A r \in Pools : Linked(r)' = Linked(r) /\ Live(r)' = Live(r)
    <2>1. NoId \notin Linked(q)
      BY <1>4, FramesNow
    <2>2. \E C : /\ c \in C /\ k \notin C
                 /\ \A y \in C \cap Linked(q) :
                      parent[q][Slot(y)] \in Linked(q) => parent[q][Slot(y)] \in C
      <3>1. c \in {c} /\ k \notin {c}
        BY <1>4
      <3>2. \A y \in {c} \cap Linked(q) : parent[q][Slot(y)] \notin Linked(q)
        BY <1>4, <2>1
      <3> QED
        BY <3>1, <3>2
    <2>3. parent[q][Slot(k)] = NoId /\ ~(NoId # NoId /\ FALSE) /\ FALSE \in BOOLEAN
      BY <1>4
    <2>4. c \in Linked(q) \cup {NoId} /\ k \in Linked(q) /\ q \in Pools
          /\ NoId \in Linked(q) \cup {NoId}
      BY <1>4
    <2>5. /\ strays' \in [Pools -> SUBSET Ids]
          /\ \A r \in Pools : strays[r] \subseteq strays'[r] /\ (r # q => strays'[r] = strays[r])
      BY <1>1, ProperNow DEF PoolsTyped
    <2> QED
      BY <1>1, <1>7, <2>2, <2>3, <2>4, <2>5, ReparentFacts
  <1>9. \A i \in 1..Len(rest) : rest[i].op = "migrate" =>
           rest[i].pool # q /\ rest[i].copy # k /\ rest[i].stage # "attach"
    <2> SUFFICES ASSUME NEW i \in 1..Len(rest), rest[i].op = "migrate"
                 PROVE  rest[i].pool # q /\ rest[i].copy # k /\ rest[i].stage # "attach"
      OBVIOUS
    <2>1. i \in 1..(Len(frames) - 1) /\ frames[i].op = "migrate" /\ frames[i] = rest[i]
      BY <1>2, <1>3
    <2>2. frames[i].stage = "children"
      BY <1>2, <2>1, WaitsForChild
    <2> QED
      BY <1>4, <2>1, <2>2
  <1>10. StackOK(World', rest)
    <2> DEFINE w == World
               v == World'
    <2>1. Sane(w) /\ StackOK(w, rest) /\ MovesApart(w, rest) /\ Reparented(w, v, q, k) /\ k \in w.live[q]
      BY <1>3, <1>4, <1>8, FramesNow
    <2>2. \A i \in 1..Len(rest) :
             rest[i].op = "free" /\ rest[i].pool = q /\ rest[i].id = k => k \in v.strays[q]
      BY <1>4
    <2> HIDE DEF w, v
    <2>3. StackOK(v, rest)
      BY <1>3, <1>4, <1>9, <2>1, <2>2, ReparentingUnseen
    <2> QED
      BY <2>3 DEF v
  <1>11. /\ \A r \in Pools : InTree(World', r) = InTree(World, r)
         /\ \A r \in Pools : (World').live[r] = World.live[r]
         /\ \A r \in Pools : r # q => (World').up[r] = World.up[r]
         /\ (World').up[q][Slot(c)] = NoId
    <2>1. \A r \in Pools : InTree(World', r) = InTree(World, r) /\ (World').live[r] = World.live[r]
      BY <1>8, WorldNow
    <2>2. World.up = parent /\ (World').up = parent'
      BY <1>4, WorldNow
    <2>3. PoolsTyped
      BY ProperNow
    <2>4. \A r \in Pools : r # q => parent'[r] = parent[r]
      BY <1>1, <2>3 DEF PoolsTyped
    <2>5. parent'[q] = [parent[q] EXCEPT ![Slot(k)] = c] /\ parent[q] \in [Slots -> Ids \cup {NoId}]
      BY <1>1, <1>4, <2>3 DEF PoolsTyped
    <2>6. Slot(c) # Slot(k) /\ Slot(c) \in Slots
      <3> DEFINE L == Linked(q)
                 h == gen[q]
      <3>1. h \in [Slots -> Nat] /\ Stamped(L, h) /\ c \in L /\ k \in L
        BY <1>4, OnePool
      <3> HIDE DEF L, h
      <3>2. /\ \A y, z \in L : Slot(y) = Slot(z) => y = z
            /\ \A y \in L : Slot(y) \in Slots
        BY <3>1, StampedFacts
      <3> QED
        BY <1>4, <3>1, <3>2
    <2> QED
      BY <1>4, <2>1, <2>2, <2>4, <2>5, <2>6
  <1>12. FrameOK(World', g)
    <2> DEFINE w == World
               v == World'
    <2>1. x \in v.live[p]
      BY <1>4, <1>8, WorldNow, FramesNow
    <2>2. MigrationOK(w, Top) /\ InTree(v, p) = InTree(w, p) /\ InTree(v, q) = InTree(w, q)
          /\ v.up[q][Slot(c)] = NoId
      BY <1>4, <1>11
    <2> HIDE DEF w, v
    <2>3. MigrationOK(v, g)
      BY <1>4, <1>5, <1>a, <2>2 DEF MigrationOK, RootIn, Up
    <2>4. FrameOK(v, g)
      BY <1>5, <2>1, <2>3 DEF FrameOK
    <2> QED
      BY <2>4 DEF v
  <1>13. rest # <<>> => NestOK(World', Last(rest), g)
    <2> SUFFICES ASSUME rest # <<>> PROVE NestOK(World', Last(rest), g)
      OBVIOUS
    <2> DEFINE w == World
               v == World'
               f == Last(rest)
    <2>1. NestOK(w, f, Top) /\ (f.op = "migrate" => f.pool = p)
      <3>1. Len(rest) \in 1..Len(rest)
        BY <1>3, StackParts
      <3> QED
        BY <1>3, <1>4, <3>1
    <2>2. \A y : Up(v, p, y) = Up(w, p, y)
      BY <1>4, <1>11 DEF Up
    <2> HIDE DEF w, v, f
    <2>3. NestOK(v, f, g)
      BY <1>1, <1>5, <1>a, <2>1, <2>2 DEF NestOK
    <2> QED
      BY <2>3 DEF v, f
  <1>14. \A i \in 1..Len(rest) : PairOK(rest[i], g)
    <2> SUFFICES ASSUME NEW i \in 1..Len(rest) PROVE PairOK(rest[i], g)
      OBVIOUS
    <2>1. PairOK(rest[i], Top)
      BY <1>3
    <2> QED
      BY <1>1, <1>5, <1>a, <2>1 DEF PairOK
  <1>15. Append(rest, g) \in Seq(Frames) /\ StackOK(World', Append(rest, g))
    <2> DEFINE v == World'
    <2>1. StackOK(v, rest) /\ FrameOK(v, g) /\ (rest # <<>> => NestOK(v, Last(rest), g))
      BY <1>10, <1>12, <1>13
    <2> HIDE DEF v
    <2>2. Append(rest, g) \in Seq(Frames) /\ StackOK(v, Append(rest, g))
      BY <1>3, <1>5, <1>14, <2>1, StackPush
    <2> QED
      BY <2>2 DEF v
  <1>16. MovesApart(World', Append(rest, g))
    <2> DEFINE w == World
               v == World'
               hs == Append(rest, g)
    <2>1. Len(hs) = Len(frames) /\ hs[Len(frames)] = g /\ \A i \in 1..Len(rest) : hs[i] = rest[i]
      BY <1>2, <1>3
    <2>2. ASSUME NEW i \in 1..Len(hs)
          PROVE  /\ hs[i] \in Frames
                 /\ hs[i].op = "migrate" => hs[i].pool = p
                 /\ \E j \in 1..Len(frames) : /\ frames[j].op = hs[i].op /\ frames[j].pool = hs[i].pool
                                              /\ frames[j].id = hs[i].id
      <3>1. CASE i = Len(frames)
        <4>1. hs[i] = g /\ frames[i] = Top /\ i \in 1..Len(frames)
          BY <1>2, <2>1, <3>1
        <4> QED
          BY <1>1, <1>5, <1>a, <4>1
      <3>2. CASE i # Len(frames)
        <4>1. i \in 1..Len(rest) /\ i \in 1..Len(frames) /\ hs[i] = rest[i]
          BY <1>2, <1>3, <2>1, <3>2
        <4> QED
          BY <1>3, <1>4, <4>1
      <3> QED
        BY <3>1, <3>2
    <2>3. v.live[p] = w.live[p] /\ v.up[p] = w.up[p] /\ MovesApart(w, frames)
      BY <1>2, <1>4, <1>11
    <2> HIDE DEF w, v, hs
    <2>4. MovesApart(v, hs)
      BY <2>2, <2>3, MovesElsewhere
    <2> QED
      BY <2>4 DEF v, hs
  <1>17. ComponentsTyped'
    BY <1>1, ProperNow DEF ComponentsTyped
  <1>18. GoesUnder(q, k, c)
    <2>1. NoId \notin Linked(q)
      BY <1>4, FramesNow
    <2> QED
      BY <1>1, <1>4, <1>7, <1>8, <2>1 DEF GoesUnder, slotVars
  <1> QED
    BY <1>4, <1>6, <1>8, <1>15, <1>16, <1>17, <1>18, PutTogether

\* One more migration, of an entity nothing in progress works beneath.
LEMMA OneMoveMore ==
    ASSUME NEW w, NEW fs \in Seq(Frames), MovesApart(w, fs),
           NEW g \in Frames, g.op = "migrate", Apart(w, fs, g)
    PROVE  MovesApart(w, Append(fs, g))
  <1> DEFINE hs == Append(fs, g)
  <1>1. /\ Len(hs) = Len(fs) + 1 /\ hs[Len(fs) + 1] = g
        /\ \A i \in 1..Len(fs) : hs[i] = fs[i]
        /\ Len(fs) \in Nat
    OBVIOUS
  <1> HIDE DEF hs
  <1>2. \A i \in 1..Len(hs) : i = Len(fs) + 1 \/ i \in 1..Len(fs)
    BY <1>1
  <1>3. ASSUME NEW f, Apart(w, fs, f) PROVE Apart(w, hs, f)
    <2>1. PICK C \in SUBSET w.live[f.pool] :
             /\ f.id \in C
             /\ \A x \in w.live[f.pool] : Up(w, f.pool, x) \in C => x \in C
             /\ \A i \in 1..Len(fs) :
                  fs[i].pool = f.pool /\ fs[i].op \notin {"migrate", "destroy"} => fs[i].id \notin C
      BY <1>3 DEF Apart
    <2>2. \A i \in 1..Len(hs) :
             hs[i].pool = f.pool /\ hs[i].op \notin {"migrate", "destroy"} => hs[i].id \notin C
      BY <1>1, <1>2, <2>1
    <2> QED
      BY <2>1, <2>2 DEF Apart
  <1>4. \A i \in 1..Len(hs) : hs[i].op = "migrate" => Apart(w, fs, hs[i])
    BY <1>1, <1>2 DEF MovesApart
  <1> QED
    BY <1>3, <1>4 DEF MovesApart, hs

\* The slot of the next entity, and its id.
LEMMA NextSlotFacts ==
    ASSUME IndInv, NEW q \in Pools, MayCreate(q)
    PROVE  NextSlot(q) \in Slots /\ NextId(q) \in Ids
  <1> DEFINE c == cap[q]
             f == free[q]
             a == alive[q]
             st == Stack(q)
             c2 == IF f = <<>> THEN 2 * c ELSE c
  <1>1. /\ c \in 1..MaxSlots /\ f \in Seq(Slots) /\ a \in [Slots -> BOOLEAN]
        /\ SlotsHold(c, f, a) /\ gen[q] \in [Slots -> Nat]
    BY OnePool
  <1>2. f = <<>> => 2 * c <= MaxSlots
    BY DEF MayCreate
  <1>3. st = IF f = <<>> THEN [i \in 1..c |-> 2 * c - i] ELSE f
    BY DEF Stack, Grown
  <1>4. c2 = IF f = <<>> THEN 2 * c ELSE c
    OBVIOUS
  <1> HIDE DEF c, f, a, st, c2
  <1>5. Last(st) \in Slots
    BY <1>1, <1>2, <1>3, <1>4, SlotTaken
  <1>6. NextSlot(q) \in Slots
    BY <1>5 DEF NextSlot, st
  <1> QED
    BY <1>1, <1>6 DEF NextId, IdAt, Ids

\* The source, the copy and the frame of a migration that begins: what the
\* callers of Allocate in tc_entity_pool_migrate have in common.
LEMMA MigrationBegins ==
    ASSUME IndInv, NEW p \in Pools, NEW q \in Pools, p # q, NEW x \in Linked(p),
           MayCreate(q), byUuid[q][uuid[p][Slot(x)]] = NoId, Allocate(q, uuid[p][Slot(x)]),
           NEW isChild \in BOOLEAN, frames' = Pushed(MigrateFrame(p, x, q, isChild)),
           frames = <<>> => ~isChild,
           frames # <<>> => NestOK(World, Last(frames), MigrateFrame(p, x, q, isChild)),
           \A i \in 1..Len(frames) : frames[i].op = "migrate" =>
              isChild /\ frames[i].pool = p /\ frames[i].to = q /\ frames[i].id # x,
           Apart(World, frames, MigrateFrame(p, x, q, isChild))
    PROVE  IndInv' /\ Enters(q, NextId(q))
  <1> DEFINE u == uuid[p][Slot(x)]
             g == MigrateFrame(p, x, q, isChild)
  <1>1. u \in Uuids
    BY OnePool DEF UuidsHold
  <1>2. /\ frames \in Seq(Frames) /\ frames' = Append(frames, g)
        /\ \A i \in 1..Len(frames) : FrameOK(World, frames[i]) /\ frames[i] \in Frames
    BY ProperNow DEF Proper, StackOK, Pushed
  <1>3. NextSlot(q) \in Slots /\ NextId(q) \in Ids
    BY NextSlotFacts
  <1>4. /\ g \in Frames /\ g.op = "migrate" /\ g.stage = "begin" /\ g.pool = p /\ g.id = x
        /\ g.to = q /\ g.copy = NextId(q) /\ g.made = isChild
    <2>1. x \in Ids
      BY FramesNow
    <2> QED
      BY <1>3, <2>1 DEF Frames, MigrateFrame, Frame
  <1>5. \A r \in Pools : Leaving(r)' = Leaving(r)
    <2> TAKE r \in Pools
    <2>1. LeavingIn(Append(frames, g), r) = LeavingIn(frames, r) \cup {h \in {g.id} : IsLeaving(g, r)}
      BY <1>2, <1>4, LeavingFacts
    <2>2. ~IsLeaving(g, r)
      BY <1>4 DEF IsLeaving
    <2>3. Leaving(r)' = LeavingIn(frames', r) /\ Leaving(r) = LeavingIn(frames, r)
      BY WorldNow
    <2>4. LeavingIn(Append(frames, g), r) = LeavingIn(frames, r)
      BY <2>1, <2>2
    <2> QED
      BY ONLY <1>2, <2>3, <2>4, Zenon
  <1>6. /\ PoolsTyped' /\ comps' \in [Pools -> [Slots -> Seq(Components)]]
        /\ \A r \in Pools : PoolOK(r)'
        /\ NextId(q) \in Ids /\ NextId(q) \notin Live(q)
        /\ Live(q)' = Live(q) \cup {NextId(q)}
        /\ Linked(q)' = Linked(q) \cup {NextId(q)}
        /\ \A r \in Pools : r # q => Live(r)' = Live(r) /\ Linked(r)' = Linked(r)
        /\ gen' = gen
        /\ parent'[q] = [parent[q] EXCEPT ![Slot(NextId(q))] = NoId]
        /\ \A r \in Pools : r # q => parent'[r] = parent[r]
        /\ \A y \in Live(q) : Slot(y) # Slot(NextId(q))
        /\ StackOK(World', frames) /\ MovesApart(World', frames)
    <2> HIDE DEF u
    <2>1. MayCreate(q) /\ byUuid[q][u] = NoId /\ Allocate(q, u)
      BY DEF u
    <2> QED
      BY <1>1, <1>5, <2>1, AllocateFacts
  <1> HIDE DEF g, u
  <1>7. /\ InTree(World', p) = Linked(p) /\ (World').live[p] = Live(p)
        /\ InTree(World, p) = Linked(p)
        /\ (World').up[p] = World.up[p]
        /\ NextId(q) \in InTree(World', q) /\ (World').up[q][Slot(NextId(q))] = NoId
        /\ World.live[q] = Live(q) /\ InTree(World, q) = Linked(q) /\ World.live[p] = Live(p)
    <2>1. Slot(NextId(q)) \in Slots /\ parent[q] \in [Slots -> Ids \cup {NoId}]
      BY <1>3, OnePool DEF Ids, Slot
    <2> QED
      BY <1>6, <2>1, WorldNow
  <1>8. FrameOK(World', g)
    <2> DEFINE v == World'
    <2>1. x \in v.live[p] /\ x \in InTree(v, p)
      BY <1>7, FramesNow
    <2>2. RootIn(v, q, NextId(q))
      BY <1>7 DEF RootIn, Up
    <2> HIDE DEF v
    <2>3. MigrationOK(v, g)
      BY <1>4, <2>1, <2>2 DEF MigrationOK
    <2>4. FrameOK(v, g)
      BY <1>4, <2>1, <2>3 DEF FrameOK
    <2> QED
      BY <2>4 DEF v
  <1>9. frames # <<>> => NestOK(World', Last(frames), g)
    <2> SUFFICES ASSUME frames # <<>> PROVE NestOK(World', Last(frames), g)
      OBVIOUS
    <2> DEFINE w == World
               v == World'
               f == Last(frames)
    <2>1. NestOK(w, f, g)
      BY DEF g
    <2>2. f.op = "migrate" => f.pool = p
      <3>1. f = frames[Len(frames)] /\ Len(frames) \in 1..Len(frames)
        BY <1>2, StackParts
      <3> QED
        BY <3>1
    <2>3. \A y : Up(v, p, y) = Up(w, p, y)
      BY <1>7 DEF Up
    <2> HIDE DEF w, v, f
    <2>4. NestOK(v, f, g)
      BY <1>4, <2>1, <2>2, <2>3 DEF NestOK
    <2> QED
      BY <2>4 DEF v, f
  <1>10. \A i \in 1..Len(frames) : PairOK(frames[i], g)
    <2> SUFFICES ASSUME NEW i \in 1..Len(frames) PROVE PairOK(frames[i], g)
      OBVIOUS
    <2> DEFINE f == frames[i]
    <2>1. f.op = "migrate" => isChild /\ f.pool = p /\ f.to = q /\ f.id # x
      OBVIOUS
    <2>2. FrameOK(World, f) /\ f \in Frames
      BY <1>2
    <2>3. f.op # "destroy" /\ f.pool = q => f.id # NextId(q)
      BY <1>6, <1>7, <2>2 DEF FrameOK
    <2>4. f.op = "free" /\ f.stage = "published" /\ f.pool = p => f.id # x
      <3>1. f.op = "free" /\ f.stage = "published" /\ f.pool = p => f.id \in Leaving(p)
        BY FramesNow
      <3>2. x \notin Leaving(p)
        BY DEF Linked
      <3> QED
        BY <3>1, <3>2
    <2>5. f.op = "migrate" => f.copy # NextId(q)
      <3> SUFFICES ASSUME f.op = "migrate" PROVE f.copy # NextId(q)
        OBVIOUS
      <3>1. f.copy \in Linked(q)
        BY <1>7, <2>1, <2>2 DEF FrameOK, MigrationOK, RootIn
      <3>2. Linked(q) \subseteq Live(q)
        BY FramesNow
      <3> QED
        BY <1>6, <3>1, <3>2
    <2> HIDE DEF f
    <2>6. PairOK(f, g)
      BY <1>4, <2>1, <2>3, <2>4, <2>5 DEF PairOK
    <2> QED
      BY <2>6 DEF f
  <1>11. Append(frames, g) \in Seq(Frames) /\ StackOK(World', Append(frames, g))
    <2> DEFINE v == World'
    <2>1. /\ StackOK(v, frames) /\ FrameOK(v, g) /\ (frames # <<>> => NestOK(v, Last(frames), g))
          /\ (frames = <<>> => ~g.made)
      BY <1>4, <1>6, <1>8, <1>9
    <2> HIDE DEF v
    <2>2. Append(frames, g) \in Seq(Frames) /\ StackOK(v, Append(frames, g))
      BY <1>2, <1>4, <1>10, <2>1, StackPush
    <2> QED
      BY <2>2 DEF v
  <1>12. MovesApart(World', Append(frames, g))
    <2> DEFINE w == World
               v == World'
    <2>1. Apart(w, frames, g)
      BY DEF g
    <2>2. v.live[p] = w.live[p] /\ \A y : Up(v, p, y) = Up(w, p, y)
      BY <1>7 DEF Up
    <2>3. MovesApart(v, frames)
      BY <1>6
    <2> HIDE DEF w, v
    <2>4. Apart(v, frames, g)
      BY <1>4, <2>1, <2>2 DEF Apart
    <2>5. MovesApart(v, Append(frames, g))
      BY <1>2, <1>4, <2>3, <2>4, OneMoveMore
    <2> QED
      BY <2>5 DEF v
  <1>13. IndInv'
    <2>1. /\ frames' \in Seq(Frames) /\ StackOK(World', frames') /\ MovesApart(World', frames')
          /\ ComponentsTyped'
      BY <1>2, <1>6, <1>11, <1>12 DEF ComponentsTyped
    <2> QED
      BY <1>6, <2>1, PutTogether
  <1>14. Enters(q, NextId(q))
    BY <1>3, <1>5, <1>6, NextIdEnters
  <1> QED
    BY <1>13, <1>14

\* The host begins to move a subtree to another pool.
LEMMA MigrateKeeps ==
    ASSUME IndInv, NEW p \in Pools, NEW x \in Usable(p), NEW q \in Pools, Migrate(p, x, q)
    PROVE  IndInv' /\ Enters(q, NextId(q))
  <1> DEFINE g == MigrateFrame(p, x, q, FALSE)
  <1>1. /\ HostRuns /\ p # q /\ MayCreate(q)
        /\ Subtree(p, x) \cap Busy(p) = {}
        /\ byUuid[q][uuid[p][Slot(x)]] = NoId
        /\ Allocate(q, uuid[p][Slot(x)])
        /\ frames' = Pushed(g)
    BY DEF Migrate, MayBegin
  <1>2. /\ x \in Linked(p) /\ x \in Live(p)
        /\ \A i \in 1..Len(frames) : frames[i].pool = p /\ frames[i].op # "destroy" =>
             frames[i].id \in Busy(p)
    BY FramesNow
  <1>3. \A i \in 1..Len(frames) : frames[i].op # "migrate"
    <2>1. frames \in Seq(Frames) /\ StackOK(World, frames) /\ (frames # <<>> => Last(frames).stage \in Callbacks)
      BY <1>1, ProperNow DEF Proper
    <2> QED
      BY <2>1, NoMigrationUnderHost
  <1>4. g.op = "migrate" /\ g.pool = p /\ g.id = x /\ ~g.made
    BY DEF MigrateFrame, Frame
  <1>5. frames # <<>> => NestOK(World, Last(frames), g)
    BY <1>1, <1>4, ProperNow DEF NestOK
  <1>6. Apart(World, frames, g)
    <2> DEFINE C == Subtree(p, x)
    <2>1. x \in C
      BY <1>2 DEF Subtree, Chain
    <2>2. ASSUME NEW y \in Live(p), parent[p][Slot(y)] \in C
          PROVE  y \in C
      <3> DEFINE z == parent[p][Slot(y)]
      <3>1. z \in Live(p) /\ x \in Chain(p, z) /\ Alive(p, z)
        <4>1. z \in Live(p) /\ x \in Chain(p, z)
          BY <2>2 DEF Subtree
        <4> QED
          BY <4>1, OnePool
      <3>2. ASSUME NEW D \in SUBSET Live(p), y \in D,
                   \A v \in D : Alive(p, parent[p][Slot(v)]) => parent[p][Slot(v)] \in D
            PROVE  x \in D
        <4>1. z \in D
          BY <3>1, <3>2
        <4> HIDE DEF z
        <4> QED
          BY <3>1, <3>2, <4>1 DEF Chain
      <3>3. x \in Chain(p, y)
        BY <1>2, <3>2 DEF Chain
      <3> QED
        BY <3>3 DEF Subtree
    <2>3. ASSUME NEW i \in 1..Len(frames), frames[i].pool = p, frames[i].op \notin {"migrate", "destroy"}
          PROVE  frames[i].id \notin C
      BY <1>1, <1>2, <2>3
    <2>4. World.live[p] = Live(p) /\ \A y : Up(World, p, y) = parent[p][Slot(y)]
      BY WorldNow DEF Up
    <2>5. C \in SUBSET Live(p)
      BY DEF Subtree
    <2> HIDE DEF C, g
    <2> QED
      BY <1>4, <2>1, <2>2, <2>3, <2>4, <2>5 DEF Apart
  <1>7. FALSE \in BOOLEAN
    OBVIOUS
  <1> QED
    BY <1>1, <1>2, <1>3, <1>5, <1>6, <1>7, MigrationBegins

\* The entities of a migration and of those it has begun stand one below the
\* other, and no child of the last is among them.
LEMMA MigrationChain ==
    ASSUME IndInv, frames # <<>>, Top.op = "migrate",
           NEW k \in Linked(Top.pool), parent[Top.pool][Slot(k)] = Top.id,
           NEW m \in 1..Len(frames), frames[m].op = "migrate"
    PROVE  frames[m].id # k
  <1>a. PICK p : p = Top.pool
    OBVIOUS
  <1> DEFINE L == Linked(p)
             up == parent[p]
             S == {frames[j].id : j \in m..Len(frames)}
             n == Len(frames)
  <1> SUFFICES ASSUME frames[m].id = k PROVE FALSE
    OBVIOUS
  <1>1. /\ p \in Pools /\ Depth = n /\ n \in Nat \ {0} /\ Top = frames[n]
        /\ frames \in Seq(Frames) /\ StackOK(World, frames)
    BY <1>a, TopNow, ProperNow DEF Proper
  <1>2. ASSUME NEW j \in m..n
        PROVE  frames[j].op = "migrate" /\ frames[j].pool = p /\ j \in 1..n
    <2>1. j \in 1..n /\ n \in 1..n
      BY <1>1
    <2>2. frames[j].op = "migrate"
      <3>1. CASE j = m
        BY <3>1
      <3>2. CASE j # m
        <4>1. m < j
          BY <3>2
        <4>2. PairOK(frames[m], frames[j])
          BY <1>1, <2>1, <4>1 DEF StackOK
        <4> QED
          BY <4>2 DEF PairOK
      <3> QED
        BY <3>1, <3>2
    <2>3. frames[j].pool = p
      <3>1. CASE j = n
        BY <1>1, <1>a, <3>1
      <3>2. CASE j # n
        <4>1. j < n
          BY <2>1, <3>2
        <4>2. PairOK(frames[j], frames[n])
          BY <1>1, <2>1, <4>1 DEF StackOK
        <4> QED
          BY <1>1, <1>a, <2>2, <4>2 DEF PairOK
      <3> QED
        BY <3>1, <3>2
    <2> QED
      BY <2>1, <2>2, <2>3
  <1>3. ASSUME NEW j \in m..n PROVE frames[j].id \in L
    <2>1. FrameOK(World, frames[j])
      BY <1>1, <1>2 DEF StackOK
    <2>2. frames[j].id \in InTree(World, p)
      BY <1>2, <2>1 DEF FrameOK, MigrationOK
    <2> QED
      BY <1>1, <2>2, WorldNow
  <1>4. ASSUME NEW j \in m..n PROVE up[Slot(frames[j].id)] \in S
    <2>1. CASE j = m
      <3>1. up[Slot(frames[j].id)] = frames[n].id /\ n \in m..n
        BY <1>1, <1>a, <2>1
      <3> QED
        BY <3>1
    <2>2. CASE j # m
      <3>1. j - 1 \in m..n /\ j - 1 \in 1..(n - 1) /\ (j - 1) + 1 = j
        BY <1>1, <2>2
      <3>2. frames[j - 1].op = "migrate" /\ frames[j - 1].pool = p
        BY <1>2, <3>1
      <3>3. Up(World, frames[j - 1].pool, frames[(j - 1) + 1].id) = frames[j - 1].id
        BY <1>1, <3>1, <3>2, WaitsForChild
      <3>4. up[Slot(frames[j].id)] = frames[j - 1].id
        BY <1>1, <3>1, <3>2, <3>3, WorldNow DEF Up
      <3> QED
        BY <3>1, <3>4
    <2> QED
      BY <2>1, <2>2
  <1>5. NoCycle(L, up) /\ NoId \notin L
    BY <1>1, OnePool, FramesNow
  <1>6. S # {} /\ \A y \in S : y \in L /\ up[Slot(y)] \in S
    <2>1. m \in m..n
      BY <1>1
    <2> QED
      BY <1>3, <1>4, <2>1
  <1>7. S \in SUBSET {y \in L : up[Slot(y)] # NoId}
    BY <1>5, <1>6
  <1> HIDE DEF L, up, S
  <1> QED
    BY <1>5, <1>6, <1>7 DEF NoCycle

\* A migration begins the one of its first child.
LEMMA MigrateChildKeeps ==
    ASSUME IndInv, MigrateChild
    PROVE  /\ IndInv' /\ \E q \in Pools : q = Top.to /\ Enters(q, NextId(q))
           /\ FirstChild \in Linked(Top.pool) /\ parent[Top.pool][Slot(FirstChild)] = Top.id
  <1>a. PICK p, x, q, k : p = Top.pool /\ x = Top.id /\ q = Top.to /\ k = FirstChild
    OBVIOUS
  <1> DEFINE g == MigrateFrame(p, k, q, TRUE)
  <1>1. /\ frames # <<>> /\ Top.op = "migrate" /\ Top.stage = "children"
        /\ children[p][Slot(x)] # <<>> /\ MayCreate(q)
        /\ byUuid[q][uuid[p][Slot(k)]] = NoId
        /\ Allocate(q, uuid[p][Slot(k)])
        /\ frames' = Pushed(g)
    BY <1>a DEF MigrateChild, At
  <1>2. /\ p \in Pools /\ q \in Pools /\ p # q /\ x \in Linked(p)
        /\ Top = Last(frames) /\ Top = frames[Len(frames)] /\ Len(frames) \in 1..Len(frames)
    <2>1. Len(frames) \in Nat \ {0}
      BY <1>1, TopNow
    <2> QED
      BY <1>1, <1>a, <2>1, MigrationNow, TopNow
  <1>b. PICK C \in SUBSET Live(p) :
           /\ x \in C
           /\ \A y \in Live(p) : parent[p][Slot(y)] \in C => y \in C
           /\ \A i \in 1..Len(frames) :
                frames[i].pool = p /\ frames[i].op \notin {"migrate", "destroy"} => frames[i].id \notin C
    <2>1. Apart(World, frames, Top)
      BY <1>1, <1>2, ProperNow DEF Proper, MovesApart
    <2>2. World.live[p] = Live(p) /\ \A y : Up(World, p, y) = parent[p][Slot(y)]
      BY <1>2, WorldNow DEF Up
    <2> QED
      BY <1>a, <2>1, <2>2 DEF Apart
  <1>3. k \in Linked(p) /\ parent[p][Slot(k)] = x
    <2> DEFINE list == children[p][Slot(x)]
               L == Linked(p)
               V == Leaving(p)
               up == parent[p]
               h == gen[p]
    <2>1. /\ Lists(p) \in AllLists /\ ListsHold(L, h, up, Lists(p))
          /\ StraysHold(L, V, h, up, strays[p], Lists(p))
          /\ Stamped(L, h) /\ h \in [Slots -> Nat]
      BY <1>2, OnePool
    <2>2. x = <<Slot(x), h[Slot(x)]>> /\ Slot(x) \in Slots
      BY <1>2, <2>1, FramesNow DEF Stamped, Ids, Slot
    <2>3. /\ list \in Seq(Ids) /\ ToSet(list) \cap L = {y \in L : up[Slot(y)] = x}
          /\ \A y \in ToSet(list) \ L : StrayAt(V, h, up, strays[p], y, x)
      <3>1. Lists(p).kids[Slot(x)] = list /\ Lists(p).kids \in [Slots -> Seq(Ids)]
        BY <2>1 DEF Lists, AllLists
      <3> HIDE DEF L, V, up, h, list
      <3>2. list \in Seq(Ids)
        BY <2>2, <3>1
      <3>3. /\ ToSet(Lists(p).kids[Slot(x)]) \cap L = {y \in L : up[Slot(y)] = <<Slot(x), h[Slot(x)]>>}
            /\ \A y \in ToSet(Lists(p).kids[Slot(x)]) \ L :
                 StrayAt(V, h, up, strays[p], y, <<Slot(x), h[Slot(x)]>>)
        BY <2>1, <2>2, Zenon DEF ListsHold, StraysHold
      <3> QED
        BY <2>2, <3>1, <3>2, <3>3, Zenon
    <2>4. k = Head(list) /\ list # <<>> /\ Alive(p, k)
      BY <1>1, <1>a, Zenon DEF FirstChild, MigrateChild
    <2>5. Head(list) \in ToSet(list)
      <3> HIDE DEF list
      <3> QED
        BY <2>3, <2>4, HeadFacts
    <2>6. k \in Ids /\ k \in Live(p)
      <3>1. k \in Ids
        <4> HIDE DEF list
        <4> QED
          BY <2>3, <2>4, HeadFacts
      <3>2. \A y \in Ids \cup {NoId} : Alive(p, y) => y \in Live(p)
        BY <1>2, WorldIsSane DEF IndInv
      <3> QED
        BY <2>4, <3>1, <3>2
    <2>7. k \in L
      <3> SUFFICES ASSUME k \notin L PROVE FALSE
        OBVIOUS
      <3>1. k \in V
        BY <2>6 DEF Linked
      <3>2. up[Slot(k)] = x \/ Generation(k) < h[Slot(k)]
        <4> HIDE DEF list, L, V, up, h
        <4> QED
          BY <2>3, <2>4, <2>5 DEF StrayAt
      <3>3. Generation(k) = h[Slot(k)] /\ Slot(k) \in Slots
        BY <2>4, <2>6 DEF Alive, Ids, Slot
      <3>4. k \in C
        BY <1>b, <2>1, <2>6, <3>2, <3>3
      <3>5. \E i \in 1..Len(frames) :
               frames[i].pool = p /\ frames[i].op \notin {"migrate", "destroy"} /\ frames[i].id = k
        <4>1. PICK f \in Running : f.op = "free" /\ f.pool = p /\ f.id = k
          BY <3>1 DEF Leaving
        <4>2. \E i \in 1..Len(frames) : f = frames[i]
          BY <1>2, FramesNow
        <4> QED
          BY <4>1, <4>2
      <3> QED
        BY <1>b, <3>4, <3>5
    <2> QED
      BY <2>3, <2>4, <2>5, <2>7
  <1>4. g.op = "migrate" /\ g.pool = p /\ g.id = k /\ g.made
    BY DEF MigrateFrame, Frame
  <1>5. NestOK(World, Last(frames), g)
    <2>1. Up(World, p, k) = x
      BY <1>2, <1>3, WorldNow DEF Up
    <2> HIDE DEF g
    <2> QED
      BY <1>1, <1>2, <1>4, <1>a, <2>1 DEF NestOK
  <1>6. \A i \in 1..Len(frames) : frames[i].op = "migrate" =>
           frames[i].pool = p /\ frames[i].to = q /\ frames[i].id # k
    <2> SUFFICES ASSUME NEW i \in 1..Len(frames), frames[i].op = "migrate"
                 PROVE  frames[i].pool = p /\ frames[i].to = q /\ frames[i].id # k
      OBVIOUS
    <2>1. frames[i].id # k
      BY <1>1, <1>3, <1>a, MigrationChain
    <2>2. frames[i].pool = p /\ frames[i].to = q
      <3>1. CASE i = Len(frames)
        BY <1>2, <1>a, <3>1
      <3>2. CASE i # Len(frames)
        <4>1. i \in 1..Len(Popped) /\ Popped[i] = frames[i]
          <5>1. Len(Popped) = Depth - 1 /\ Depth = Len(frames) /\ Len(frames) \in Nat \ {0}
            BY <1>1, Beneath, TopNow
          <5>2. i \in 1..Len(Popped)
            BY <3>2, <5>1
          <5> QED
            BY <1>1, <5>2, Beneath
        <4> QED
          BY <1>1, <1>a, <4>1, MigrationNow
      <3> QED
        BY <3>1, <3>2
    <2> QED
      BY <2>1, <2>2
  <1>7. Apart(World, frames, g)
    <2>1. k \in C
      <3>1. k \in Live(p)
        BY <1>2, <1>3, FramesNow
      <3> QED
        BY <1>3, <1>b, <3>1
    <2>2. World.live[p] = Live(p) /\ \A y : Up(World, p, y) = parent[p][Slot(y)]
      BY <1>2, WorldNow DEF Up
    <2> HIDE DEF g
    <2> QED
      BY <1>4, <1>b, <2>1, <2>2 DEF Apart
  <1>8. TRUE \in BOOLEAN /\ (frames = <<>> => ~TRUE)
    BY <1>1
  <1>9. IndInv' /\ Enters(q, NextId(q))
    BY <1>1, <1>2, <1>3, <1>5, <1>6, <1>7, <1>8, MigrationBegins
  <1> QED
    BY <1>2, <1>3, <1>9, <1>a

\* An entry that is not in the tree goes from the head of a list.
LEMMA TailKeepsLists ==
    ASSUME NEW L, NEW V, NEW g \in [Slots -> Nat], NEW up \in [Slots -> Ids \cup {NoId}], NEW S,
           NEW lists \in AllLists, ListsHold(L, g, up, lists), StraysHold(L, V, g, up, S, lists),
           NEW t \in Slots, lists.kids[t] # <<>>, Head(lists.kids[t]) \notin L
    PROVE  /\ [lists EXCEPT !.kids[t] = Tail(@)] \in AllLists
           /\ ListsHold(L, g, up, [lists EXCEPT !.kids[t] = Tail(@)])
           /\ StraysHold(L, V, g, up, S, [lists EXCEPT !.kids[t] = Tail(@)])
  <1> DEFINE list == lists.kids[t]
             rest == Tail(lists.kids[t])
             new == [lists EXCEPT !.kids[t] = rest]
  <1>1. /\ lists.kids \in [Slots -> Seq(Ids)] /\ lists.top \in Seq(Ids)
        /\ lists = [kids |-> lists.kids, top |-> lists.top]
    BY DEF AllLists
  <1>2. /\ \A s \in Slots :
             /\ IsInjective(lists.kids[s])
             /\ ToSet(lists.kids[s]) \cap L = {y \in L : up[Slot(y)] = <<s, g[s]>>}
             /\ <<s, g[s]>> \notin L => lists.kids[s] = <<>>
             /\ \A y \in ToSet(lists.kids[s]) \ L : StrayAt(V, g, up, S, y, <<s, g[s]>>)
        /\ IsInjective(lists.top)
        /\ ToSet(lists.top) \cap L = {y \in L : up[Slot(y)] = NoId}
        /\ \A y \in ToSet(lists.top) \ L : StrayAt(V, g, up, S, y, NoId)
    BY DEF ListsHold, StraysHold
  <1>3. rest \in Seq(Ids) /\ IsInjective(rest) /\ ToSet(rest) = ToSet(list) \ {Head(list)}
    <2>1. list \in Seq(Ids) /\ list # <<>> /\ IsInjective(list)
      BY <1>1, <1>2
    <2> HIDE DEF list
    <2>2. Tail(list) \in Seq(Ids) /\ IsInjective(Tail(list)) /\ ToSet(Tail(list)) = ToSet(list) \ {Head(list)}
      BY <2>1, TailSetFacts
    <2> QED
      BY <2>2 DEF list
  <1> HIDE DEF rest
  <1>4. /\ new \in AllLists /\ new.top = lists.top /\ new.kids[t] = rest
        /\ \A s \in Slots : s # t => new.kids[s] = lists.kids[s]
    BY <1>1, <1>3 DEF AllLists
  <1>5. Head(list) \notin L /\ <<t, g[t]>> \in L
    BY <1>2
  <1> HIDE DEF new, list
  <1>6. ASSUME NEW s \in Slots
        PROVE  /\ IsInjective(new.kids[s])
               /\ ToSet(new.kids[s]) \cap L = {y \in L : up[Slot(y)] = <<s, g[s]>>}
               /\ <<s, g[s]>> \notin L => new.kids[s] = <<>>
               /\ \A y \in ToSet(new.kids[s]) \ L : StrayAt(V, g, up, S, y, <<s, g[s]>>)
    <2>1. CASE s = t
      <3>1. ToSet(rest) \cap L = ToSet(lists.kids[s]) \cap L /\ ToSet(rest) \subseteq ToSet(lists.kids[s])
        BY <1>3, <1>5, <2>1 DEF list
      <3> QED
        BY <1>2, <1>3, <1>4, <1>5, <2>1, <3>1
    <2>2. CASE s # t
      BY <1>2, <1>4, <2>2
    <2> QED
      BY <2>1, <2>2
  <1>7. ListsHold(L, g, up, new) /\ StraysHold(L, V, g, up, S, new)
    BY <1>2, <1>4, <1>6, Zenon DEF ListsHold, StraysHold
  <1> QED
    BY <1>4, <1>7 DEF new, rest

\* A migration drops a child that is dead from the list of the source.
LEMMA MigrateSkipKeeps ==
    ASSUME IndInv, MigrateSkip
    PROVE  IndInv' /\ TreesStand
  <1>a. PICK p, x, k, s : p = Top.pool /\ x = Top.id /\ k = FirstChild /\ s = Slot(x)
    OBVIOUS
  <1> DEFINE L == Linked(p)
             g == gen[p]
             up == parent[p]
             lists == Lists(p)
             V == Leaving(p)
             S == strays[p]
             new == [lists EXCEPT !.kids[s] = Tail(@)]
  <1>1. /\ cap' = cap /\ free' = free /\ gen' = gen /\ alive' = alive
        /\ uuid' = uuid /\ byUuid' = byUuid /\ parent' = parent /\ strays' = strays
        /\ roots' = roots /\ comps' = comps /\ frames' = frames
        /\ children' = [children EXCEPT ![p] = [children[p] EXCEPT ![s] = Tail(children[p][s])]]
        /\ children[p][s] # <<>> /\ ~Alive(p, k) /\ k = Head(children[p][s])
        /\ frames # <<>> /\ Top.op = "migrate" /\ Top.stage = "children"
    <2>1. children' = [children EXCEPT ![p][s] = Tail(@)]
      BY <1>a DEF MigrateSkip
    <2>2. k = Head(children[p][s])
      BY <1>a, Zenon DEF FirstChild
    <2> QED
      BY <1>a, <2>1, <2>2 DEF MigrateSkip, At, slotVars, uuidVars, componentVars
  <1>2. /\ PoolsTyped /\ ComponentsTyped /\ frames \in Seq(Frames)
        /\ StackOK(World, frames) /\ MovesApart(World, frames)
    BY ProperNow DEF Proper
  <1>3. /\ p \in Pools /\ x \in L
    BY <1>1, <1>a, MigrationNow
  <1>4. /\ g \in [Slots -> Nat] /\ up \in [Slots -> Ids \cup {NoId}] /\ lists \in AllLists
        /\ Stamped(L, g) /\ ListsHold(L, g, up, lists) /\ StraysHold(L, V, g, up, S, lists)
        /\ s \in Slots /\ PoolOK(p)
    BY <1>2, <1>3, <1>a, OnePool, ProperNow, FramesNow DEF Ids, Slot
  <1>5. lists.kids = children[p] /\ lists.top = roots[p]
    BY DEF Lists
  <1>6. k \notin L
    <2>1. \A y \in Live(p) : Alive(p, y)
      BY <1>3, OnePool
    <2> QED
      BY <1>1, <2>1 DEF Linked
  <1>7. new \in AllLists /\ ListsHold(L, g, up, new) /\ StraysHold(L, V, g, up, S, new)
    <2>1. lists.kids[s] # <<>> /\ Head(lists.kids[s]) \notin L
      BY <1>1, <1>5, <1>6, Zenon
    <2> HIDE DEF L, V, S, g, up, lists
    <2> QED
      BY <1>4, <2>1, TailKeepsLists
  <1>8. SetLists(p, new)
    <2>1. roots' = [roots EXCEPT ![p] = roots[p]]
      BY <1>1, <1>2 DEF PoolsTyped
    <2>2. new.kids = [children[p] EXCEPT ![s] = Tail(children[p][s])] /\ new.top = roots[p]
      BY <1>4, <1>5 DEF AllLists
    <2> HIDE DEF new
    <2> QED
      BY <1>1, <2>1, <2>2, Zenon DEF SetLists
  <1>9. /\ World' = World
        /\ \A r \in Pools : Live(r)' = Live(r) /\ Leaving(r)' = Leaving(r) /\ Linked(r)' = Linked(r)
    BY <1>1, WorldStands
  <1>10. /\ Lists(p)' = new /\ parent'[p] = up
         /\ \A r \in Pools : r # p => /\ children'[r] = children[r] /\ roots'[r] = roots[r]
                                      /\ parent'[r] = parent[r]
         /\ children' \in [Pools -> [Slots -> Seq(Ids)]] /\ roots' \in [Pools -> Seq(Ids)]
         /\ parent' \in [Pools -> [Slots -> Ids \cup {NoId}]]
    <2>1. parent' = [parent EXCEPT ![p] = up]
      BY <1>1, <1>2 DEF PoolsTyped
    <2> HIDE DEF new, up
    <2> QED
      BY <1>2, <1>3, <1>4, <1>7, <1>8, <2>1, TreeValues
  <1>11. PoolsTyped'
    BY <1>1, <1>2, <1>10 DEF PoolsTyped
  <1>12. PoolOK(p)'
    <2>1. /\ ListsHold(Linked(p)', gen'[p], parent'[p], Lists(p)')
          /\ StraysHold(Linked(p)', Leaving(p)', gen'[p], parent'[p], strays'[p], Lists(p)')
      <3>1. Linked(p)' = L /\ gen'[p] = g /\ Leaving(p)' = V /\ strays'[p] = S
        BY <1>1, <1>3, <1>9
      <3> HIDE DEF L, V, S, g, up, new
      <3> QED
        BY <1>7, <1>10, <3>1
    <2> QED
      BY <1>1, <1>3, <1>4, <1>9, <2>1 DEF PoolOK
  <1>13. OnlyPool(p)
    BY <1>1, <1>10 DEF OnlyPool
  <1>14. \A r \in Pools : PoolOK(r)'
    BY <1>3, <1>9, <1>12, <1>13, OnePoolChanges DEF IndInv
  <1>15. StackOK(World', frames') /\ MovesApart(World', frames') /\ ComponentsTyped' /\ frames' \in Seq(Frames)
    BY <1>1, <1>2, <1>9 DEF ComponentsTyped
  <1>16. TreesStand
    BY <1>1, <1>9 DEF TreesStand
  <1> QED
    BY <1>11, <1>14, <1>15, <1>16, PutTogether

-----------------------------------------------------------------------------
(* The invariant of the pools, of the frames and of the moves. *)

\* The free stack of a new pool has every slot once.
LEMMA NewPoolSlots ==
    LET f == [i \in 1..InitialSlots |-> InitialSlots - i]
    IN  f \in Seq(Slots) /\ SlotsHold(InitialSlots, f, [s \in Slots |-> FALSE])
  <1> DEFINE n == InitialSlots
             f == [i \in 1..n |-> n - i]
             a == [s \in Slots |-> FALSE]
  <1>1. n \in 1..MaxSlots /\ MaxSlots \in Nat \ {0}
    BY PoolAssumption, RowsAssumption
  <1>2. n \in Nat \ {0} /\ \A i \in 1..n : n - i \in Slots /\ f[i] = n - i
    BY <1>1 DEF Slots
  <1>3. f \in Seq(Slots) /\ Len(f) = n /\ DOMAIN f = 1..n
    BY <1>2
  <1>4. IsInjective(f)
    BY <1>2, <1>3 DEF IsInjective
  <1>5. ToSet(f) = {f[i] : i \in 1..n}
    BY <1>3 DEF ToSet
  <1>6. ASSUME NEW s \in 0..(n - 1) PROVE s \in ToSet(f)
    <2>1. n - s \in 1..n /\ f[n - s] = s
      BY <1>2
    <2> QED
      BY <1>5, <2>1
  <1>7. ToSet(f) = 0..(n - 1)
    <2>1. ASSUME NEW s \in ToSet(f) PROVE s \in 0..(n - 1)
      BY <1>2, <1>5
    <2> QED
      BY <1>6, <2>1
  <1>8. \A s \in 0..(n - 1) : s \in Slots /\ ~a[s]
    BY <1>1 DEF Slots
  <1>9. {s \in 0..(n - 1) : ~a[s]} = 0..(n - 1)
    BY <1>8
  <1>10. \A s \in Slots : ~a[s]
    OBVIOUS
  <1> QED
    BY <1>3, <1>4, <1>7, <1>9, <1>10 DEF SlotsHold

\* A new pool is empty.
LEMMA NewPoolOK ==
    ASSUME Init, NEW p \in Pools
    PROVE  PoolOK(p)
  <1>1. \A s \in Slots : alive[p][s] = FALSE
    BY DEF Init
  <1>2. Live(p) = {} /\ Linked(p) = {}
    BY <1>1 DEF Live, Linked
  <1>3. cap[p] = InitialSlots /\ free[p] = [i \in 1..InitialSlots |-> InitialSlots - i]
        /\ alive[p] = [s \in Slots |-> FALSE]
    BY DEF Init
  <1>4. SlotsHold(cap[p], free[p], alive[p])
    BY <1>3, NewPoolSlots, Zenon
  <1>5. UuidsHold(Linked(p), uuid[p], byUuid[p])
    BY <1>2 DEF Init, UuidsHold
  <1>6. Lists(p).top = <<>> /\ \A s \in Slots : Lists(p).kids[s] = <<>>
    BY DEF Init, Lists
  <1>7. IsInjective(<<>>) /\ ToSet(<<>>) = {}
    BY DEF IsInjective, ToSet
  <1>8. ListsHold(Linked(p), gen[p], parent[p], Lists(p))
    BY <1>2, <1>6, <1>7 DEF ListsHold
  <1>9. StraysHold(Linked(p), Leaving(p), gen[p], parent[p], strays[p], Lists(p))
    BY <1>6, <1>7 DEF StraysHold
  <1>10. ParentsHold(Linked(p), parent[p]) /\ NoCycle(Linked(p), parent[p])
    BY <1>2 DEF ParentsHold, NoCycle
  <1> QED
    BY <1>4, <1>5, <1>8, <1>10, <1>9 DEF PoolOK

\* The invariant holds before anything is created.
LEMMA InitHolds == Init => IndInv
  <1> SUFFICES ASSUME Init PROVE IndInv
    OBVIOUS
  <1>1. InitialSlots \in 1..MaxSlots /\ [i \in 1..InitialSlots |-> InitialSlots - i] \in Seq(Slots)
    BY PoolAssumption, NewPoolSlots
  <1>2. PoolsTyped
    BY <1>1 DEF Init, PoolsTyped
  <1>3. comps \in [Pools -> [Slots -> Seq(Components)]]
    BY DEF Init
  <1>4. frames = <<>> /\ frames \in Seq(Frames) /\ Len(frames) = 0
    BY DEF Init
  <1>5. \A i \in 1..Len(frames) : FALSE
    BY <1>4
  <1>6. StackOK(World, frames)
    <2>1. \A i \in 1..(Len(frames) - 1) : FALSE
      BY <1>4
    <2> QED
      BY <1>4, <1>5, <2>1 DEF StackOK
  <1>7. MovesApart(World, frames)
    BY <1>5 DEF MovesApart
  <1> QED
    BY <1>2, <1>3, <1>4, <1>6, <1>7, NewPoolOK DEF IndInv, Typed

(* What a step may do to the trees. *)
TreesChange ==
    \/ TreesStand
    \/ \E p \in Pools : \E x : Enters(p, x)
    \/ \E p \in Pools : \E x, q : GoesUnder(p, x, q)
    \/ \E p \in Pools : \E x : Unlinks(p, x)
    \/ \E p \in Pools : \E x : Dies(p, x)
    \/ \E p \in Pools : \E x : SourceDies(p, x)

(* The invariant is kept, and the trees change as they may. *)
Kept == IndInv' /\ TreesChange

\* Whatever the host begins keeps the invariant.
LEMMA HostKeeps ==
    ASSUME IndInv, Host
    PROVE  Kept
  <1>1. ASSUME NEW p \in Pools, NEW u \in Uuids, Alloc(p, u) PROVE Kept
    BY <1>1, AllocKeeps DEF Kept, TreesChange
  <1>2. ASSUME NEW p \in Pools, DestroyPool(p) PROVE Kept
    BY <1>2, DestroyPoolKeeps DEF Kept, TreesChange
  <1>3. ASSUME NEW p \in Pools, NEW id \in Usable(p), Free(p, id) PROVE Kept
    BY <1>3, FreeKeeps DEF Kept, TreesChange
  <1>4. ASSUME NEW p \in Pools, NEW id \in Usable(p), NEW u \in Uuids, SetUuid(p, id, u) PROVE Kept
    BY <1>4, SetUuidKeeps DEF Kept, TreesChange
  <1>5. ASSUME NEW p \in Pools, NEW id \in Usable(p), NEW q \in Usable(p) \cup {NoId}, SetParent(p, id, q)
        PROVE  Kept
    BY <1>5, SetParentKeeps DEF Kept, TreesChange
  <1>6. ASSUME NEW p \in Pools, NEW id \in Usable(p), NEW k \in 1..MaxSlots, SetSiblingIndex(p, id, k)
        PROVE  Kept
    BY <1>6, SetSiblingIndexKeeps DEF Kept, TreesChange
  <1>7. ASSUME NEW p \in Pools, NEW id \in Usable(p), NEW q \in Pools, Migrate(p, id, q) PROVE Kept
    BY <1>7, MigrateKeeps DEF Kept, TreesChange
  <1>8. ASSUME NEW p \in Pools, NEW id \in Usable(p), ChangeRow(p, id) PROVE Kept
    BY <1>8, ChangeRowKeeps DEF Kept, TreesChange
  <1>9. ASSUME NEW p \in Pools, NEW id \in Usable(p), NEW c \in Components,
               AddComponent(p, id, c) \/ RemoveComponent(p, id, c)
        PROVE  Kept
    BY <1>9, AddComponentKeeps, RemoveComponentKeeps DEF Kept, TreesChange
  <1>10. ASSUME NEW p \in Pools, NEW id \in Usable(p), NEW c \in Components,
                NEW k \in 1..Len(comps[p][Slot(id)]), ReplaceComponent(p, id, k, c)
         PROVE  Kept
    BY <1>10, ReplaceComponentKeeps DEF Kept, TreesChange
  <1>11. ASSUME NEW p \in Pools, NEW id \in Usable(p), NEW c \in Components,
                NEW k \in 1..Len(comps[p][Slot(id)]), SetComponentIndex(p, id, c, k)
         PROVE  Kept
    BY <1>11, SetComponentIndexKeeps DEF Kept, TreesChange
  <1>12. ASSUME NEW c \in Components, CreateComponent(c) \/ TakeReference(c) \/ LetGo(c) PROVE Kept
    BY <1>12, ReferencesKeep DEF Kept, TreesChange
  <1> QED
    BY <1>1, <1>2, <1>3, <1>4, <1>5, <1>6, <1>7, <1>8, <1>9, <1>10, <1>11, <1>12 DEF Host

\* Whatever an operation in progress does next keeps the invariant.
LEMMA ContinueKeeps ==
    ASSUME IndInv, Continue
    PROVE  Kept
  <1>1. CASE \/ SkipRequirement
             \/ \E d \in Components, retains \in BOOLEAN : MakeRequirement(d, retains)
             \/ FailRequirement \/ AddRaw \/ AddReturn
    BY <1>1, SkipRequirementKeeps, MakeRequirementKeeps, FailRequirementKeeps, AddRawKeeps,
       AddReturnKeeps DEF Kept, TreesChange
  <1>2. CASE RemoveReturn \/ RemoveEnd \/ ReplaceReturn \/ ReplaceEnd
    BY <1>2, RemoveReturnKeeps, RemoveEndKeeps, ReplaceReturnKeeps, ReplaceEndKeeps DEF Kept, TreesChange
  <1>3. CASE FreeComponent \/ FreeComponentReturn \/ DestroyNext \/ DestroyEntity
    BY <1>3, FreeComponentKeeps, FreeComponentReturnKeeps, DestroyNextKeeps, DestroyEntityKeeps
       DEF Kept, TreesChange
  <1>4. CASE FreeUnlink \/ FreeEnd
    BY <1>4, FreeUnlinkKeeps, FreeEndKeeps DEF Kept, TreesChange
  <1>5. CASE MigrateComponents \/ MigrateChild \/ MigrateSkip \/ MigrateAbandon
    BY <1>5, MigrateComponentsKeeps, MigrateChildKeeps, MigrateSkipKeeps, MigrateAbandonKeeps
       DEF Kept, TreesChange
  <1>6. CASE MigrateEnd \/ MigrateAttach
    BY <1>6, MigrateEndKeeps, MigrateAttachKeeps DEF Kept, TreesChange
  <1> QED
    BY <1>1, <1>2, <1>3, <1>4, <1>5, <1>6 DEF Continue

\* Every step keeps the invariant.
LEMMA StepKeeps ==
    ASSUME IndInv, [Next]_vars
    PROVE  Kept
  <1>1. CASE Next
    BY <1>1, HostKeeps, ContinueKeeps DEF Next
  <1>2. CASE UNCHANGED vars
    <2>1. SamePools /\ comps' = comps /\ frames' = frames
      BY <1>2 DEF vars, slotVars, uuidVars, treeVars, componentVars, SamePools
    <2>2. ComponentsTyped'
      BY <2>1, ProperNow DEF ComponentsTyped
    <2> QED
      BY <2>1, <2>2, StandsStillKeeps DEF Kept, TreesChange
  <1> QED
    BY <1>1, <1>2

\* The same, for the proof of the theorem.
LEMMA NextKeeps == IndInv /\ [Next]_vars => IndInv'
  <1> QED
    BY StepKeeps DEF Kept

(* In every reachable state the pools are well typed, slots, uuids, lists  *)
(* and trees are exact, and every operation in progress may rely on what   *)
(* it was told when it began.                                              *)
THEOREM InvariantHolds == Spec => []IndInv
  <1> QED
    BY InitHolds, NextKeeps, PTL DEF Spec

-----------------------------------------------------------------------------
(* What the invariant says of a pool, in the terms of its properties. *)

\* The uuids and the entities that have them.
LEMMA UuidsAgree ==
    ASSUME NEW L, NEW u, NEW by \in [Uuids -> Ids \cup {NoId}], UuidsHold(L, u, by), NoId \notin L
    PROVE  {<<u[Slot(x)], x>> : x \in L} = {<<v, by[v]>> : v \in {v \in Uuids : by[v] # NoId}}
  <1> DEFINE A == {<<u[Slot(x)], x>> : x \in L}
             B == {<<v, by[v]>> : v \in {v \in Uuids : by[v] # NoId}}
  <1>1. ASSUME NEW x \in L PROVE <<u[Slot(x)], x>> \in B
    <2>1. u[Slot(x)] \in Uuids /\ by[u[Slot(x)]] = x /\ x # NoId
      BY DEF UuidsHold
    <2> QED
      BY <2>1
  <1>2. ASSUME NEW v \in Uuids, by[v] # NoId PROVE <<v, by[v]>> \in A
    <2>1. by[v] \in L /\ u[Slot(by[v])] = v
      BY <1>2 DEF UuidsHold
    <2> QED
      BY <2>1
  <1>3. A \subseteq B
    BY <1>1
  <1>4. B \subseteq A
    BY <1>2
  <1> QED
    BY <1>3, <1>4

\* The free stack and the uuids are exact.
LEMMA SlotsAreExact == IndInv => SlotsExact
  <1> SUFFICES ASSUME IndInv, NEW p \in Pools
               PROVE  /\ IsInjective(free[p])
                      /\ ToSet(free[p]) = {s \in 0..(cap[p] - 1) : ~alive[p][s]}
                      /\ \A s \in Slots : alive[p][s] => s < cap[p]
                      /\ {<<uuid[p][Slot(id)], id>> : id \in Linked(p)} =
                            {<<u, byUuid[p][u]>> : u \in {u \in Uuids : byUuid[p][u] # NoId}}
    BY DEF SlotsExact
  <1>1. /\ SlotsHold(cap[p], free[p], alive[p])
        /\ UuidsHold(Linked(p), uuid[p], byUuid[p]) /\ byUuid[p] \in [Uuids -> Ids \cup {NoId}]
        /\ Stamped(Linked(p), gen[p]) /\ gen[p] \in [Slots -> Nat]
    BY OnePool
  <1>2. NoId \notin Linked(p)
    BY <1>1, StampedFacts
  <1>3. {<<uuid[p][Slot(id)], id>> : id \in Linked(p)} =
           {<<u, byUuid[p][u]>> : u \in {u \in Uuids : byUuid[p][u] # NoId}}
    BY <1>1, <1>2, UuidsAgree
  <1> QED
    BY <1>1, <1>3 DEF SlotsHold

\* The entities with their parents, and the lists with their entries.
LEMMA ListsAgree ==
    ASSUME NEW L, NEW g \in [Slots -> Nat], Stamped(L, g),
           NEW up \in [Slots -> Ids \cup {NoId}], ParentsHold(L, up),
           NEW lists \in AllLists, ListsHold(L, g, up, lists)
    PROVE  {<<up[Slot(x)], x>> : x \in L} =
              {NoId} \X (ToSet(lists.top) \cap L)
              \cup UNION {{<<s, g[s]>>} \X (ToSet(lists.kids[s]) \cap L) : s \in Slots}
  <1> DEFINE A == {<<up[Slot(x)], x>> : x \in L}
             T == {NoId} \X (ToSet(lists.top) \cap L)
             K(s) == {<<s, g[s]>>} \X (ToSet(lists.kids[s]) \cap L)
             U == UNION {K(s) : s \in Slots}
  <1>1. /\ ToSet(lists.top) \cap L = {x \in L : up[Slot(x)] = NoId}
        /\ \A s \in Slots : ToSet(lists.kids[s]) \cap L = {x \in L : up[Slot(x)] = <<s, g[s]>>}
    BY DEF ListsHold
  <1>2. ASSUME NEW x \in L PROVE <<up[Slot(x)], x>> \in T \cup U
    <2>1. CASE up[Slot(x)] = NoId
      BY <1>1, <2>1
    <2>2. CASE up[Slot(x)] # NoId
      <3>1. up[Slot(x)] \in L
        BY <2>2 DEF ParentsHold
      <3>2. PICK s \in Slots : up[Slot(x)] = <<s, g[s]>>
        BY <3>1, StampedFacts
      <3>3. x \in ToSet(lists.kids[s]) \cap L
        BY <1>1, <3>2
      <3>4. <<up[Slot(x)], x>> \in K(s)
        BY <3>2, <3>3
      <3> QED
        BY <3>4
    <2> QED
      BY <2>1, <2>2
  <1>3. ASSUME NEW e \in T PROVE e \in A
    <2>1. PICK x \in ToSet(lists.top) \cap L : e = <<NoId, x>>
      BY <1>3
    <2> QED
      BY <1>1, <2>1
  <1>4. ASSUME NEW s \in Slots, NEW e \in K(s) PROVE e \in A
    <2>1. PICK x \in ToSet(lists.kids[s]) \cap L : e = <<<<s, g[s]>>, x>>
      BY <1>4
    <2> QED
      BY <1>1, <2>1
  <1>5. A \subseteq T \cup U
    BY <1>2
  <1>6. T \cup U \subseteq A
    BY <1>3, <1>4
  <1> HIDE DEF A, T, U, K
  <1>7. A = T \cup U
    BY <1>5, <1>6
  <1> QED
    BY <1>7 DEF A, T, U, K

\* The parents and the lists of children say the same, dead or leaving entities
\* have no children, and what else a list names was moved while it was freed.
LEMMA ListsAreExact ==
    ASSUME IndInv, NEW p \in Pools
    PROVE  ListsExact(p)
  <1> DEFINE L == Linked(p)
             V == Leaving(p)
             g == gen[p]
             up == parent[p]
             lists == Lists(p)
  <1>1. /\ g \in [Slots -> Nat] /\ up \in [Slots -> Ids \cup {NoId}] /\ lists \in AllLists
        /\ Stamped(L, g) /\ ListsHold(L, g, up, lists) /\ ParentsHold(L, up)
        /\ StraysHold(L, V, g, up, strays[p], lists)
    BY OnePool
  <1>2. /\ lists.kids = children[p] /\ lists.top = roots[p]
        /\ \A s \in Slots : IdAt(p, s) = <<s, g[s]>>
    BY DEF Lists, IdAt
  <1>3. ASSUME NEW s \in Slots, <<s, g[s]>> \notin L PROVE children[p][s] = <<>>
    <2> HIDE DEF L, V, g, up, lists
    <2>1. lists.kids[s] = <<>>
      BY <1>1, <1>3 DEF StraysHold
    <2> QED
      BY <1>2, <2>1
  <1>4. /\ L \subseteq Live(p) /\ V \subseteq Live(p)
        /\ alive[p] \in [Slots -> BOOLEAN] /\ \A x \in Live(p) : alive[p][Slot(x)]
        /\ L = Live(p) \ V
    BY WorldIsSane DEF IndInv, Linked
  <1>5. ASSUME NEW s \in Slots PROVE alive[p][s] \/ children[p][s] = <<>>
    <2>1. Slot(<<s, g[s]>>) = s
      BY DEF Slot
    <2> QED
      BY <1>3, <1>4, <2>1
  <1>6. ASSUME NEW x \in Leaving(p) PROVE children[p][Slot(x)] = <<>>
    <2>1. Stamped(Live(p), g)
      BY OnePool
    <2>2. Slot(x) \in Slots /\ x = <<Slot(x), g[Slot(x)]>>
      BY <1>1, <1>4, <2>1, StampedFacts
    <2> QED
      BY <1>3, <1>4, <2>2
  <1>7. {<<up[Slot(x)], x>> : x \in L} =
           {NoId} \X (ToSet(lists.top) \cap L)
           \cup UNION {{<<s, g[s]>>} \X (ToSet(lists.kids[s]) \cap L) : s \in Slots}
    <2> HIDE DEF L, g, up, lists
    <2> QED
      BY <1>1, ListsAgree
  <1>8. UNION {{<<s, g[s]>>} \X (ToSet(lists.kids[s]) \cap L) : s \in Slots} =
           UNION {{IdAt(p, s)} \X (ToSet(children[p][s]) \cap L) : s \in Slots}
    BY <1>2
  <1>9. {<<up[Slot(x)], x>> : x \in L} =
           {NoId} \X (ToSet(roots[p]) \cap L)
           \cup UNION {{IdAt(p, s)} \X (ToSet(children[p][s]) \cap L) : s \in Slots}
    BY <1>2, <1>7, <1>8
  <1>10. /\ \A s \in Slots : IsInjective(children[p][s])
         /\ IsInjective(roots[p])
    BY <1>1, <1>2 DEF ListsHold
  <1>11. ASSUME NEW x \in Named(p) \ L
         PROVE  x \in strays[p] /\ (x \in V \/ Generation(x) < gen[p][Slot(x)])
    <2>1. x \in ToSet(lists.top) \ L \/ \E s \in Slots : x \in ToSet(lists.kids[s]) \ L
      BY <1>2, <1>11 DEF Named
    <2> HIDE DEF L, V, g, up, lists
    <2>2. \E o : StrayAt(V, g, up, strays[p], x, o)
      BY <1>1, <2>1 DEF StraysHold
    <2>3. x \in strays[p] /\ (x \in V \/ Generation(x) < g[Slot(x)])
      BY <2>2 DEF StrayAt
    <2> QED
      BY <2>3 DEF g
  <1> QED
    BY <1>5, <1>6, <1>9, <1>10, <1>11 DEF ListsExact

\* The trees are exact.
LEMMA ForestIsExact == IndInv => ForestExact
  <1> SUFFICES ASSUME IndInv, NEW p \in Pools PROVE ListsExact(p) /\ Acyclic(p)
    BY DEF ForestExact
  <1>1. NoCycle(Linked(p), parent[p])
    BY OnePool
  <1> QED
    BY <1>1, ListsAreExact DEF Acyclic, NoCycle

(* Every dead slot is on the free stack once and no live one is, so no     *)
(* slot is given to two entities and none is lost; a uuid finds the entity *)
(* that has it, across callbacks, growth, renaming, reuse and migration.   *)
THEOREM SlotsStayExact == Spec => []SlotsExact
  <1> QED
    BY InvariantHolds, SlotsAreExact, PTL

(* Parents and lists of children say the same and no entity is above       *)
(* itself, whatever the callbacks of an operation in progress do, to the   *)
(* entity it works on too; a list names an entity that is dead only when a *)
(* callback moved it while it was freed.                                   *)
THEOREM ForestStaysExact == Spec => []ForestExact
  <1> QED
    BY InvariantHolds, ForestIsExact, PTL

-----------------------------------------------------------------------------
(* The pools do what the hierarchy promises: L and M are the entities in   *)
(* the trees of the pools before and after, up and up2 their parents.      *)

PerPool == [Pools -> SUBSET Ids]

\* The entities of the forest, and what is above one.
LEMMA AboveFacts ==
    ASSUME NEW L \in PerPool, NEW up
    PROVE  /\ \A e : e \in DOMAIN AboveOf(L, up) <=> \E p \in Pools : \E x \in L[p] : e = <<p, x>>
           /\ \A p \in Pools : \A x \in L[p] :
                AboveOf(L, up)[<<p, x>>] =
                   IF up[p][Slot(x)] = NoId THEN NoId ELSE <<p, up[p][Slot(x)]>>
           /\ \A p \in Pools : \A x : <<p, x>> \in DOMAIN AboveOf(L, up) <=> x \in L[p]
  <1> DEFINE D == UNION {{p} \X L[p] : p \in Pools}
  <1>1. DOMAIN AboveOf(L, up) = D
    BY DEF AboveOf
  <1>2. ASSUME NEW e PROVE e \in D <=> \E p \in Pools : \E x \in L[p] : e = <<p, x>>
    <2>1. ASSUME e \in D PROVE \E p \in Pools : \E x \in L[p] : e = <<p, x>>
      <3>1. PICK p \in Pools : e \in {p} \X L[p]
        BY <2>1
      <3>2. e[2] \in L[p] /\ e = <<p, e[2]>>
        BY <3>1
      <3> QED
        BY <3>2
    <2>2. ASSUME NEW p \in Pools, NEW x \in L[p], e = <<p, x>> PROVE e \in D
      <3>1. e \in {p} \X L[p]
        BY <2>2
      <3> QED
        BY <3>1
    <2> QED
      BY <2>1, <2>2
  <1>3. ASSUME NEW p \in Pools, NEW x \in L[p]
        PROVE  AboveOf(L, up)[<<p, x>>] =
                  IF up[p][Slot(x)] = NoId THEN NoId ELSE <<p, up[p][Slot(x)]>>
    <2>1. <<p, x>> \in D
      BY <1>2
    <2> HIDE DEF D
    <2>2. \A e \in D : AboveOf(L, up)[e] =
             IF up[e[1]][Slot(e[2])] = NoId THEN NoId ELSE <<e[1], up[e[1]][Slot(e[2])]>>
      BY DEF AboveOf, D
    <2> QED
      BY <2>1, <2>2
  <1>4. ASSUME NEW p \in Pools, NEW x PROVE <<p, x>> \in D <=> x \in L[p]
    BY <1>2
  <1> QED
    BY <1>1, <1>2, <1>3, <1>4

\* Two forests are the same when they have the same entities, and above each
\* the same.
LEMMA SameAbove ==
    ASSUME NEW L \in PerPool, NEW up, NEW f, DOMAIN f = DOMAIN AboveOf(L, up), f = [e \in DOMAIN f |-> f[e]],
           \A p \in Pools : \A x \in L[p] : f[<<p, x>>] = AboveOf(L, up)[<<p, x>>]
    PROVE  f = AboveOf(L, up)
  <1> DEFINE h == AboveOf(L, up)
  <1>1. h = [e \in DOMAIN h |-> h[e]]
    BY DEF AboveOf
  <1>2. \A e \in DOMAIN h : f[e] = h[e]
    BY AboveFacts
  <1> HIDE DEF h
  <1>3. f = h
    BY <1>1, <1>2 DEF h
  <1> QED
    BY <1>3 DEF h

(* x is new in pool q, and a root. *)
Created(L, up, M, up2, q, x) ==
    /\ x \notin L[q] /\ M[q] = L[q] \cup {x} /\ \A r \in Pools : r # q => M[r] = L[r]
    /\ up2[q][Slot(x)] = NoId
    /\ \A r \in Pools : \A y \in L[r] : up2[r][Slot(y)] = up[r][Slot(y)]

WithRoot(f, id) == [e \in DOMAIN f \cup {id} |-> IF e = id THEN NoId ELSE f[e]]

\* A new root.
LEMMA CreatesAbove ==
    ASSUME NEW L \in PerPool, NEW up, NEW M \in PerPool, NEW up2, NEW q \in Pools, NEW x \in Ids,
           Created(L, up, M, up2, q, x)
    PROVE  /\ AboveOf(M, up2) = WithRoot(AboveOf(L, up), <<q, x>>)
           /\ <<q, x>> \in DOMAIN AboveOf(M, up2) /\ <<q, x>> \notin DOMAIN AboveOf(L, up)
  <1>0. /\ x \notin L[q] /\ M[q] = L[q] \cup {x} /\ \A r \in Pools : r # q => M[r] = L[r]
        /\ up2[q][Slot(x)] = NoId
        /\ \A r \in Pools : \A y \in L[r] : up2[r][Slot(y)] = up[r][Slot(y)]
    BY DEF Created
  <1> DEFINE f == [e \in DOMAIN AboveOf(L, up) \cup {<<q, x>>} |->
                      IF e = <<q, x>> THEN NoId ELSE AboveOf(L, up)[e]]
  <1>1. /\ \A e : e \in DOMAIN AboveOf(L, up) <=> \E p \in Pools : \E y \in L[p] : e = <<p, y>>
        /\ \A e : e \in DOMAIN AboveOf(M, up2) <=> \E p \in Pools : \E y \in M[p] : e = <<p, y>>
        /\ <<q, x>> \notin DOMAIN AboveOf(L, up)
    BY <1>0, AboveFacts
  <1>2. DOMAIN AboveOf(M, up2) = DOMAIN AboveOf(L, up) \cup {<<q, x>>}
    <2>1. ASSUME NEW e
          PROVE  (\E p \in Pools : \E y \in M[p] : e = <<p, y>>)
                    <=> (\E p \in Pools : \E y \in L[p] : e = <<p, y>>) \/ e = <<q, x>>
      BY <1>0
    <2> QED
      BY <1>1, <2>1
  <1>3. ASSUME NEW p \in Pools, NEW y \in M[p] PROVE f[<<p, y>>] = AboveOf(M, up2)[<<p, y>>]
    <2>1. AboveOf(M, up2)[<<p, y>>] = IF up2[p][Slot(y)] = NoId THEN NoId ELSE <<p, up2[p][Slot(y)]>>
      BY AboveFacts
    <2>2. CASE p = q /\ y = x
      BY <1>0, <2>1, <2>2
    <2>3. CASE ~(p = q /\ y = x)
      <3>1. y \in L[p] /\ <<p, y>> # <<q, x>> /\ <<p, y>> \in DOMAIN AboveOf(L, up)
        BY <1>0, <2>3, AboveFacts
      <3>2. f[<<p, y>>] = AboveOf(L, up)[<<p, y>>]
        BY <3>1
      <3>3. AboveOf(L, up)[<<p, y>>] = IF up[p][Slot(y)] = NoId THEN NoId ELSE <<p, up[p][Slot(y)]>>
        BY <3>1, AboveFacts
      <3>4. up2[p][Slot(y)] = up[p][Slot(y)]
        BY <1>0, <3>1
      <3> QED
        BY <2>1, <3>2, <3>3, <3>4
    <2> QED
      BY <2>2, <2>3
  <1>4. DOMAIN f = DOMAIN AboveOf(M, up2) /\ f = [e \in DOMAIN f |-> f[e]]
    BY <1>2
  <1>5. f = WithRoot(AboveOf(L, up), <<q, x>>)
    BY DEF WithRoot
  <1> HIDE DEF f
  <1>6. f = AboveOf(M, up2)
    BY <1>3, <1>4, SameAbove
  <1> QED
    BY <1>1, <1>2, <1>5, <1>6

(* x has gone from pool q, and its children are roots. *)
Removed(L, up, M, up2, q, x) ==
    /\ x \in L[q] /\ M[q] = L[q] \ {x} /\ \A r \in Pools : r # q => M[r] = L[r]
    /\ \A r \in Pools : NoId \notin L[r]
    /\ \A y \in M[q] : up2[q][Slot(y)] = IF up[q][Slot(y)] = x THEN NoId ELSE up[q][Slot(y)]
    /\ \A r \in Pools : r # q => \A y \in L[r] : up2[r][Slot(y)] = up[r][Slot(y)]

WithoutEntity(f, id) == [e \in DOMAIN f \ {id} |-> IF f[e] = id THEN NoId ELSE f[e]]

\* An entity that goes, and leaves its children as roots.
LEMMA RemovesAbove ==
    ASSUME NEW L \in PerPool, NEW up, NEW M \in PerPool, NEW up2, NEW q \in Pools, NEW x,
           NoId \notin Pools \X Ids, Removed(L, up, M, up2, q, x)
    PROVE  /\ AboveOf(M, up2) = WithoutEntity(AboveOf(L, up), <<q, x>>)
           /\ <<q, x>> \notin DOMAIN AboveOf(M, up2) /\ <<q, x>> \in DOMAIN AboveOf(L, up)
  <1>0. /\ x \in L[q] /\ M[q] = L[q] \ {x} /\ \A r \in Pools : r # q => M[r] = L[r]
        /\ \A r \in Pools : NoId \notin L[r]
        /\ \A y \in M[q] : up2[q][Slot(y)] = IF up[q][Slot(y)] = x THEN NoId ELSE up[q][Slot(y)]
        /\ \A r \in Pools : r # q => \A y \in L[r] : up2[r][Slot(y)] = up[r][Slot(y)]
    BY DEF Removed
  <1> DEFINE f == [e \in DOMAIN AboveOf(L, up) \ {<<q, x>>} |->
                      IF AboveOf(L, up)[e] = <<q, x>> THEN NoId ELSE AboveOf(L, up)[e]]
  <1>1. /\ \A e : e \in DOMAIN AboveOf(L, up) <=> \E p \in Pools : \E y \in L[p] : e = <<p, y>>
        /\ \A e : e \in DOMAIN AboveOf(M, up2) <=> \E p \in Pools : \E y \in M[p] : e = <<p, y>>
        /\ <<q, x>> \in DOMAIN AboveOf(L, up)
    BY <1>0, AboveFacts
  <1>2. DOMAIN AboveOf(M, up2) = DOMAIN AboveOf(L, up) \ {<<q, x>>}
    <2>1. ASSUME NEW e
          PROVE  (\E p \in Pools : \E y \in M[p] : e = <<p, y>>)
                    <=> (\E p \in Pools : \E y \in L[p] : e = <<p, y>>) /\ e # <<q, x>>
      BY <1>0
    <2> QED
      BY <1>1, <2>1
  <1>3. ASSUME NEW p \in Pools, NEW y \in M[p] PROVE f[<<p, y>>] = AboveOf(M, up2)[<<p, y>>]
    <2>1. AboveOf(M, up2)[<<p, y>>] = IF up2[p][Slot(y)] = NoId THEN NoId ELSE <<p, up2[p][Slot(y)]>>
      BY AboveFacts
    <2>2. y \in L[p] /\ <<p, y>> # <<q, x>> /\ <<p, y>> \in DOMAIN AboveOf(L, up)
      BY <1>0, AboveFacts
    <2>3. AboveOf(L, up)[<<p, y>>] = IF up[p][Slot(y)] = NoId THEN NoId ELSE <<p, up[p][Slot(y)]>>
      BY <2>2, AboveFacts
    <2>4. f[<<p, y>>] = IF AboveOf(L, up)[<<p, y>>] = <<q, x>> THEN NoId ELSE AboveOf(L, up)[<<p, y>>]
      BY <2>2
    <2>5. p = q => up2[p][Slot(y)] = IF up[p][Slot(y)] = x THEN NoId ELSE up[p][Slot(y)]
      BY <1>0
    <2>6. p # q => up2[p][Slot(y)] = up[p][Slot(y)]
      BY <1>0, <2>2
    <2>7. x # NoId /\ <<q, x>> # NoId
      BY <1>0 DEF PerPool
    <2> HIDE DEF f
    <2> QED
      BY <2>1, <2>3, <2>4, <2>5, <2>6, <2>7
  <1>4. DOMAIN f = DOMAIN AboveOf(M, up2) /\ f = [e \in DOMAIN f |-> f[e]]
    BY <1>2
  <1>5. f = WithoutEntity(AboveOf(L, up), <<q, x>>)
    BY DEF WithoutEntity
  <1> HIDE DEF f
  <1>6. f = AboveOf(M, up2)
    BY <1>3, <1>4, SameAbove
  <1> QED
    BY <1>1, <1>2, <1>5, <1>6

(* Of no entity but x has the parent changed. *)
GoneElsewhere(L, up, up2, p, x) ==
    /\ x \in L[p]
    /\ \A r \in Pools : \A y \in L[r] : r # p \/ y # x => up2[r][Slot(y)] = up[r][Slot(y)]

WithParent(f, id, q) == [f EXCEPT ![id] = q]

\* An entity that goes elsewhere.
LEMMA MovesAbove ==
    ASSUME NEW L \in PerPool, NEW up, NEW up2, NEW p \in Pools, NEW x,
           GoneElsewhere(L, up, up2, p, x)
    PROVE  /\ AboveOf(L, up2) = WithParent(AboveOf(L, up), <<p, x>>, AboveOf(L, up2)[<<p, x>>])
           /\ DOMAIN AboveOf(L, up2) = DOMAIN AboveOf(L, up)
           /\ <<p, x>> \in DOMAIN AboveOf(L, up)
  <1>0. /\ x \in L[p]
        /\ \A r \in Pools : \A y \in L[r] : r # p \/ y # x => up2[r][Slot(y)] = up[r][Slot(y)]
    BY DEF GoneElsewhere
  <1> DEFINE h == AboveOf(L, up)
             to == AboveOf(L, up2)[<<p, x>>]
             f == [h EXCEPT ![<<p, x>>] = to]
  <1>1. DOMAIN h = DOMAIN AboveOf(L, up2) /\ <<p, x>> \in DOMAIN h
    <2>1. /\ \A e : e \in DOMAIN h <=> \E r \in Pools : \E y \in L[r] : e = <<r, y>>
          /\ \A e : e \in DOMAIN AboveOf(L, up2) <=> \E r \in Pools : \E y \in L[r] : e = <<r, y>>
          /\ <<p, x>> \in DOMAIN h
      BY <1>0, AboveFacts
    <2>2. h = [e \in DOMAIN h |-> h[e]] /\ AboveOf(L, up2) = [e \in DOMAIN AboveOf(L, up2) |-> AboveOf(L, up2)[e]]
      BY DEF AboveOf
    <2> QED
      BY <2>1
  <1>2. ASSUME NEW r \in Pools, NEW y \in L[r] PROVE f[<<r, y>>] = AboveOf(L, up2)[<<r, y>>]
    <2>1. /\ AboveOf(L, up2)[<<r, y>>] = IF up2[r][Slot(y)] = NoId THEN NoId ELSE <<r, up2[r][Slot(y)]>>
          /\ h[<<r, y>>] = IF up[r][Slot(y)] = NoId THEN NoId ELSE <<r, up[r][Slot(y)]>>
          /\ <<r, y>> \in DOMAIN h
      BY AboveFacts
    <2> HIDE DEF h
    <2>2. f[<<r, y>>] = IF <<r, y>> = <<p, x>> THEN to ELSE h[<<r, y>>]
      BY <2>1
    <2>3. CASE r = p /\ y = x
      BY <2>1, <2>2, <2>3
    <2>4. CASE ~(r = p /\ y = x)
      <3>1. up2[r][Slot(y)] = up[r][Slot(y)] /\ <<r, y>> # <<p, x>>
        BY <1>0, <2>4
      <3> HIDE DEF f
      <3> QED
        BY <2>1, <2>2, <3>1
    <2> QED
      BY <2>3, <2>4
  <1>3. DOMAIN f = DOMAIN AboveOf(L, up2) /\ f = [e \in DOMAIN f |-> f[e]]
    BY <1>1
  <1>4. f = WithParent(h, <<p, x>>, to)
    BY DEF WithParent
  <1> HIDE DEF f, to
  <1>5. f = AboveOf(L, up2)
    BY <1>2, <1>3, SameAbove
  <1> QED
    BY <1>1, <1>4, <1>5 DEF to, h

(* x is on its way out of pool p, or dead. *)
Gone(out, g, p, x) == x \in out[p] \/ (x \in Ids /\ Generation(x) < g[p][Slot(x)])

\* The ids that are gone.
LEMMA SpentFacts ==
    ASSUME NEW out, NEW g \in [Pools -> [Slots -> Nat]]
    PROVE  \A p \in Pools : \A x : <<p, x>> \in SpentOf(out, g) <=> Gone(out, g, p, x)
  <1> SUFFICES ASSUME NEW p \in Pools, NEW x
               PROVE  <<p, x>> \in SpentOf(out, g) <=>
                         x \in out[p] \/ (x \in Ids /\ Generation(x) < g[p][Slot(x)])
    BY DEF Gone
  <1> DEFINE W(r) == UNION {{s} \X (0..(g[r][s] - 1)) : s \in Slots}
  <1>1. <<p, x>> \in SpentOf(out, g) <=> x \in out[p] \cup W(p)
    <2> HIDE DEF W
    <2>1. SpentOf(out, g) = UNION {{r} \X (out[r] \cup W(r)) : r \in Pools}
      BY DEF SpentOf, W
    <2>2. ASSUME <<p, x>> \in SpentOf(out, g) PROVE x \in out[p] \cup W(p)
      <3>1. PICK r \in Pools : <<p, x>> \in {r} \X (out[r] \cup W(r))
        BY <2>1, <2>2
      <3> QED
        BY <3>1
    <2>3. ASSUME x \in out[p] \cup W(p) PROVE <<p, x>> \in SpentOf(out, g)
      <3>1. <<p, x>> \in {p} \X (out[p] \cup W(p))
        BY <2>3
      <3> QED
        BY <2>1, <3>1
    <2> QED
      BY <2>2, <2>3
  <1>2. x \in W(p) <=> x \in Ids /\ Generation(x) < g[p][Slot(x)]
    <2>1. \A s \in Slots : g[p][s] \in Nat
      OBVIOUS
    <2>2. ASSUME x \in W(p) PROVE x \in Ids /\ Generation(x) < g[p][Slot(x)]
      <3>1. PICK s \in Slots : x \in {s} \X (0..(g[p][s] - 1))
        BY <2>2
      <3>2. x = <<s, x[2]>> /\ x[2] \in 0..(g[p][s] - 1)
        BY <3>1
      <3>3. x[2] \in Nat /\ x[2] < g[p][s] /\ x[1] = s
        BY <2>1, <3>2
      <3> QED
        BY <3>2, <3>3 DEF Ids, Slot, Generation
    <2>3. ASSUME x \in Ids, Generation(x) < g[p][Slot(x)] PROVE x \in W(p)
      <3>1. x = <<x[1], x[2]>> /\ x[1] \in Slots /\ x[2] \in Nat /\ x[2] < g[p][x[1]]
        BY <2>3 DEF Ids, Slot, Generation
      <3>2. x[2] \in 0..(g[p][x[1]] - 1)
        BY <2>1, <3>1
      <3>3. x \in {x[1]} \X (0..(g[p][x[1]] - 1))
        BY <3>1, <3>2
      <3> QED
        BY <3>1, <3>3
    <2> QED
      BY <2>2, <2>3
  <1> HIDE DEF W
  <1> QED
    BY <1>1, <1>2

\* The forest of a state and of the next, and the ids that are gone.
LEMMA ForestNow ==
    /\ Above = AboveOf(LinkedOf, parent) /\ Above' = AboveOf(LinkedOf', parent')
    /\ Spent = SpentOf(LeavingOf, gen) /\ Spent' = SpentOf(LeavingOf', gen')
  <1> QED
    BY DEF Above, Spent

\* The entities of one pool, in this state and the next.
LEMMA PoolNow ==
    ASSUME NEW p \in Pools
    PROVE  /\ LinkedOf[p] = Linked(p) /\ LinkedOf'[p] = Linked(p)'
           /\ LeavingOf[p] = Leaving(p) /\ LeavingOf'[p] = Leaving(p)'
  <1>1. LinkedOf'[p] = Linked(p)'
    BY DEF LinkedOf
  <1>2. LeavingOf'[p] = Leaving(p)'
    BY DEF LeavingOf
  <1>3. LinkedOf[p] = Linked(p) /\ LeavingOf[p] = Leaving(p)
    BY DEF LinkedOf, LeavingOf
  <1> QED
    BY <1>1, <1>2, <1>3

\* The entities of the pools are ids, NoId is none; one that is leaving is
\* alive, and not in the tree.
LEMMA PoolsNow ==
    ASSUME IndInv
    PROVE  /\ LinkedOf \in PerPool /\ gen \in [Pools -> [Slots -> Nat]]
           /\ NoId \notin Ids /\ NoId \notin Pools \X Ids
           /\ \A p \in Pools : /\ LinkedOf[p] \subseteq Ids /\ NoId \notin LinkedOf[p]
                               /\ LeavingOf[p] \subseteq Live(p)
  <1>1. gen \in [Pools -> [Slots -> Nat]]
    BY DEF IndInv, Typed, PoolsTyped
  <1>2. ASSUME NEW p \in Pools
        PROVE  LinkedOf[p] \subseteq Ids /\ LeavingOf[p] \subseteq Live(p)
    <2>1. Stamped(Linked(p), gen[p]) /\ gen[p] \in [Slots -> Nat]
      BY OnePool
    <2>2. Leaving(p) \subseteq Live(p)
      BY WorldIsSane DEF IndInv
    <2> QED
      BY <2>1, <2>2, PoolNow, StampedFacts
  <1>3. NoId \notin Ids /\ NoId \notin Pools \X Ids
    BY PoolAssumption
  <1>4. LinkedOf \in PerPool
    BY <1>2 DEF PerPool, LinkedOf
  <1> QED
    BY <1>1, <1>2, <1>3, <1>4

\* What is gone is an id of a pool.
LEMMA SpentArePairs ==
    ASSUME NEW out, NEW g, NEW e \in SpentOf(out, g)
    PROVE  \E p \in Pools : \E x : e = <<p, x>>
  <1> DEFINE W(r) == out[r] \cup UNION {{s} \X (0..(g[r][s] - 1)) : s \in Slots}
  <1>1. SpentOf(out, g) = UNION {{r} \X W(r) : r \in Pools}
    BY DEF SpentOf
  <1> HIDE DEF W
  <1>2. PICK r \in Pools : e \in {r} \X W(r)
    BY <1>1
  <1>3. e = <<r, e[2]>>
    BY <1>2
  <1> QED
    BY <1>3

(* What is gone stays the same, or x of pool p as well. *)
SameGone(out, g, out2, g2) ==
    \A r \in Pools : \A y : Gone(out2, g2, r, y) <=> Gone(out, g, r, y)

OneMoreGone(out, g, out2, g2, p, x) ==
    \A r \in Pools : \A y : Gone(out2, g2, r, y) <=> Gone(out, g, r, y) \/ (r = p /\ y = x)

Plus(S, e) == S \cup {e}

Generations == [Pools -> [Slots -> Nat]]

\* The ids that are gone, by what is gone of every pool.
LEMMA SpentAfter ==
    ASSUME NEW out, NEW g \in Generations, NEW out2, NEW g2 \in Generations
    PROVE  /\ SameGone(out, g, out2, g2) => SpentOf(out2, g2) = SpentOf(out, g)
           /\ \A p \in Pools : \A x : OneMoreGone(out, g, out2, g2, p, x) =>
                 SpentOf(out2, g2) = Plus(SpentOf(out, g), <<p, x>>)
  <1>1. /\ \A r \in Pools : \A y : <<r, y>> \in SpentOf(out, g) <=> Gone(out, g, r, y)
        /\ \A r \in Pools : \A y : <<r, y>> \in SpentOf(out2, g2) <=> Gone(out2, g2, r, y)
    BY SpentFacts DEF Generations
  <1>2. /\ \A e \in SpentOf(out, g) : \E r \in Pools : \E y : e = <<r, y>>
        /\ \A e \in SpentOf(out2, g2) : \E r \in Pools : \E y : e = <<r, y>>
    BY SpentArePairs
  <1>3. ASSUME SameGone(out, g, out2, g2) PROVE SpentOf(out2, g2) = SpentOf(out, g)
    <2>1. \A r \in Pools : \A y : Gone(out2, g2, r, y) <=> Gone(out, g, r, y)
      BY <1>3 DEF SameGone
    <2>2. SpentOf(out2, g2) \subseteq SpentOf(out, g)
      BY <1>1, <1>2, <2>1
    <2>3. SpentOf(out, g) \subseteq SpentOf(out2, g2)
      BY <1>1, <1>2, <2>1
    <2> QED
      BY <2>2, <2>3
  <1>4. ASSUME NEW p \in Pools, NEW x, OneMoreGone(out, g, out2, g2, p, x)
        PROVE  SpentOf(out2, g2) = Plus(SpentOf(out, g), <<p, x>>)
    <2>1. \A r \in Pools : \A y : Gone(out2, g2, r, y) <=> Gone(out, g, r, y) \/ (r = p /\ y = x)
      BY <1>4 DEF OneMoreGone
    <2>2. SpentOf(out2, g2) \subseteq SpentOf(out, g) \cup {<<p, x>>}
      BY <1>1, <1>2, <2>1
    <2>3. SpentOf(out, g) \subseteq SpentOf(out2, g2)
      BY <1>1, <1>2, <2>1
    <2>4. <<p, x>> \in SpentOf(out2, g2)
      BY <1>1, <2>1
    <2> QED
      BY <2>2, <2>3, <2>4 DEF Plus
  <1> QED
    BY <1>3, <1>4

\* The id of a slot whose generation goes up is gone, and no other.
LEMMA BuriedIsGone ==
    ASSUME NEW g \in [Slots -> Nat], NEW x \in Ids, Generation(x) = g[Slot(x)],
           NEW g2, g2 = [g EXCEPT ![Slot(x)] = @ + 1], NEW y \in Ids
    PROVE  Generation(y) < g2[Slot(y)] <=> Generation(y) < g[Slot(y)] \/ y = x
  <1>1. /\ Slot(x) \in Slots /\ Slot(y) \in Slots /\ Generation(x) \in Nat /\ Generation(y) \in Nat
        /\ x = <<Slot(x), Generation(x)>> /\ y = <<Slot(y), Generation(y)>>
    BY DEF Ids, Slot, Generation
  <1>2. g[Slot(y)] \in Nat
    BY <1>1
  <1>3. CASE Slot(y) = Slot(x)
    <2>1. g2[Slot(y)] = g[Slot(y)] + 1
      BY <1>1, <1>3
    <2>2. Generation(y) < g[Slot(y)] + 1 <=> Generation(y) < g[Slot(y)] \/ Generation(y) = g[Slot(y)]
      BY <1>1, <1>2
    <2>3. Generation(y) = g[Slot(y)] <=> y = x
      BY <1>1, <1>3
    <2> QED
      BY <2>1, <2>2, <2>3
  <1>4. CASE Slot(y) # Slot(x)
    BY <1>1, <1>4
  <1> QED
    BY <1>3, <1>4

\* No entity is above itself.
LEMMA AboveWellFounded ==
    ASSUME NEW L \in PerPool, NEW up, \A p \in Pools : NoCycle(L[p], up[p])
    PROVE  \A S \in SUBSET {e \in DOMAIN AboveOf(L, up) : AboveOf(L, up)[e] # NoId} :
              S # {} => \E e \in S : AboveOf(L, up)[e] \notin S
  <1> SUFFICES ASSUME NEW S \in SUBSET {e \in DOMAIN AboveOf(L, up) : AboveOf(L, up)[e] # NoId}, S # {}
               PROVE  \E e \in S : AboveOf(L, up)[e] \notin S
    OBVIOUS
  <1>0. PICK p \in Pools : \E x \in L[p] : <<p, x>> \in S
    BY AboveFacts
  <1>1. PICK x \in L[p] : <<p, x>> \in S
    BY <1>0
  <1> DEFINE T == {y \in L[p] : <<p, y>> \in S}
  <1>2. T # {}
    BY <1>1
  <1>3. ASSUME NEW y \in T
        PROVE  /\ up[p][Slot(y)] # NoId /\ AboveOf(L, up)[<<p, y>>] = <<p, up[p][Slot(y)]>>
               /\ y \in L[p] /\ <<p, y>> \in S
    <2>1. y \in L[p] /\ <<p, y>> \in S /\ AboveOf(L, up)[<<p, y>>] # NoId
      OBVIOUS
    <2>2. AboveOf(L, up)[<<p, y>>] = IF up[p][Slot(y)] = NoId THEN NoId ELSE <<p, up[p][Slot(y)]>>
      BY <2>1, AboveFacts
    <2> QED
      BY <2>1, <2>2
  <1>4. T \in SUBSET {y \in L[p] : up[p][Slot(y)] # NoId}
    BY <1>3
  <1>5. \A e \in S : e \in DOMAIN AboveOf(L, up)
    OBVIOUS
  <1> HIDE DEF T
  <1>6. PICK y \in T : up[p][Slot(y)] \notin T
    BY <1>2, <1>4 DEF NoCycle
  <1>7. <<p, up[p][Slot(y)]>> \notin S
    BY <1>5, <1>6, AboveFacts DEF T
  <1> QED
    BY <1>3, <1>6, <1>7

-----------------------------------------------------------------------------
(* Every step of the pools is a step of the hierarchy, or none. *)

\* The entities of the pools after a step.
LEMMA LinkedNext ==
    /\ LinkedOf' = [p \in Pools |-> LinkedOf'[p]]
    /\ LeavingOf' = [p \in Pools |-> LeavingOf'[p]]
    /\ LinkedOf = [p \in Pools |-> LinkedOf[p]]
    /\ LeavingOf = [p \in Pools |-> LeavingOf[p]]
  <1>1. LinkedOf = [p \in Pools |-> LinkedOf[p]] /\ LeavingOf = [p \in Pools |-> LeavingOf[p]]
    BY DEF LinkedOf, LeavingOf
  <1>2. (LinkedOf = [p \in Pools |-> LinkedOf[p]])' /\ (LeavingOf = [p \in Pools |-> LeavingOf[p]])'
    BY <1>1, PTL
  <1> QED
    BY <1>1, <1>2

\* A new entity of a pool is a new entity of the hierarchy.
LEMMA EnterStep ==
    ASSUME IndInv, NEW p \in Pools, NEW x, Enters(p, x)
    PROVE  Hierarchy!Create(<<p, x>>) /\ <<p, x>> \in DOMAIN Above' \ DOMAIN Above
  <1> DEFINE L == LinkedOf
             M == LinkedOf'
             up == parent
             up2 == parent'
  <1>1. /\ x \in Ids \ Live(p) /\ Generation(x) = gen[p][Slot(x)] /\ gen' = gen
        /\ up2[p][Slot(x)] = NoId
    BY DEF Enters
  <1>2. M[p] = L[p] \cup {x}
    BY PoolNow DEF Enters
  <1>3. ASSUME NEW r \in Pools, r # p PROVE M[r] = L[r]
    BY <1>3, PoolNow DEF Enters
  <1>4. ASSUME NEW r \in Pools, NEW y \in L[r] PROVE up2[r][Slot(y)] = up[r][Slot(y)]
    <2>1. y \in Linked(r)
      BY PoolNow
    <2> QED
      BY <2>1 DEF Enters
  <1>5. ASSUME NEW r \in Pools PROVE LeavingOf'[r] = LeavingOf[r]
    BY PoolNow DEF Enters
  <1>6. LeavingOf' = LeavingOf
    BY <1>5, LinkedNext
  <1>7. x \notin L[p]
    BY <1>1, PoolNow DEF Linked
  <1>8. /\ L \in PerPool /\ gen \in [Pools -> [Slots -> Nat]]
        /\ NoId \notin Pools \X Ids /\ LeavingOf[p] \subseteq Live(p)
    BY PoolsNow
  <1>9. M = [r \in Pools |-> M[r]]
    BY LinkedNext
  <1>10. /\ Above = AboveOf(L, up) /\ Above' = AboveOf(M, up2)
         /\ Spent = SpentOf(LeavingOf, gen) /\ Spent' = SpentOf(LeavingOf', gen')
    BY ForestNow
  <1> HIDE DEF L, M, up, up2
  <1>11. \A r \in Pools : M[r] \in SUBSET Ids
    BY <1>1, <1>2, <1>3, <1>8 DEF PerPool
  <1>12. M \in PerPool
    BY <1>9, <1>11 DEF PerPool
  <1>13. Created(L, up, M, up2, p, x) /\ x \in Ids
    BY <1>1, <1>2, <1>3, <1>4, <1>7 DEF Created
  <1>14. /\ AboveOf(M, up2) = WithRoot(AboveOf(L, up), <<p, x>>)
         /\ <<p, x>> \in DOMAIN AboveOf(M, up2) /\ <<p, x>> \notin DOMAIN AboveOf(L, up)
    BY ONLY <1>8, <1>12, <1>13, p \in Pools, CreatesAbove
  <1>15. Spent' = Spent
    BY <1>1, <1>6, <1>10
  <1>16. <<p, x>> # NoId
    BY <1>1, <1>8
  <1>17. <<p, x>> \notin Spent
    <2>1. <<p, x>> \in Spent <=> Gone(LeavingOf, gen, p, x)
      BY ONLY <1>8, <1>10, p \in Pools, SpentFacts
    <2>2. x \notin LeavingOf[p]
      BY <1>1, <1>8
    <2>3. Generation(x) \in Nat
      BY <1>1 DEF Ids, Generation
    <2>4. ~(Generation(x) < gen[p][Slot(x)])
      BY <1>1, <2>3
    <2> QED
      BY <2>1, <2>2, <2>4 DEF Gone
  <1>18. /\ Above' = WithRoot(Above, <<p, x>>)
         /\ <<p, x>> \in DOMAIN Above' \ DOMAIN Above
    BY <1>10, <1>14
  <1> QED
    BY <1>15, <1>16, <1>17, <1>18 DEF WithRoot, Hierarchy!Create, Hierarchy!Entities

\* An entity that goes, whatever became of its slot, goes from the hierarchy.
LEMMA RemoveStep ==
    ASSUME IndInv, IndInv', NEW p \in Pools, NEW x,
           Removed(LinkedOf, parent, LinkedOf', parent', p, x),
           OneMoreGone(LeavingOf, gen, LeavingOf', gen', p, x)
    PROVE  Hierarchy!Remove(<<p, x>>) /\ <<p, x>> \in DOMAIN Above \ DOMAIN Above'
  <1> DEFINE L == LinkedOf
             M == LinkedOf'
             up == parent
             up2 == parent'
             out == LeavingOf
             out2 == LeavingOf'
             g == gen
             g2 == gen'
  <1>1. /\ L \in PerPool /\ g \in [Pools -> [Slots -> Nat]] /\ NoId \notin Pools \X Ids
    BY PoolsNow
  <1>2. g2 \in [Pools -> [Slots -> Nat]]
    BY DEF IndInv, Typed, PoolsTyped
  <1>3. M = [r \in Pools |-> M[r]]
    BY LinkedNext
  <1>4. /\ Above = AboveOf(L, up) /\ Above' = AboveOf(M, up2)
        /\ Spent = SpentOf(out, g) /\ Spent' = SpentOf(out2, g2)
    BY ForestNow
  <1>5. Removed(L, up, M, up2, p, x) /\ OneMoreGone(out, g, out2, g2, p, x)
    OBVIOUS
  <1> HIDE DEF L, M, up, up2, out, out2, g, g2
  <1>6. \A r \in Pools : M[r] \in SUBSET Ids
    BY <1>1, <1>5 DEF PerPool, Removed
  <1>7. M \in PerPool
    BY <1>3, <1>6 DEF PerPool
  <1>8. /\ AboveOf(M, up2) = WithoutEntity(AboveOf(L, up), <<p, x>>)
        /\ <<p, x>> \notin DOMAIN AboveOf(M, up2) /\ <<p, x>> \in DOMAIN AboveOf(L, up)
    BY ONLY <1>1, <1>5, <1>7, p \in Pools, RemovesAbove
  <1>9. SpentOf(out2, g2) = Plus(SpentOf(out, g), <<p, x>>)
    <2>1. \A r \in Pools : \A y : OneMoreGone(out, g, out2, g2, r, y) =>
             SpentOf(out2, g2) = Plus(SpentOf(out, g), <<r, y>>)
      <3>1. g \in Generations /\ g2 \in Generations
        BY <1>1, <1>2 DEF Generations
      <3> QED
        BY ONLY <3>1, SpentAfter
    <2> QED
      BY <1>5, <2>1
  <1>10. /\ Above' = WithoutEntity(Above, <<p, x>>) /\ <<p, x>> \in DOMAIN Above \ DOMAIN Above'
         /\ Spent' = Plus(Spent, <<p, x>>)
    BY <1>4, <1>8, <1>9
  <1> QED
    BY <1>10 DEF WithoutEntity, Plus, Hierarchy!Remove, Hierarchy!Entities

\* An entity out of the tree goes from the hierarchy: the event of
\* tc_entity_pool_free is when it happens.
LEMMA UnlinkStep ==
    ASSUME IndInv, IndInv', NEW p \in Pools, NEW x, Unlinks(p, x)
    PROVE  Hierarchy!Remove(<<p, x>>) /\ <<p, x>> \in DOMAIN Above \ DOMAIN Above'
  <1> DEFINE L == LinkedOf
             M == LinkedOf'
             up == parent
             up2 == parent'
             out == LeavingOf
             out2 == LeavingOf'
  <1>1. /\ x \in L[p] /\ M[p] = L[p] \ {x} /\ out2[p] = out[p] \cup {x}
        /\ gen' = gen
    BY PoolNow DEF Unlinks
  <1>2. ASSUME NEW r \in Pools, r # p PROVE M[r] = L[r] /\ out2[r] = out[r] /\ up2[r] = up[r]
    BY <1>2, PoolNow DEF Unlinks
  <1>3. ASSUME NEW y \in M[p]
        PROVE  up2[p][Slot(y)] = IF up[p][Slot(y)] = x THEN NoId ELSE up[p][Slot(y)]
    <2>1. y \in Linked(p) \ {x}
      BY <1>1, PoolNow
    <2> QED
      BY <2>1 DEF Unlinks
  <1>4. \A r \in Pools : NoId \notin L[r]
    BY PoolsNow
  <1> HIDE DEF L, M, up, up2, out, out2
  <1>5. Removed(L, up, M, up2, p, x)
    BY <1>1, <1>2, <1>3, <1>4 DEF Removed
  <1>6. OneMoreGone(out, gen, out2, gen', p, x)
    BY <1>1, <1>2 DEF OneMoreGone, Gone
  <1> QED
    BY <1>5, <1>6, RemoveStep DEF L, M, up, up2, out, out2

\* The source of a migration goes from the hierarchy.
LEMMA SourceStep ==
    ASSUME IndInv, IndInv', NEW p \in Pools, NEW x, SourceDies(p, x)
    PROVE  Hierarchy!Remove(<<p, x>>) /\ <<p, x>> \in DOMAIN Above \ DOMAIN Above'
  <1> DEFINE L == LinkedOf
             M == LinkedOf'
             up == parent
             up2 == parent'
             out == LeavingOf
             out2 == LeavingOf'
             g == gen
             g2 == gen'
  <1>1. /\ x \in L[p] /\ M[p] = L[p] \ {x} /\ up2 = up
        /\ g2[p] = [g[p] EXCEPT ![Slot(x)] = @ + 1]
    BY PoolNow DEF SourceDies
  <1>2. ASSUME NEW r \in Pools, r # p PROVE M[r] = L[r] /\ g2[r] = g[r]
    BY <1>2, PoolNow DEF SourceDies
  <1>3. ASSUME NEW r \in Pools PROVE out2[r] = out[r]
    BY PoolNow DEF SourceDies
  <1>4. ASSUME NEW y \in M[p] PROVE up[p][Slot(y)] # x
    <2>1. y \in Linked(p) \ {x}
      BY <1>1, PoolNow
    <2> QED
      BY <2>1 DEF SourceDies
  <1>5. /\ \A r \in Pools : NoId \notin L[r]
        /\ g[p] \in [Slots -> Nat]
    BY PoolsNow
  <1>6. x \in Ids /\ Generation(x) = g[p][Slot(x)]
    <2>1. Stamped(Linked(p), gen[p]) /\ x \in Linked(p) /\ gen[p] \in [Slots -> Nat]
      BY <1>1, OnePool, PoolNow
    <2> QED
      BY <2>1, StampedFacts
  <1> HIDE DEF L, M, up, up2, out, out2, g, g2
  <1>7. Removed(L, up, M, up2, p, x)
    BY <1>1, <1>2, <1>4, <1>5 DEF Removed
  <1>8. ASSUME NEW r \in Pools, NEW y PROVE Gone(out2, g2, r, y) <=> Gone(out, g, r, y) \/ (r = p /\ y = x)
    <2>1. CASE r # p
      BY <1>2, <1>3, <2>1 DEF Gone
    <2>2. CASE r = p /\ y \in Ids
      <3>1. Generation(y) < g2[p][Slot(y)] <=> Generation(y) < g[p][Slot(y)] \/ y = x
        <4> DEFINE h == g[p]
                   h2 == g2[p]
        <4>1. h \in [Slots -> Nat] /\ Generation(x) = h[Slot(x)] /\ h2 = [h EXCEPT ![Slot(x)] = @ + 1]
          BY <1>1, <1>5, <1>6
        <4> HIDE DEF h, h2
        <4>2. Generation(y) < h2[Slot(y)] <=> Generation(y) < h[Slot(y)] \/ y = x
          BY <1>6, <2>2, <4>1, BuriedIsGone
        <4> QED
          BY <4>2 DEF h, h2
      <3> QED
        BY <1>3, <2>2, <3>1 DEF Gone
    <2>3. CASE r = p /\ y \notin Ids
      BY <1>3, <1>6, <2>3 DEF Gone
    <2> QED
      BY <2>1, <2>2, <2>3
  <1>9. OneMoreGone(out, g, out2, g2, p, x)
    BY <1>8 DEF OneMoreGone
  <1> QED
    BY <1>7, <1>9, RemoveStep DEF L, M, up, up2, out, out2, g, g2

\* The death of an entity already out of the tree is no step of the
\* hierarchy.
LEMMA DiesStep ==
    ASSUME IndInv, IndInv', NEW p \in Pools, NEW x, Dies(p, x)
    PROVE  Above' = Above /\ Spent' = Spent
  <1> DEFINE out == LeavingOf
             out2 == LeavingOf'
             g == gen
             g2 == gen'
  <1>1. /\ x \in out[p] /\ out2[p] = out[p] \ {x} /\ parent' = parent
        /\ g2[p] = [g[p] EXCEPT ![Slot(x)] = @ + 1]
    BY PoolNow DEF Dies
  <1>2. ASSUME NEW r \in Pools, r # p PROVE out2[r] = out[r] /\ g2[r] = g[r]
    BY <1>2, PoolNow DEF Dies
  <1>3. ASSUME NEW r \in Pools PROVE LinkedOf'[r] = LinkedOf[r]
    BY PoolNow DEF Dies
  <1>4. LinkedOf' = LinkedOf
    BY <1>3, LinkedNext
  <1>5. g \in [Pools -> [Slots -> Nat]] /\ g[p] \in [Slots -> Nat]
    BY PoolsNow
  <1>6. g2 \in [Pools -> [Slots -> Nat]]
    BY DEF IndInv, Typed, PoolsTyped
  <1>7. x \in Ids /\ Generation(x) = g[p][Slot(x)]
    <2>1. x \in Live(p) /\ Stamped(Live(p), gen[p]) /\ gen[p] \in [Slots -> Nat]
      BY <1>1, OnePool, PoolsNow
    <2> QED
      BY <2>1, StampedFacts
  <1>8. /\ Above = AboveOf(LinkedOf, parent) /\ Above' = AboveOf(LinkedOf', parent')
        /\ Spent = SpentOf(out, g) /\ Spent' = SpentOf(out2, g2)
    BY ForestNow
  <1> HIDE DEF out, out2, g, g2
  <1>9. ASSUME NEW r \in Pools, NEW y PROVE Gone(out2, g2, r, y) <=> Gone(out, g, r, y)
    <2>1. CASE r # p
      BY <1>2, <2>1 DEF Gone
    <2>2. CASE r = p /\ y \in Ids
      <3>1. Generation(y) < g2[p][Slot(y)] <=> Generation(y) < g[p][Slot(y)] \/ y = x
        <4> DEFINE h == g[p]
                   h2 == g2[p]
        <4>1. h \in [Slots -> Nat] /\ Generation(x) = h[Slot(x)] /\ h2 = [h EXCEPT ![Slot(x)] = @ + 1]
          BY <1>1, <1>5, <1>7
        <4> HIDE DEF h, h2
        <4>2. Generation(y) < h2[Slot(y)] <=> Generation(y) < h[Slot(y)] \/ y = x
          BY <1>7, <2>2, <4>1, BuriedIsGone
        <4> QED
          BY <4>2 DEF h, h2
      <3> QED
        BY <1>1, <2>2, <3>1 DEF Gone
    <2>3. CASE r = p /\ y \notin Ids
      BY <1>1, <1>7, <2>3 DEF Gone
    <2> QED
      BY <2>1, <2>2, <2>3
  <1>10. SameGone(out, g, out2, g2)
    BY <1>9 DEF SameGone
  <1>11. SpentOf(out2, g2) = SpentOf(out, g)
    <2>1. g \in Generations /\ g2 \in Generations
      BY <1>5, <1>6 DEF Generations
    <2> QED
      BY ONLY <1>10, <2>1, SpentAfter
  <1> QED
    BY <1>1, <1>4, <1>8, <1>11

(* No entity is above itself. *)
TreesAcyclic == \A p \in Pools : NoCycle(LinkedOf[p], parent[p])

\* The trees have no cycle.
LEMMA NoCycleNow == IndInv => TreesAcyclic
  <1> SUFFICES ASSUME IndInv, NEW p \in Pools PROVE NoCycle(LinkedOf[p], parent[p])
    BY DEF TreesAcyclic
  <1>1. NoCycle(Linked(p), parent[p])
    BY OnePool
  <1> QED
    BY <1>1, PoolNow

\* A new parent is a new parent in the hierarchy, which stays without cycles.
LEMMA ReparentStep ==
    ASSUME IndInv, IndInv', NEW p \in Pools, NEW x, NEW q, GoesUnder(p, x, q)
    PROVE  /\ <<p, x>> \in DOMAIN Above /\ DOMAIN Above' = DOMAIN Above /\ Above' # Above
           /\ Hierarchy!Reparent(<<p, x>>, Above'[<<p, x>>])
  <1> DEFINE L == LinkedOf
             up == parent
             up2 == parent'
             e == <<p, x>>
  <1>1. /\ x \in L[p] /\ q \in L[p] \cup {NoId} /\ up[p][Slot(x)] # q
        /\ up2 = [up EXCEPT ![p][Slot(x)] = q] /\ gen' = gen
    BY PoolNow DEF GoesUnder
  <1>2. ASSUME NEW r \in Pools PROVE LinkedOf'[r] = L[r] /\ LeavingOf'[r] = LeavingOf[r]
    BY PoolNow DEF GoesUnder
  <1>3. LinkedOf' = L /\ LeavingOf' = LeavingOf
    BY <1>2, LinkedNext
  <1>4. /\ L \in PerPool /\ NoId \notin Ids /\ NoId \notin Pools \X Ids
        /\ \A r \in Pools : L[r] \subseteq Ids
    BY PoolsNow
  <1>5. up \in [Pools -> [Slots -> Ids \cup {NoId}]]
    BY DEF IndInv, Typed, PoolsTyped
  <1>6. /\ Above = AboveOf(L, up) /\ Above' = AboveOf(L, up2)
        /\ Spent = SpentOf(LeavingOf, gen) /\ Spent' = SpentOf(LeavingOf', gen')
    BY <1>3, ForestNow
  <1>7. \A r \in Pools : NoCycle(L[r], up2[r])
    <2>1. TreesAcyclic'
      BY NoCycleNow, PTL
    <2> QED
      BY <1>3, <2>1 DEF TreesAcyclic
  <1>8. Stamped(Linked(p), gen[p]) /\ gen[p] \in [Slots -> Nat]
    BY OnePool
  <1>9. L[p] = Linked(p)
    BY PoolNow
  <1> HIDE DEF L, up, up2
  <1>10. Slot(x) \in Slots /\ \A y \in L[p] : Slot(y) = Slot(x) => y = x
    BY <1>1, <1>8, <1>9, StampedFacts
  <1>11. up2[p][Slot(x)] = q
    BY <1>1, <1>5, <1>10
  <1>12. ASSUME NEW r \in Pools, NEW y \in L[r], r # p \/ y # x
         PROVE  up2[r][Slot(y)] = up[r][Slot(y)]
    <2>1. CASE r # p
      BY <1>1, <1>5, <2>1
    <2>2. CASE r = p
      <3>1. y # x /\ Slot(y) # Slot(x)
        BY <1>10, <1>12, <2>2
      <3> QED
        BY <1>1, <1>5, <2>2, <3>1
    <2> QED
      BY <2>1, <2>2
  <1>13. GoneElsewhere(L, up, up2, p, x)
    BY <1>1, <1>12 DEF GoneElsewhere
  <1> HIDE DEF e
  <1>14. /\ Above' = WithParent(Above, e, Above'[e])
         /\ DOMAIN Above' = DOMAIN Above /\ e \in DOMAIN Above
    <2>1. /\ AboveOf(L, up2) = WithParent(AboveOf(L, up), <<p, x>>, AboveOf(L, up2)[<<p, x>>])
          /\ DOMAIN AboveOf(L, up2) = DOMAIN AboveOf(L, up)
          /\ <<p, x>> \in DOMAIN AboveOf(L, up)
      BY ONLY <1>4, <1>13, p \in Pools, MovesAbove
    <2> QED
      BY <1>6, <2>1 DEF e
  <1>15. /\ Above[e] = IF up[p][Slot(x)] = NoId THEN NoId ELSE <<p, up[p][Slot(x)]>>
         /\ Above'[e] = IF q = NoId THEN NoId ELSE <<p, q>>
         /\ q # NoId => <<p, q>> \in DOMAIN Above
    <2>1. /\ AboveOf(L, up)[<<p, x>>] = IF up[p][Slot(x)] = NoId THEN NoId ELSE <<p, up[p][Slot(x)]>>
          /\ AboveOf(L, up2)[<<p, x>>] = IF up2[p][Slot(x)] = NoId THEN NoId ELSE <<p, up2[p][Slot(x)]>>
      BY ONLY <1>4, <1>13, p \in Pools, AboveFacts DEF GoneElsewhere
    <2>2. q # NoId => q \in L[p]
      BY <1>1
    <2>3. q # NoId => <<p, q>> \in DOMAIN AboveOf(L, up)
      BY ONLY <1>4, <2>2, p \in Pools, AboveFacts
    <2> QED
      BY <1>6, <1>11, <2>1, <2>3 DEF e
  <1>16. Above'[e] # Above[e] /\ Above'[e] \in DOMAIN Above \cup {NoId}
    <2>1. up[p][Slot(x)] \in Ids \cup {NoId} /\ q \in Ids \cup {NoId}
      BY <1>1, <1>4, <1>5, <1>10
    <2>2. \A y \in Ids : <<p, y>> # NoId
      BY <1>4
    <2> QED
      BY <1>1, <1>15, <2>1, <2>2
  <1>17. \A S \in SUBSET {y \in DOMAIN Above' : Above'[y] # NoId} :
            S # {} => \E y \in S : Above'[y] \notin S
    <2>1. \A S \in SUBSET {y \in DOMAIN AboveOf(L, up2) : AboveOf(L, up2)[y] # NoId} :
             S # {} => \E y \in S : AboveOf(L, up2)[y] \notin S
      BY <1>4, <1>7, AboveWellFounded
    <2> QED
      BY <1>6, <2>1, Zenon
  <1>18. Spent' = Spent
    BY <1>1, <1>3, <1>6
  <1>19. Above' = [Above EXCEPT ![e] = Above'[e]]
    BY <1>14 DEF WithParent
  <1>20. Hierarchy!Reparent(e, Above'[e])
    BY <1>14, <1>16, <1>17, <1>18, <1>19
       DEF Hierarchy!Reparent, Hierarchy!Entities, Hierarchy!WellFounded
  <1> QED
    BY <1>14, <1>16, <1>20 DEF e

\* A step that leaves the trees as they are is no step of the hierarchy.
LEMMA TreesStandStep ==
    ASSUME TreesStand
    PROVE  Above' = Above /\ Spent' = Spent
  <1>1. ASSUME NEW r \in Pools PROVE LinkedOf'[r] = LinkedOf[r] /\ LeavingOf'[r] = LeavingOf[r]
    BY PoolNow DEF TreesStand
  <1>2. LinkedOf' = LinkedOf /\ LeavingOf' = LeavingOf
    BY <1>1, LinkedNext
  <1>3. gen' = gen /\ parent' = parent
    BY DEF TreesStand
  <1> QED
    BY <1>2, <1>3, ForestNow

\* Every step of the pools is one of the hierarchy, or none.
LEMMA StepOfHierarchy == IndInv /\ [Next]_vars => [Hierarchy!Next]_<<Above, Spent>>
  <1> SUFFICES ASSUME IndInv, [Next]_vars PROVE Hierarchy!Next \/ (Above' = Above /\ Spent' = Spent)
    OBVIOUS
  <1>0. IndInv' /\ TreesChange
    BY StepKeeps DEF Kept
  <1>1. CASE TreesStand
    BY <1>1, TreesStandStep
  <1>2. ASSUME NEW p \in Pools, NEW x, Enters(p, x) PROVE Hierarchy!Next
    <2>1. Hierarchy!Create(<<p, x>>) /\ <<p, x>> \in DOMAIN Above' \ DOMAIN Above
      BY <1>2, EnterStep
    <2> QED
      BY <2>1 DEF Hierarchy!Next, Hierarchy!Entities
  <1>3. ASSUME NEW p \in Pools, NEW x, Unlinks(p, x) \/ SourceDies(p, x) PROVE Hierarchy!Next
    <2>1. Hierarchy!Remove(<<p, x>>) /\ <<p, x>> \in DOMAIN Above \ DOMAIN Above'
      BY <1>0, <1>3, UnlinkStep, SourceStep
    <2> QED
      BY <2>1 DEF Hierarchy!Next, Hierarchy!Entities
  <1>4. ASSUME NEW p \in Pools, NEW x, NEW q, GoesUnder(p, x, q) PROVE Hierarchy!Next
    <2>1. /\ <<p, x>> \in DOMAIN Above /\ DOMAIN Above' = DOMAIN Above /\ Above' # Above
          /\ Hierarchy!Reparent(<<p, x>>, Above'[<<p, x>>])
      BY <1>0, <1>4, ReparentStep
    <2> QED
      BY <2>1 DEF Hierarchy!Next, Hierarchy!Entities
  <1>5. ASSUME NEW p \in Pools, NEW x, Dies(p, x) PROVE Above' = Above /\ Spent' = Spent
    BY <1>0, <1>5, DiesStep
  <1> QED
    BY <1>0, <1>1, <1>2, <1>3, <1>4, <1>5 DEF TreesChange

\* No entity is there, and none is gone, before the first is created.
LEMMA InitOfHierarchy == Init => Hierarchy!Init
  <1> SUFFICES ASSUME Init PROVE Above = [e \in {} |-> NoId] /\ Spent = {}
    BY DEF Hierarchy!Init
  <1>0. IndInv
    BY InitHolds
  <1>1. /\ Above = AboveOf(LinkedOf, parent) /\ Spent = SpentOf(LeavingOf, gen)
        /\ LinkedOf \in PerPool /\ gen \in [Pools -> [Slots -> Nat]]
    BY <1>0, ForestNow, PoolsNow
  <1>2. ASSUME NEW p \in Pools PROVE LinkedOf[p] = {} /\ LeavingOf[p] = {} /\ gen[p] = [s \in Slots |-> 0]
    <2>1. \A s \in Slots : alive[p][s] = FALSE
      BY DEF Init
    <2>2. Live(p) = {} /\ Linked(p) = {}
      BY <2>1 DEF Live, Linked
    <2>3. Leaving(p) \subseteq Live(p)
      BY <1>0, WorldIsSane DEF IndInv
    <2> QED
      BY <2>2, <2>3, PoolNow DEF Init
  <1>3. DOMAIN Above = {}
    <2>1. \A e : e \in DOMAIN AboveOf(LinkedOf, parent) <=> \E p \in Pools : \E x \in LinkedOf[p] : e = <<p, x>>
      BY <1>1, AboveFacts
    <2> QED
      BY <1>1, <1>2, <2>1
  <1>4. Above = [e \in DOMAIN Above |-> Above[e]]
    BY <1>1 DEF AboveOf
  <1>5. Above = [e \in {} |-> NoId]
    BY <1>3, <1>4
  <1>6. ASSUME NEW e \in SpentOf(LeavingOf, gen) PROVE FALSE
    <2>1. PICK p \in Pools : \E x : e = <<p, x>>
      BY SpentArePairs
    <2>2. PICK x : e = <<p, x>>
      BY <2>1
    <2>3. Gone(LeavingOf, gen, p, x)
      BY <1>1, <2>2, SpentFacts
    <2>4. x \in Ids /\ Generation(x) < gen[p][Slot(x)]
      BY <1>2, <2>3 DEF Gone
    <2>5. Slot(x) \in Slots /\ Generation(x) \in Nat
      BY <2>4 DEF Ids, Slot, Generation
    <2>6. gen[p][Slot(x)] = 0
      BY <1>2, <2>5
    <2> QED
      BY <2>4, <2>5, <2>6
  <1>7. Spent = {}
    BY <1>1, <1>6
  <1> QED
    BY <1>5, <1>7

(* The pools do what the hierarchy promises: an entity of the tree is      *)
(* created as a root under an id never used before, goes below one that is *)
(* not beneath it, or goes for good and leaves its children as roots;      *)
(* whatever the callbacks, and however the lists of it are kept.           *)
THEOREM PoolsImplementForest == Spec => ImplementsForest
  <1>1. Spec => []IndInv
    BY InvariantHolds
  <1> QED
    BY <1>1, InitOfHierarchy, StepOfHierarchy, PTL DEF Spec, ImplementsForest, Hierarchy!Spec

=============================================================================
