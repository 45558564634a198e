----------------------- MODULE SceneScheduler_proofs -----------------------
(***************************************************************************)
(* Proofs about the component scheduler for any scenes, components,        *)
(* priorities and width of the revision.                                   *)
(***************************************************************************)
EXTENDS SceneScheduler, ListLemmas

-----------------------------------------------------------------------------
(* Lists in the order of priority and registration. *)

Precedes(c, d, ord, pri) ==
    \/ pri[c] > pri[d]
    \/ pri[c] = pri[d] /\ ord[c] < ord[d]

Ordered(list, ord, pri) ==
    \A i, j \in 1 .. Len(list) : i < j => Precedes(list[i], list[j], ord, pri)

Orders == [Components -> Nat]
StagePriorities == [Components -> Int]

\* An ordered list has no component twice.
LEMMA OrderedIsInjective ==
    ASSUME NEW list \in Seq(Components), NEW ord \in Orders, NEW pri \in StagePriorities,
           Ordered(list, ord, pri)
    PROVE  IsInjective(list)
  <1>1. Len(list) \in Nat /\ DOMAIN list = 1 .. Len(list)
    OBVIOUS
  <1> SUFFICES ASSUME NEW i \in 1 .. Len(list), NEW j \in 1 .. Len(list), list[i] = list[j]
               PROVE  i = j
    BY <1>1 DEF IsInjective
  <1>2. list[i] \in Components /\ ord[list[i]] \in Nat /\ pri[list[i]] \in Int
    BY DEF Orders, StagePriorities
  <1>3. ~ Precedes(list[i], list[j], ord, pri) /\ ~ Precedes(list[j], list[i], ord, pri)
    BY <1>2 DEF Precedes
  <1>4. ~ (i < j) /\ ~ (j < i)
    BY <1>3 DEF Ordered
  <1> QED
    BY <1>1, <1>4

\* The order only depends on the keys of the components in the list.
LEMMA OrderedCongruence ==
    ASSUME NEW list \in Seq(Components), NEW ord, NEW pri, NEW ord2, NEW pri2,
           Ordered(list, ord, pri),
           \A e \in ToSet(list) : ord2[e] = ord[e] /\ pri2[e] = pri[e]
    PROVE  Ordered(list, ord2, pri2)
  <1>1. \A i \in 1 .. Len(list) : list[i] \in ToSet(list)
    BY ToSetFacts
  <1> QED
    BY <1>1 DEF Ordered, Precedes

\* The order of the lists is transitive.
LEMMA PrecedesTransitive ==
    ASSUME NEW c \in Components, NEW d \in Components, NEW e \in Components,
           NEW ord \in Orders, NEW pri \in StagePriorities,
           Precedes(c, d, ord, pri), Precedes(d, e, ord, pri)
    PROVE  Precedes(c, e, ord, pri)
  <1>1. /\ ord[c] \in Nat /\ ord[d] \in Nat /\ ord[e] \in Nat
        /\ pri[c] \in Int /\ pri[d] \in Int /\ pri[e] \in Int
    BY DEF Orders, StagePriorities
  <1> QED
    BY <1>1 DEF Precedes

\* list_insert_lifecycle_priority keeps the list ordered.
LEMMA InsertedFacts ==
    ASSUME NEW list \in Seq(Components), NEW c \in Components,
           NEW ord \in Orders, NEW pri \in StagePriorities,
           Ordered(list, ord, pri), c \notin ToSet(list),
           \A e \in ToSet(list) : ord[e] # ord[c]
    PROVE  /\ Inserted(list, c, ord, pri) \in Seq(Components)
           /\ ToSet(Inserted(list, c, ord, pri)) = ToSet(list) \cup {c}
           /\ Ordered(Inserted(list, c, ord, pri), ord, pri)
  <1> DEFINE Later(e) == \/ pri[e] < pri[c]
                         \/ pri[e] = pri[c] /\ ord[e] > ord[c]
             I == {i \in 1 .. Len(list) : Later(list[i])}
             new == Inserted(list, c, ord, pri)
  <1>0. /\ Len(list) \in Nat /\ ToSet(list) = {list[i] : i \in 1 .. Len(list)}
        /\ \A i \in 1 .. Len(list) : list[i] \in Components
    BY ToSetFacts
  <1>1. \A i \in 1 .. Len(list) : Later(list[i]) => Precedes(c, list[i], ord, pri)
    <2> TAKE i \in 1 .. Len(list)
    <2>1. ord[list[i]] \in Nat /\ pri[list[i]] \in Int /\ ord[c] \in Nat /\ pri[c] \in Int
      BY <1>0 DEF Orders, StagePriorities
    <2> QED
      BY <2>1 DEF Precedes
  <1>2. \A i \in 1 .. Len(list) : ~ Later(list[i]) => Precedes(list[i], c, ord, pri)
    <2> TAKE i \in 1 .. Len(list)
    <2>1. ord[list[i]] \in Nat /\ pri[list[i]] \in Int /\ ord[c] \in Nat /\ pri[c] \in Int
      BY <1>0 DEF Orders, StagePriorities
    <2>2. ord[list[i]] # ord[c]
      BY <1>0
    <2>3. ord[list[i]] < ord[c] \/ ord[c] < ord[list[i]]
      BY <2>1, <2>2
    <2> QED
      BY <2>1, <2>3 DEF Precedes
  <1>a. new = IF I # {} THEN InsertAt(list, Min(I), c) ELSE Append(list, c)
    <2>1. I # {} => Min(I) # 0
      <3> SUFFICES ASSUME I # {} PROVE Min(I) # 0
        OBVIOUS
      <3>1. I \in SUBSET Nat
        BY <1>0
      <3> HIDE DEF I
      <3>2. Min(I) \in I
        BY <3>1, MinFacts
      <3> USE DEF I
      <3> QED
        BY <1>0, <3>2
    <2>2. new = LET i == IF I # {} THEN Min(I) ELSE 0
                IN  IF i = 0 THEN Append(list, c) ELSE InsertAt(list, i, c)
      BY DEF Inserted, SelectInSeq
    <2> QED
      BY <2>1, <2>2
  <1>3. CASE I = {}
    <2>1. new = Append(list, c)
      BY <1>3, <1>a
    <2>2. /\ new \in Seq(Components) /\ Len(new) = Len(list) + 1
          /\ \A j \in 1 .. Len(list) : new[j] = list[j]
          /\ new[Len(list) + 1] = c
          /\ ToSet(new) = ToSet(list) \cup {c}
      BY <2>1, AppendFacts
    <2> HIDE DEF new
    <2>3. \A i \in 1 .. Len(list) : Precedes(list[i], c, ord, pri)
      BY <1>2, <1>3
    <2> HIDE DEF I, Later
    <2>4. Ordered(new, ord, pri)
      <3> SUFFICES ASSUME NEW i \in 1 .. Len(new), NEW j \in 1 .. Len(new), i < j
                   PROVE  Precedes(new[i], new[j], ord, pri)
        BY DEF Ordered
      <3>1. i \in 1 .. Len(list) /\ new[i] = list[i]
        BY <1>0, <2>2
      <3>2. CASE j \in 1 .. Len(list)
        BY <3>1, <3>2, <2>2 DEF Ordered
      <3>3. CASE j = Len(list) + 1
        BY <3>1, <3>3, <2>2, <2>3
      <3> QED
        BY <1>0, <2>2, <3>2, <3>3
    <2> QED
      BY <2>2, <2>4 DEF new
  <1>4. CASE I # {}
    <2> DEFINE k == Min(I)
    <2>1. k \in 1 .. Len(list) /\ Later(list[k]) /\ \A i \in 1 .. Len(list) : i < k => ~ Later(list[i])
      <3>1. I \in SUBSET Nat
        BY <1>0
      <3>2. k \in I /\ \A i \in I : k <= i
        <4> HIDE DEF I
        <4> QED
          BY <1>4, <3>1, MinFacts
      <3>3. k \in 1 .. Len(list) /\ Later(list[k])
        BY <3>2
      <3>4. ASSUME NEW i \in 1 .. Len(list), i < k PROVE ~ Later(list[i])
        <4>1. k \in Nat /\ i \in Nat
          BY SMTT(30), <1>0, <3>3
        <4>2. i \in I => k <= i
          BY <3>2
        <4> QED
          BY <4>1, <4>2, <3>4
      <3> QED
        BY <3>3, <3>4
    <2>2. new = InsertAt(list, k, c)
      BY <1>4, <1>a
    <2> HIDE DEF k
    <2>3. /\ new \in Seq(Components) /\ Len(new) = Len(list) + 1
          /\ \A j \in 1 .. (Len(list) + 1) :
                new[j] = IF j < k THEN list[j] ELSE IF j = k THEN c ELSE list[j - 1]
      BY <2>1, <2>2, InsertAtFacts
    <2> HIDE DEF new
    <2>4. /\ \A i \in 1 .. Len(list) : i < k => Precedes(list[i], c, ord, pri)
          /\ Precedes(c, list[k], ord, pri)
      BY <1>1, <1>2, <2>1
    <2> HIDE DEF Later, I
    <2>5. \A i \in 1 .. Len(list) : i >= k => Precedes(c, list[i], ord, pri)
      <3> TAKE i \in 1 .. Len(list)
      <3> HAVE i >= k
      <3>1. CASE i = k
        BY <3>1, <2>4
      <3>2. CASE k < i
        <4>1. Precedes(list[k], list[i], ord, pri)
          BY <3>2, <2>1 DEF Ordered
        <4> QED
          BY <4>1, <2>4, <2>1, <1>0, PrecedesTransitive
      <3> QED
        BY <3>1, <3>2, <2>1, <1>0
    <2>6. Ordered(new, ord, pri)
      <3> SUFFICES ASSUME NEW i \in 1 .. Len(new), NEW j \in 1 .. Len(new), i < j
                   PROVE  Precedes(new[i], new[j], ord, pri)
        BY DEF Ordered
      <3>0. i \in Nat /\ j \in Nat /\ k \in Nat
        BY <2>1, <2>3, <1>0
      <3>1. CASE j < k
        <4>1. new[i] = list[i] /\ new[j] = list[j] /\ i \in 1 .. Len(list) /\ j \in 1 .. Len(list)
          BY <3>1, <3>0, <2>1, <2>3, <1>0
        <4> QED
          BY <4>1 DEF Ordered
      <3>2. CASE j = k
        <4>1. new[i] = list[i] /\ new[j] = c /\ i \in 1 .. Len(list) /\ i < k
          BY <3>2, <3>0, <2>1, <2>3, <1>0
        <4> QED
          BY <4>1, <2>4
      <3>3. CASE j > k /\ i < k
        <4>1. i < j - 1 /\ i \in 1 .. Len(list) /\ j - 1 \in 1 .. Len(list)
          BY <3>3, <3>0, <2>1, <2>3, <1>0
        <4>2. new[i] = list[i]
          BY <3>3, <2>3
        <4>3. new[j] = list[j - 1]
          BY <3>3, <3>0, <2>3
        <4> QED
          BY <4>1, <4>2, <4>3 DEF Ordered
      <3>4. CASE j > k /\ i = k
        <4>1. new[i] = c /\ new[j] = list[j - 1] /\ j - 1 \in 1 .. Len(list) /\ j - 1 >= k
          BY <3>4, <3>0, <2>1, <2>3, <1>0
        <4> QED
          BY <4>1, <2>5
      <3>5. CASE j > k /\ i > k
        <4>1. i - 1 < j - 1 /\ i - 1 \in 1 .. Len(list) /\ j - 1 \in 1 .. Len(list)
          BY <3>5, <3>0, <2>1, <2>3, <1>0
        <4>2. new[i] = list[i - 1]
          BY <3>5, <3>0, <2>3
        <4>3. new[j] = list[j - 1]
          BY <3>5, <3>0, <2>3
        <4> QED
          BY <4>1, <4>2, <4>3 DEF Ordered
      <3> QED
        BY <3>0, <3>1, <3>2, <3>3, <3>4, <3>5
    <2>7. ToSet(new) = ToSet(list) \cup {c}
      <3>1. ToSet(new) = {new[i] : i \in 1 .. (Len(list) + 1)}
        BY <2>3, ToSetFacts
      <3>2. \A i \in 1 .. (Len(list) + 1) : new[i] \in ToSet(list) \cup {c}
        <4> TAKE i \in 1 .. (Len(list) + 1)
        <4>1. i < k => i \in 1 .. Len(list)
          BY <2>1, <1>0
        <4>2. i > k => i - 1 \in 1 .. Len(list)
          BY <2>1, <1>0
        <4> QED
          BY <4>1, <4>2, <2>1, <2>3, <1>0
      <3>3. c \in ToSet(new)
        <4>1. k \in 1 .. (Len(list) + 1) /\ new[k] = c
          BY <2>1, <2>3, <1>0
        <4> QED
          BY <4>1, <3>1
      <3>4. \A i \in 1 .. Len(list) : list[i] \in ToSet(new)
        <4> TAKE i \in 1 .. Len(list)
        <4>1. CASE i < k
          <5>1. i \in 1 .. (Len(list) + 1) /\ new[i] = list[i]
            BY <4>1, <2>3, <1>0
          <5> QED
            BY <5>1, <3>1
        <4>2. CASE i >= k
          <5>1. i + 1 \in 1 .. (Len(list) + 1) /\ new[i + 1] = list[i]
            BY <4>2, <2>1, <2>3, <1>0
          <5> QED
            BY <5>1, <3>1
        <4> QED
          BY <4>1, <4>2, <2>1, <1>0
      <3>5. ToSet(new) \subseteq ToSet(list) \cup {c}
        BY <3>1, <3>2
      <3>6. ToSet(list) \subseteq ToSet(new)
        BY <3>4, <1>0
      <3> QED
        BY <3>3, <3>5, <3>6
    <2> QED
      BY <2>3, <2>6, <2>7 DEF new
  <1> QED
    BY <1>3, <1>4

\* Erasing a component keeps a list ordered.
LEMMA RemovedFacts ==
    ASSUME NEW list \in Seq(Components), NEW c,
           NEW ord \in Orders, NEW pri \in StagePriorities,
           Ordered(list, ord, pri)
    PROVE  /\ RemoveFirst(list, c) \in Seq(Components)
           /\ ToSet(RemoveFirst(list, c)) = ToSet(list) \ {c}
           /\ Ordered(RemoveFirst(list, c), ord, pri)
  <1> DEFINE r == RemoveFirst(list, c)
  <1>1. IsInjective(list)
    BY OrderedIsInjective
  <1>2. /\ r \in Seq(Components) /\ ToSet(r) = ToSet(list) \ {c}
        /\ \A i, j \in 1 .. Len(r) : i < j =>
             \E k, l \in 1 .. Len(list) : k < l /\ r[i] = list[k] /\ r[j] = list[l]
    BY <1>1, RemoveFirstFacts
  <1> HIDE DEF r
  <1>3. Ordered(r, ord, pri)
    <2> SUFFICES ASSUME NEW i \in 1 .. Len(r), NEW j \in 1 .. Len(r), i < j
                 PROVE  Precedes(r[i], r[j], ord, pri)
      BY DEF Ordered
    <2>1. PICK k, l \in 1 .. Len(list) : k < l /\ r[i] = list[k] /\ r[j] = list[l]
      BY <1>2
    <2>2. Precedes(list[k], list[l], ord, pri)
      BY <2>1 DEF Ordered
    <2> QED
      BY <2>1, <2>2
  <1> QED
    BY <1>2, <1>3 DEF r

\* list_set_lifecycle_membership of a component that takes part.
LEMMA JoinFacts ==
    ASSUME NEW list \in Seq(Components), NEW c \in Components,
           NEW ord \in Orders, NEW pri \in StagePriorities,
           Ordered(list, ord, pri),
           \A e \in ToSet(list) \ {c} : ord[e] # ord[c]
    PROVE  /\ Membership(list, c, TRUE, ord, pri) \in Seq(Components)
           /\ ToSet(Membership(list, c, TRUE, ord, pri)) = ToSet(list) \cup {c}
           /\ Ordered(Membership(list, c, TRUE, ord, pri), ord, pri)
  <1>1. Contains(list, c) <=> c \in ToSet(list)
    BY ToSetFacts
  <1>2. CASE c \notin ToSet(list)
    <2>1. Membership(list, c, TRUE, ord, pri) = Inserted(list, c, ord, pri)
      BY <1>1, <1>2 DEF Membership
    <2>2. \A e \in ToSet(list) : ord[e] # ord[c]
      BY <1>2
    <2>3. /\ Inserted(list, c, ord, pri) \in Seq(Components)
          /\ ToSet(Inserted(list, c, ord, pri)) = ToSet(list) \cup {c}
          /\ Ordered(Inserted(list, c, ord, pri), ord, pri)
      BY <1>2, <2>2, InsertedFacts
    <2> QED
      BY <2>1, <2>3
  <1>3. CASE c \in ToSet(list)
    <2>1. Membership(list, c, TRUE, ord, pri) = list
      BY <1>1, <1>3 DEF Membership
    <2> QED
      BY <1>3, <2>1
  <1> QED
    BY <1>2, <1>3

\* list_set_lifecycle_membership of a component that does not.
LEMMA LeaveFacts ==
    ASSUME NEW list \in Seq(Components), NEW c \in Components,
           NEW ord \in Orders, NEW pri \in StagePriorities,
           Ordered(list, ord, pri)
    PROVE  /\ Membership(list, c, FALSE, ord, pri) \in Seq(Components)
           /\ ToSet(Membership(list, c, FALSE, ord, pri)) = ToSet(list) \ {c}
           /\ Ordered(Membership(list, c, FALSE, ord, pri), ord, pri)
  <1>1. Membership(list, c, FALSE, ord, pri) = RemoveFirst(list, c)
    BY DEF Membership
  <1>2. /\ RemoveFirst(list, c) \in Seq(Components)
        /\ ToSet(RemoveFirst(list, c)) = ToSet(list) \ {c}
        /\ Ordered(RemoveFirst(list, c), ord, pri)
    BY RemovedFacts
  <1> QED
    BY <1>1, <1>2

-----------------------------------------------------------------------------
(* The lists of the scenes. *)

Members(s, g) == {c \in Components : home[c] = s /\ g \in caps[c]}

ListExact(list, members, ord, pri) ==
    list \in Seq(Components) /\ ToSet(list) = members /\ Ordered(list, ord, pri)

ListsExact ==
    \A s \in Scenes, g \in Stages :
        ListExact(schedule[s][g], Members(s, g), order, StagePriority(priority, g))

(* A component has an order exactly while it is registered, its own within *)
(* its scene, and is alive then.                                           *)
OrdersExact ==
    /\ \A c \in Components : order[c] = 0 <=> home[c] = NoScene
    /\ \A c \in Components : home[c] # NoScene =>
          c \in alive /\ order[c] <= nextOrder[home[c]]
    /\ \A c, d \in Components :
          c # d /\ home[c] = home[d] /\ home[c] # NoScene => order[c] # order[d]

ListTyped ==
    /\ home \in [Components -> Scenes \cup {NoScene}]
    /\ order \in Orders
    /\ caps \in [Components -> SUBSET Stages]
    /\ priority \in [Components -> [Stages -> Priorities]]
    /\ schedule \in [Scenes -> [Stages -> Seq(Components)]]
    /\ nextOrder \in [Scenes -> Nat]
    /\ alive \subseteq Components

ListInv == ListTyped /\ OrdersExact /\ ListsExact

listVars == <<home, order, caps, priority, alive, schedule, nextOrder>>

\* The priorities of one stage are integers, those of the components.
LEMMA StagePriorityFacts ==
    ASSUME NEW pri \in [Components -> [Stages -> Priorities]], NEW g \in Stages
    PROVE  /\ StagePriority(pri, g) \in StagePriorities
           /\ \A c \in Components : StagePriority(pri, g)[c] = pri[c][g]
  BY SchedulerAssumption DEF StagePriority, StagePriorities

\* The lists are exact in the sense of the specification's property.
LEMMA ListsAreExact == ListInv => SchedulesExact
  <1> SUFFICES ASSUME ListInv, NEW s \in Scenes, NEW g \in Stages
               PROVE  /\ ToSet(schedule[s][g]) = {c \in Components : home[c] = s /\ g \in caps[c]}
                      /\ \A i, j \in 1 .. Len(schedule[s][g]) :
                            i < j => Before(g, schedule[s][g][i], schedule[s][g][j])
    BY DEF SchedulesExact
  <1> DEFINE list == schedule[s][g]
  <1>1. ListExact(list, Members(s, g), order, StagePriority(priority, g))
    BY DEF ListInv, ListsExact
  <1>2. \A i \in 1 .. Len(list) : list[i] \in Components
    BY <1>1 DEF ListExact
  <1>3. \A c \in Components : StagePriority(priority, g)[c] = priority[c][g]
    BY StagePriorityFacts DEF ListInv, ListTyped
  <1>4. ASSUME NEW i \in 1 .. Len(list), NEW j \in 1 .. Len(list), i < j
        PROVE  Before(g, list[i], list[j])
    <2>1. Precedes(list[i], list[j], order, StagePriority(priority, g))
      BY <1>1, <1>4 DEF ListExact, Ordered
    <2> QED
      BY <2>1, <1>2, <1>3 DEF Precedes, Before
  <1> QED
    BY <1>1, <1>4 DEF ListExact, Members

\* Nothing is registered at first and every list is empty.
LEMMA InitLists == Init => ListInv
  <1> SUFFICES ASSUME Init PROVE ListInv
    OBVIOUS
  <1>1. ListTyped
    <2>1. /\ home \in [Components -> Scenes \cup {NoScene}] /\ order \in Orders
          /\ nextOrder \in [Scenes -> Nat] /\ alive \subseteq Components
      BY DEF Init, Orders
    <2>2. caps \in [Components -> SUBSET Stages]
      BY SchedulerAssumption DEF Init
    <2>3. priority \in [Components -> [Stages -> Priorities]]
      BY SchedulerAssumption DEF Init
    <2>4. schedule \in [Scenes -> [Stages -> Seq(Components)]]
      BY DEF Init
    <2> QED
      BY <2>1, <2>2, <2>3, <2>4 DEF ListTyped
  <1>2. OrdersExact
    BY SchedulerAssumption DEF Init, OrdersExact
  <1>3. ASSUME NEW s \in Scenes, NEW g \in Stages
        PROVE  ListExact(schedule[s][g], Members(s, g), order, StagePriority(priority, g))
    <2>1. schedule[s][g] = <<>>
      BY DEF Init
    <2>2. Members(s, g) = {}
      BY SchedulerAssumption DEF Init, Members
    <2>3. ToSet(<<>>) = {}
      BY DEF ToSet
    <2> QED
      BY <2>1, <2>2, <2>3 DEF ListExact, Ordered
  <1> QED
    BY <1>1, <1>2, <1>3 DEF ListInv, ListsExact

\* What the invariant says of one list.
LEMMA OneList ==
    ASSUME ListInv, NEW s \in Scenes, NEW g \in Stages
    PROVE  /\ schedule[s][g] \in Seq(Components)
           /\ ToSet(schedule[s][g]) = Members(s, g)
           /\ Ordered(schedule[s][g], order, StagePriority(priority, g))
           /\ order \in Orders /\ StagePriority(priority, g) \in StagePriorities
  BY StagePriorityFacts DEF ListInv, ListTyped, ListsExact, ListExact

\* tc_scene_register_component keeps the lists exact: the order it gives is
\* above every order of the scene, so the insertion finds the right place.
LEMMA RegisterLists ==
    ASSUME ListInv, NEW s \in Scenes, NEW c \in Components, Register(s, c)
    PROVE  ListInv'
  <1>0. /\ c \in alive /\ home[c] \in {NoScene, s} /\ NoScene \notin Scenes
        /\ home' = [home EXCEPT ![c] = s]
        /\ UNCHANGED <<caps, priority, alive>>
        /\ ListTyped /\ OrdersExact
    BY SchedulerAssumption DEF Register, ListInv
  <1>1. /\ order' \in Orders /\ order'[c] # 0
        /\ nextOrder' \in [Scenes -> Nat]
        /\ \A d \in Components : d # c => order'[d] = order[d]
        /\ \A t \in Scenes : nextOrder[t] <= nextOrder'[t]
        /\ order'[c] <= nextOrder'[s]
        /\ home[c] = s => order' = order
        /\ \A d \in Components : d # c /\ home[d] = s => order[d] # order'[c]
    <2>1. CASE order[c] = 0
      <3>1. /\ nextOrder' = [nextOrder EXCEPT ![s] = @ + 1]
            /\ order' = [order EXCEPT ![c] = nextOrder[s] + 1]
        BY <2>1 DEF Register
      <3>2. \A d \in Components : home[d] = s => order[d] <= nextOrder[s]
        BY <1>0 DEF OrdersExact
      <3>3. nextOrder[s] \in Nat /\ \A d \in Components : order[d] \in Nat
        BY <1>0 DEF ListTyped, Orders
      <3>4. home[c] = NoScene
        BY <1>0, <2>1 DEF OrdersExact
      <3>5. order' \in Orders /\ order'[c] = nextOrder[s] + 1
        BY <1>0, <3>1, <3>3 DEF ListTyped, Orders
      <3>6. /\ nextOrder' \in [Scenes -> Nat] /\ nextOrder'[s] = nextOrder[s] + 1
            /\ \A t \in Scenes : nextOrder[t] <= nextOrder'[t]
        BY <1>0, <3>1 DEF ListTyped
      <3>7. \A d \in Components : d # c => order'[d] = order[d]
        BY <1>0, <3>1 DEF ListTyped, Orders
      <3>8. \A d \in Components : home[d] = s => order[d] # order'[c]
        BY <3>2, <3>3, <3>5
      <3> QED
        BY <1>0, <3>3, <3>4, <3>5, <3>6, <3>7, <3>8
    <2>2. CASE order[c] # 0
      <3>1. nextOrder' = nextOrder /\ order' = order
        BY <2>2 DEF Register
      <3>2. home[c] = s
        BY <1>0, <2>2 DEF OrdersExact
      <3>3. /\ order[c] <= nextOrder[s]
            /\ \A d \in Components : d # c /\ home[d] = s => order[d] # order[c]
        BY <1>0, <3>2 DEF OrdersExact
      <3>4. \A t \in Scenes : nextOrder[t] \in Nat
        BY <1>0 DEF ListTyped
      <3> QED
        BY <1>0, <2>2, <3>1, <3>3, <3>4 DEF ListTyped
    <2> QED
      BY <2>1, <2>2
  <1>2. \A d \in Components : home'[d] = IF d = c THEN s ELSE home[d]
    BY <1>0 DEF ListTyped
  <1>3. OrdersExact'
    <2>1. ASSUME NEW d \in Components PROVE order'[d] = 0 <=> home'[d] = NoScene
      BY <1>0, <1>1, <1>2 DEF OrdersExact
    <2>2. ASSUME NEW d \in Components, home'[d] # NoScene
          PROVE  d \in alive' /\ order'[d] <= nextOrder'[home'[d]]
      <3>1. CASE d = c
        BY <1>0, <1>1, <1>2, <3>1
      <3>2. CASE d # c
        <4>1. d \in alive /\ order[d] <= nextOrder[home[d]] /\ home'[d] = home[d]
          BY <1>0, <1>2, <2>2, <3>2 DEF OrdersExact
        <4>2. home[d] \in Scenes
          BY <1>0, <4>1, <2>2 DEF ListTyped
        <4>3. order[d] \in Nat /\ nextOrder[home[d]] \in Nat /\ nextOrder'[home[d]] \in Nat
          BY <1>0, <1>1, <4>2 DEF ListTyped, Orders
        <4> QED
          BY <1>0, <1>1, <3>2, <4>1, <4>2, <4>3
      <3> QED
        BY <3>1, <3>2
    <2>3. ASSUME NEW d \in Components, NEW e \in Components,
                 d # e, home'[d] = home'[e], home'[d] # NoScene
          PROVE  order'[d] # order'[e]
      <3>1. CASE d = c
        <4>1. home[e] = s /\ order'[e] = order[e]
          BY <1>1, <1>2, <2>3, <3>1
        <4> QED
          BY <1>1, <2>3, <3>1, <4>1
      <3>2. CASE e = c
        <4>1. home[d] = s /\ order'[d] = order[d]
          BY <1>1, <1>2, <2>3, <3>2
        <4> QED
          BY <1>1, <2>3, <3>2, <4>1
      <3>3. CASE d # c /\ e # c
        <4>1. home[d] = home[e] /\ home[d] # NoScene /\ order'[d] = order[d] /\ order'[e] = order[e]
          BY <1>1, <1>2, <2>3, <3>3
        <4> QED
          BY <1>0, <2>3, <4>1 DEF OrdersExact
      <3> QED
        BY <3>1, <3>2, <3>3
    <2> QED
      BY <2>1, <2>2, <2>3 DEF OrdersExact
  <1>4. ASSUME NEW t \in Scenes, NEW g \in Stages
        PROVE  /\ schedule'[t][g] \in Seq(Components)
               /\ ToSet(schedule'[t][g]) = Members(t, g)'
               /\ Ordered(schedule'[t][g], order', StagePriority(priority', g))
    <2> DEFINE list == schedule[t][g]
               pri == StagePriority(priority, g)
    <2>1. /\ list \in Seq(Components) /\ ToSet(list) = Members(t, g)
          /\ Ordered(list, order, pri) /\ pri \in StagePriorities
      BY OneList
    <2>2. StagePriority(priority', g) = pri
      BY <1>0
    <2>3. /\ Members(t, g)' = IF t = s /\ g \in caps[c] THEN Members(t, g) \cup {c} ELSE Members(t, g)
          /\ Members(t, g) \subseteq Components
      BY <1>0, <1>2 DEF Members
    <2>4. schedule'[t][g] = IF t = s /\ g \in caps[c]
                            THEN Membership(list, c, TRUE, order', pri) ELSE list
      <3>1. schedule' = [schedule EXCEPT ![s] =
                          [h \in Stages |-> IF h \in caps[c] THEN Reindexed(s, c, caps[c], order')[h]
                                            ELSE @[h]]]
        BY DEF Register
      <3>2. \A h \in Stages : h \in caps[c] =>
              Reindexed(s, c, caps[c], order')[h]
                = Membership(schedule[s][h], c, TRUE, order', StagePriority(priority, h))
        BY DEF Reindexed
      <3> QED
        BY <1>0, <3>1, <3>2 DEF ListTyped
    <2> HIDE DEF list, pri
    <2>5. Ordered(list, order', pri)
      <3>1. CASE order' = order
        BY <2>1, <3>1
      <3>2. CASE order' # order
        <4>1. c \notin ToSet(list)
          BY <1>0, <1>1, <2>1, <3>2 DEF Members
        <4>2. \A e \in ToSet(list) : order'[e] = order[e] /\ pri[e] = pri[e]
          BY <1>1, <2>1, <2>3, <4>1
        <4> QED
          BY <2>1, <4>2, OrderedCongruence
      <3> QED
        BY <3>1, <3>2
    <2>6. CASE t = s /\ g \in caps[c]
      <3>1. \A e \in ToSet(list) \ {c} : order'[e] # order'[c]
        BY <1>1, <2>1, <2>6 DEF Members
      <3>2. /\ Membership(list, c, TRUE, order', pri) \in Seq(Components)
            /\ ToSet(Membership(list, c, TRUE, order', pri)) = ToSet(list) \cup {c}
            /\ Ordered(Membership(list, c, TRUE, order', pri), order', pri)
        BY <1>1, <2>1, <2>5, <3>1, JoinFacts
      <3> QED
        BY <2>1, <2>2, <2>3, <2>4, <2>6, <3>2
    <2>7. CASE ~ (t = s /\ g \in caps[c])
      BY <2>1, <2>2, <2>3, <2>4, <2>5, <2>7
    <2> QED
      BY <2>6, <2>7
  <1>5. ListTyped'
    <2>1. schedule' \in [Scenes -> [Stages -> Seq(Components)]]
      <3>1. schedule' = [schedule EXCEPT ![s] =
                          [h \in Stages |-> IF h \in caps[c] THEN Reindexed(s, c, caps[c], order')[h]
                                            ELSE @[h]]]
        BY DEF Register
      <3>2. /\ DOMAIN schedule' = Scenes
            /\ schedule' = [t \in Scenes |-> schedule'[t]]
            /\ \A t \in Scenes : /\ DOMAIN schedule'[t] = Stages
                                  /\ schedule'[t] = [g \in Stages |-> schedule'[t][g]]
        BY <1>0, <3>1 DEF ListTyped
      <3> QED
        BY <3>2, <1>4
    <2> QED
      BY <1>0, <1>1, <2>1 DEF ListTyped
  <1> QED
    BY <1>3, <1>4, <1>5 DEF ListInv, ListsExact, ListExact

\* tc_scene_unregister_component takes the component out of every list.
LEMMA UnregisterLists ==
    ASSUME ListInv, NEW s \in Scenes, NEW c \in Components, NEW deletes \in BOOLEAN,
           Unregister(s, c, deletes)
    PROVE  ListInv'
  <1>0. /\ c \in alive /\ home[c] = s /\ NoScene \notin Scenes
        /\ home' = [home EXCEPT ![c] = NoScene]
        /\ order' = [order EXCEPT ![c] = 0]
        /\ schedule' = [schedule EXCEPT ![s] = Reindexed(s, c, {}, order)]
        /\ alive' = IF deletes THEN alive \ {c} ELSE alive
        /\ UNCHANGED <<caps, priority, nextOrder>>
        /\ ListTyped /\ OrdersExact
    BY SchedulerAssumption DEF Unregister, ListInv
  <1>1. /\ order' \in Orders /\ order'[c] = 0 /\ home'[c] = NoScene
        /\ \A d \in Components : d # c => order'[d] = order[d] /\ home'[d] = home[d]
    BY <1>0 DEF ListTyped, Orders
  <1>2. OrdersExact'
    <2>1. ASSUME NEW d \in Components PROVE order'[d] = 0 <=> home'[d] = NoScene
      BY <1>0, <1>1 DEF OrdersExact
    <2>2. ASSUME NEW d \in Components, home'[d] # NoScene
          PROVE  d \in alive' /\ order'[d] <= nextOrder'[home'[d]]
      BY <1>0, <1>1, <2>2 DEF OrdersExact
    <2>3. ASSUME NEW d \in Components, NEW e \in Components,
                 d # e, home'[d] = home'[e], home'[d] # NoScene
          PROVE  order'[d] # order'[e]
      BY <1>0, <1>1, <2>3 DEF OrdersExact
    <2> QED
      BY <2>1, <2>2, <2>3 DEF OrdersExact
  <1>3. ASSUME NEW t \in Scenes, NEW g \in Stages
        PROVE  /\ schedule'[t][g] \in Seq(Components)
               /\ ToSet(schedule'[t][g]) = Members(t, g)'
               /\ Ordered(schedule'[t][g], order', StagePriority(priority', g))
    <2> DEFINE list == schedule[t][g]
               pri == StagePriority(priority, g)
               new == schedule'[t][g]
    <2>1. /\ list \in Seq(Components) /\ ToSet(list) = Members(t, g)
          /\ Ordered(list, order, pri) /\ pri \in StagePriorities /\ order \in Orders
      BY OneList
    <2>2. StagePriority(priority', g) = pri
      BY <1>0
    <2>3. /\ Members(t, g)' = Members(t, g) \ {c}
          /\ Members(t, g) \subseteq Components
      BY <1>0, <1>1 DEF Members
    <2>4. new = IF t = s THEN Membership(list, c, FALSE, order, pri) ELSE list
      <3>1. Reindexed(s, c, {}, order)[g] = Membership(schedule[s][g], c, FALSE, order, pri)
        BY DEF Reindexed, Membership
      <3> QED
        BY <1>0, <3>1 DEF ListTyped
    <2> HIDE DEF list, pri, new
    <2>5. /\ new \in Seq(Components) /\ ToSet(new) = Members(t, g)'
          /\ Ordered(new, order, pri)
      <3>1. CASE t = s
        <4>1. /\ Membership(list, c, FALSE, order, pri) \in Seq(Components)
              /\ ToSet(Membership(list, c, FALSE, order, pri)) = ToSet(list) \ {c}
              /\ Ordered(Membership(list, c, FALSE, order, pri), order, pri)
          BY <2>1, LeaveFacts
        <4> QED
          BY <2>1, <2>3, <2>4, <3>1, <4>1
      <3>2. CASE t # s
        <4>1. c \notin Members(t, g)
          BY <1>0, <3>2 DEF Members
        <4> QED
          BY <2>1, <2>3, <2>4, <3>2, <4>1
      <3> QED
        BY <3>1, <3>2
    <2>6. Ordered(new, order', pri)
      <3>1. \A e \in ToSet(new) : order'[e] = order[e] /\ pri[e] = pri[e]
        BY <1>1, <2>3, <2>5
      <3> QED
        BY <2>5, <3>1, OrderedCongruence
    <2> QED
      BY <2>2, <2>5, <2>6 DEF new
  <1>4. ListTyped'
    <2>1. schedule' \in [Scenes -> [Stages -> Seq(Components)]]
      <3>1. /\ DOMAIN schedule' = Scenes
            /\ schedule' = [t \in Scenes |-> schedule'[t]]
            /\ \A t \in Scenes : /\ DOMAIN schedule'[t] = Stages
                                  /\ schedule'[t] = [g \in Stages |-> schedule'[t][g]]
        BY <1>0 DEF ListTyped, Reindexed
      <3> QED
        BY <3>1, <1>3
    <2>2. home' \in [Components -> Scenes \cup {NoScene}] /\ alive' \subseteq Components
      BY <1>0 DEF ListTyped
    <2> QED
      BY <1>0, <1>1, <2>1, <2>2 DEF ListTyped
  <1> QED
    BY <1>2, <1>3, <1>4 DEF ListInv, ListsExact, ListExact

\* tc_component_set_lifecycle_capabilities makes the component join and leave
\* the lists of the scene it is registered with, and those only.
LEMMA SetCapabilitiesLists ==
    ASSUME ListInv, NEW c \in Components, NEW stages \in CapabilityChoices,
           SetCapabilities(c, stages)
    PROVE  ListInv'
  <1>0. /\ caps' = [caps EXCEPT ![c] = stages]
        /\ schedule' = IF home[c] = NoScene THEN schedule
                       ELSE [schedule EXCEPT ![home[c]] = Reindexed(home[c], c, stages, order)]
        /\ UNCHANGED <<home, order, priority, alive, nextOrder>>
        /\ ListTyped /\ OrdersExact /\ stages \subseteq Stages /\ NoScene \notin Scenes
    BY SchedulerAssumption DEF SetCapabilities, ListInv
  <1>1. \A d \in Components : caps'[d] = IF d = c THEN stages ELSE caps[d]
    BY <1>0 DEF ListTyped
  <1>2. OrdersExact'
    BY <1>0 DEF OrdersExact
  <1>3. ASSUME NEW t \in Scenes, NEW g \in Stages
        PROVE  /\ schedule'[t][g] \in Seq(Components)
               /\ ToSet(schedule'[t][g]) = Members(t, g)'
               /\ Ordered(schedule'[t][g], order', StagePriority(priority', g))
    <2> DEFINE list == schedule[t][g]
               pri == StagePriority(priority, g)
               new == schedule'[t][g]
    <2>1. /\ list \in Seq(Components) /\ ToSet(list) = Members(t, g)
          /\ Ordered(list, order, pri) /\ pri \in StagePriorities /\ order \in Orders
      BY OneList
    <2>2. StagePriority(priority', g) = pri /\ order' = order
      BY <1>0
    <2>3. /\ Members(t, g)' = IF home[c] # t THEN Members(t, g)
                              ELSE IF g \in stages THEN Members(t, g) \cup {c}
                              ELSE Members(t, g) \ {c}
          /\ Members(t, g) \subseteq Components
      BY <1>0, <1>1 DEF Members
    <2>4. new = IF home[c] # t THEN list
                ELSE IF g \in stages THEN Membership(list, c, TRUE, order, pri)
                ELSE Membership(list, c, FALSE, order, pri)
      <3>1. home[c] = t => Reindexed(home[c], c, stages, order)[g]
              = IF g \in stages THEN Membership(list, c, TRUE, order, pri)
                ELSE Membership(list, c, FALSE, order, pri)
        BY DEF Reindexed, Membership
      <3> HIDE DEF list, pri
      <3>2. new = IF home[c] # t THEN list ELSE Reindexed(home[c], c, stages, order)[g]
        BY <1>0 DEF ListTyped, list
      <3> QED
        BY <3>1, <3>2
    <2> HIDE DEF list, pri, new
    <2>5. CASE home[c] # t
      BY <2>1, <2>2, <2>3, <2>4, <2>5 DEF new
    <2>6. CASE home[c] = t /\ g \in stages
      <3>1. \A e \in ToSet(list) \ {c} : order[e] # order[c]
        BY <1>0, <2>1, <2>6 DEF Members, OrdersExact
      <3>2. /\ Membership(list, c, TRUE, order, pri) \in Seq(Components)
            /\ ToSet(Membership(list, c, TRUE, order, pri)) = ToSet(list) \cup {c}
            /\ Ordered(Membership(list, c, TRUE, order, pri), order, pri)
        BY <2>1, <3>1, JoinFacts
      <3> QED
        BY <2>1, <2>2, <2>3, <2>4, <2>6, <3>2 DEF new
    <2>7. CASE home[c] = t /\ g \notin stages
      <3>1. /\ Membership(list, c, FALSE, order, pri) \in Seq(Components)
            /\ ToSet(Membership(list, c, FALSE, order, pri)) = ToSet(list) \ {c}
            /\ Ordered(Membership(list, c, FALSE, order, pri), order, pri)
        BY <2>1, LeaveFacts
      <3> QED
        BY <2>1, <2>2, <2>3, <2>4, <2>7, <3>1 DEF new
    <2> QED
      BY <2>5, <2>6, <2>7
  <1>4. ListTyped'
    <2>1. schedule' \in [Scenes -> [Stages -> Seq(Components)]]
      <3>1. /\ DOMAIN schedule' = Scenes
            /\ schedule' = [t \in Scenes |-> schedule'[t]]
            /\ \A t \in Scenes : /\ DOMAIN schedule'[t] = Stages
                                  /\ schedule'[t] = [g \in Stages |-> schedule'[t][g]]
        BY <1>0 DEF ListTyped, Reindexed
      <3> QED
        BY <3>1, <1>3
    <2>2. caps' \in [Components -> SUBSET Stages]
      BY <1>0 DEF ListTyped
    <2> QED
      BY <1>0, <2>1, <2>2 DEF ListTyped
  <1> QED
    BY <1>2, <1>3, <1>4 DEF ListInv, ListsExact, ListExact

\* tc_component_set_lifecycle_priority moves the component in the one list of
\* the stage and keeps that list ordered.
LEMMA SetPriorityLists ==
    ASSUME ListInv, NEW c \in Components, NEW h \in Stages, NEW p \in Priorities,
           SetPriority(c, h, p)
    PROVE  ListInv'
  <1>0. /\ priority' = [priority EXCEPT ![c][h] = p]
        /\ UNCHANGED <<home, order, caps, alive, nextOrder>>
        /\ ListTyped /\ OrdersExact /\ NoScene \notin Scenes
    BY SchedulerAssumption DEF SetPriority, ListInv
  <1>1. priority' \in [Components -> [Stages -> Priorities]]
    BY <1>0 DEF ListTyped
  <1>2. OrdersExact'
    BY <1>0 DEF OrdersExact
  <1>3. ASSUME NEW t \in Scenes, NEW g \in Stages
        PROVE  /\ schedule'[t][g] \in Seq(Components)
               /\ ToSet(schedule'[t][g]) = Members(t, g)
               /\ Ordered(schedule'[t][g], order, StagePriority(priority', g))
    <2> DEFINE list == schedule[t][g]
               pri == StagePriority(priority, g)
               pri2 == StagePriority(priority', g)
               new == schedule'[t][g]
    <2>1. /\ list \in Seq(Components) /\ ToSet(list) = Members(t, g)
          /\ Ordered(list, order, pri) /\ pri \in StagePriorities /\ order \in Orders
      BY OneList
    <2>2. /\ pri2 \in StagePriorities
          /\ \A d \in Components : d # c \/ g # h => pri2[d] = pri[d]
      <3>1. /\ pri2 \in StagePriorities
            /\ \A d \in Components : pri2[d] = priority'[d][g]
        BY <1>1, StagePriorityFacts
      <3>2. \A d \in Components : pri[d] = priority[d][g]
        BY <1>0, StagePriorityFacts DEF ListTyped
      <3>3. \A d \in Components : d # c \/ g # h => priority'[d][g] = priority[d][g]
        BY <1>0 DEF ListTyped
      <3> QED
        BY <3>1, <3>2, <3>3
    <2>3. Members(t, g) \subseteq Components
      BY DEF Members
    <2>4. Contains(list, c) <=> c \in Members(t, g)
      BY <2>1, ToSetFacts
    <2>5. CASE t = home[c] /\ g = h /\ c \in Members(t, g)
      <3>1. new = Inserted(RemoveFirst(list, c), c, order, pri2)
        <4>1. schedule' = [schedule EXCEPT ![home[c]][h] =
                            Inserted(RemoveFirst(@, c), c, order, StagePriority(priority', h))]
          BY <1>0, <2>4, <2>5 DEF SetPriority, Members
        <4> QED
          BY <1>0, <2>5, <4>1 DEF ListTyped
      <3> DEFINE rest == RemoveFirst(list, c)
      <3> HIDE DEF list, pri, pri2, new
      <3>2. /\ rest \in Seq(Components) /\ ToSet(rest) = ToSet(list) \ {c}
            /\ Ordered(rest, order, pri)
        BY <2>1, RemovedFacts
      <3> HIDE DEF rest
      <3>3. Ordered(rest, order, pri2)
        <4>1. \A e \in ToSet(rest) : order[e] = order[e] /\ pri2[e] = pri[e]
          BY <2>1, <2>2, <2>3, <3>2
        <4> QED
          BY <3>2, <4>1, OrderedCongruence
      <3>4. c \notin ToSet(rest) /\ \A e \in ToSet(rest) : order[e] # order[c]
        BY <1>0, <2>1, <2>5, <3>2 DEF Members, OrdersExact
      <3>5. /\ Inserted(rest, c, order, pri2) \in Seq(Components)
            /\ ToSet(Inserted(rest, c, order, pri2)) = ToSet(rest) \cup {c}
            /\ Ordered(Inserted(rest, c, order, pri2), order, pri2)
        BY <2>1, <2>2, <3>2, <3>3, <3>4, InsertedFacts
      <3>6. ToSet(rest) \cup {c} = Members(t, g)
        BY <2>1, <2>5, <3>2
      <3>7. new = Inserted(rest, c, order, pri2)
        BY <3>1 DEF rest
      <3> QED
        BY <3>5, <3>6, <3>7 DEF new, pri2
    <2>6. CASE ~ (t = home[c] /\ g = h /\ c \in Members(t, g))
      <3>1. new = list
        <4>1. CASE schedule' = schedule
          BY <4>1
        <4>2. CASE schedule' # schedule
          <5>1. /\ schedule' = [schedule EXCEPT ![home[c]][h] =
                                 Inserted(RemoveFirst(@, c), c, order, StagePriority(priority', h))]
                /\ home[c] # NoScene /\ h \in caps[c]
            BY <4>2 DEF SetPriority
          <5>2. t # home[c] \/ g # h
            BY <2>6, <5>1 DEF Members
          <5> QED
            BY <1>0, <5>1, <5>2 DEF ListTyped
        <4> QED
          BY <4>1, <4>2
      <3>2. \A e \in ToSet(list) : order[e] = order[e] /\ pri2[e] = pri[e]
        <4>1. c \in Members(t, g) => t = home[c]
          BY DEF Members
        <4>2. \A e \in Members(t, g) : e # c \/ g # h
          BY <2>6, <4>1
        <4> QED
          BY <2>1, <2>2, <2>3, <4>2
      <3> HIDE DEF list, pri, pri2, new
      <3>3. Ordered(list, order, pri2)
        BY <2>1, <3>2, OrderedCongruence
      <3> QED
        BY <2>1, <3>1, <3>3 DEF new, pri2
    <2> QED
      BY <2>5, <2>6
  <1>4. ListTyped'
    <2>1. schedule' \in [Scenes -> [Stages -> Seq(Components)]]
      <3>1. /\ DOMAIN schedule' = Scenes
            /\ schedule' = [t \in Scenes |-> schedule'[t]]
            /\ \A t \in Scenes : /\ DOMAIN schedule'[t] = Stages
                                  /\ schedule'[t] = [g \in Stages |-> schedule'[t][g]]
        BY <1>0 DEF ListTyped, SetPriority
      <3> QED
        BY <3>1, <1>3
    <2> QED
      BY <1>0, <1>1, <2>1 DEF ListTyped
  <1>5. \A t \in Scenes, g \in Stages : Members(t, g)' = Members(t, g)
    BY <1>0 DEF Members
  <1> QED
    BY <1>0, <1>2, <1>3, <1>4, <1>5 DEF ListInv, ListsExact, ListExact

\* Whatever touches neither keys nor lists keeps them exact.
LEMMA OthersLists ==
    ASSUME ListInv, UNCHANGED listVars
    PROVE  ListInv'
  BY DEF ListInv, ListTyped, OrdersExact, ListsExact, Members, listVars

-----------------------------------------------------------------------------
(* The queues of components to start. *)

PendingTyped ==
    /\ pending \in [Scenes -> Seq(Components)]
    /\ started \in [Components -> BOOLEAN]

PendingInv == PendingTyped /\ PendingExact

\* Nothing is queued at first.
LEMMA InitPending == Init => PendingInv
  <1> SUFFICES ASSUME Init PROVE PendingInv
    OBVIOUS
  <1>1. PendingTyped
    BY DEF Init, PendingTyped
  <1>2. ToSet(<<>>) = {} /\ IsInjective(<<>>)
    BY DEF ToSet, IsInjective
  <1>3. \A c \in Components, s \in Scenes : home[c] # s
    BY SchedulerAssumption DEF Init
  <1>4. \A s \in Scenes : pending[s] = <<>>
    BY DEF Init
  <1> QED
    BY <1>1, <1>2, <1>3, <1>4 DEF PendingInv, PendingExact

\* tc_scene_register_component queues a component not started, once.
LEMMA RegisterPending ==
    ASSUME ListInv, PendingInv, NEW s \in Scenes, NEW c \in Components, Register(s, c)
    PROVE  PendingInv'
  <1>0. /\ home' = [home EXCEPT ![c] = s] /\ home[c] \in {NoScene, s}
        /\ started' = started
        /\ pending' = IF Queues(s, c) THEN [pending EXCEPT ![s] = Append(@, c)] ELSE pending
        /\ home \in [Components -> Scenes \cup {NoScene}] /\ PendingTyped
        /\ NoScene \notin Scenes
    BY SchedulerAssumption DEF Register, ListInv, ListTyped, PendingInv
  <1>1. \A d \in Components : home'[d] = IF d = c THEN s ELSE home[d]
    BY <1>0
  <1>2. ASSUME NEW t \in Scenes
        PROVE  /\ pending'[t] \in Seq(Components)
               /\ IsInjective(pending'[t])
               /\ ToSet(pending'[t]) \subseteq {d \in Components : home'[d] = t}
               /\ {d \in Components : home'[d] = t /\ ~started'[d]} \subseteq ToSet(pending'[t])
    <2> DEFINE queue == pending[t]
    <2>1. /\ queue \in Seq(Components) /\ IsInjective(queue)
          /\ ToSet(queue) \subseteq {d \in Components : home[d] = t}
          /\ {d \in Components : home[d] = t /\ ~started[d]} \subseteq ToSet(queue)
      BY DEF PendingInv, PendingTyped, PendingExact
    <2>2. Contains(queue, c) <=> c \in ToSet(queue)
      BY <2>1, ToSetFacts
    <2>3. CASE t = s /\ Queues(s, c)
      <3>1. pending'[t] = Append(queue, c) /\ c \notin ToSet(queue)
        BY <1>0, <2>2, <2>3 DEF PendingTyped, Queues
      <3> HIDE DEF queue
      <3>2. /\ Append(queue, c) \in Seq(Components)
            /\ ToSet(Append(queue, c)) = ToSet(queue) \cup {c}
        BY <2>1, AppendFacts
      <3>3. IsInjective(Append(queue, c))
        BY <2>1, <3>1, AppendKeepsInjective
      <3> QED
        BY <1>0, <1>1, <2>1, <2>3, <3>1, <3>2, <3>3
    <2>4. CASE ~ (t = s /\ Queues(s, c))
      <3>1. pending'[t] = queue
        BY <1>0, <2>4 DEF PendingTyped
      <3>2. t = s => c \in ToSet(queue) \/ started[c]
        BY <2>2, <2>4 DEF Queues
      <3> QED
        BY <1>0, <1>1, <2>1, <3>1, <3>2
    <2> QED
      BY <2>3, <2>4
  <1>3. PendingTyped'
    <2>1. pending' = [t \in Scenes |-> pending'[t]]
      BY <1>0 DEF PendingTyped
    <2> QED
      BY <1>0, <1>2, <2>1 DEF PendingTyped
  <1> QED
    BY <1>2, <1>3 DEF PendingInv, PendingExact

\* tc_scene_unregister_component takes the component out of the queue.
LEMMA UnregisterPending ==
    ASSUME ListInv, PendingInv, NEW s \in Scenes, NEW c \in Components, NEW deletes \in BOOLEAN,
           Unregister(s, c, deletes)
    PROVE  PendingInv'
  <1>0. /\ home' = [home EXCEPT ![c] = NoScene] /\ home[c] = s
        /\ started' = started
        /\ pending' = [pending EXCEPT ![s] = RemoveFirst(@, c)]
        /\ home \in [Components -> Scenes \cup {NoScene}] /\ PendingTyped
        /\ NoScene \notin Scenes
    BY SchedulerAssumption DEF Unregister, ListInv, ListTyped, PendingInv
  <1>1. \A d \in Components : home'[d] = IF d = c THEN NoScene ELSE home[d]
    BY <1>0
  <1>2. ASSUME NEW t \in Scenes
        PROVE  /\ pending'[t] \in Seq(Components)
               /\ IsInjective(pending'[t])
               /\ ToSet(pending'[t]) \subseteq {d \in Components : home'[d] = t}
               /\ {d \in Components : home'[d] = t /\ ~started'[d]} \subseteq ToSet(pending'[t])
    <2> DEFINE queue == pending[t]
    <2>1. /\ queue \in Seq(Components) /\ IsInjective(queue)
          /\ ToSet(queue) \subseteq {d \in Components : home[d] = t}
          /\ {d \in Components : home[d] = t /\ ~started[d]} \subseteq ToSet(queue)
      BY DEF PendingInv, PendingTyped, PendingExact
    <2>2. pending'[t] = IF t = s THEN RemoveFirst(queue, c) ELSE queue
      BY <1>0 DEF PendingTyped
    <2> HIDE DEF queue
    <2>3. /\ RemoveFirst(queue, c) \in Seq(Components) /\ IsInjective(RemoveFirst(queue, c))
          /\ ToSet(RemoveFirst(queue, c)) = ToSet(queue) \ {c}
      BY <2>1, RemoveFirstFacts
    <2> QED
      BY <1>0, <1>1, <2>1, <2>2, <2>3
  <1>3. PendingTyped'
    <2>1. pending' = [t \in Scenes |-> pending'[t]]
      BY <1>0 DEF PendingTyped
    <2> QED
      BY <1>0, <1>2, <2>1 DEF PendingTyped
  <1> QED
    BY <1>2, <1>3 DEF PendingInv, PendingExact

-----------------------------------------------------------------------------
(* The pass. *)

Passes == [scene : Scenes \cup {NoScene}, mode : Modes,
           stage : Stages \cup {"idle", "start", "extensions"},
           snapshot : Seq(Components), index : Nat \ {0},
           fixedLeft : Nat, call : Components \cup {NoComponent}]

PassExact ==
    /\ pass.stage # "idle" => pass.scene \in Scenes
    /\ pass.stage = "idle" => pass.call = NoComponent
    /\ pass.stage = "start" /\ pass.call # NoComponent =>
          pass.index <= Len(pass.snapshot) /\ pass.call = pass.snapshot[pass.index]

PassInv == pass \in Passes /\ PassExact

\* The fields of the pass.
LEMMA PassFacts ==
    ASSUME PassInv
    PROVE  /\ pass.scene \in Scenes \cup {NoScene} /\ pass.mode \in Modes
           /\ pass.stage \in Stages \cup {"idle", "start", "extensions"}
           /\ pass.snapshot \in Seq(Components) /\ pass.index \in Nat \ {0}
           /\ pass.fixedLeft \in Nat /\ pass.call \in Components \cup {NoComponent}
           /\ pass = [scene |-> pass.scene, mode |-> pass.mode, stage |-> pass.stage,
                      snapshot |-> pass.snapshot, index |-> pass.index,
                      fixedLeft |-> pass.fixedLeft, call |-> pass.call]
           /\ PassExact
  BY DEF PassInv, Passes

\* The next component to call is the first one from the index that is wanted.
LEMMA NextIndexFacts ==
    ASSUME PassInv, ListInv, pass.stage \in Stages \cup {"start"}
    PROVE  /\ Walked \in Seq(Components)
           /\ NextIndex # 0 => /\ NextIndex \in pass.index .. Len(Walked)
                               /\ Wanted(Walked[NextIndex])
                               /\ \A i \in pass.index .. Len(Walked) :
                                    i < NextIndex => ~ Wanted(Walked[i])
           /\ NextIndex = 0 => \A i \in pass.index .. Len(Walked) : ~ Wanted(Walked[i])
  <1> DEFINE I == {i \in pass.index .. Len(Walked) : Wanted(Walked[i])}
  <1>1. Walked \in Seq(Components)
    <2>1. CASE pass.stage = "start"
      BY <2>1, PassFacts DEF Walked
    <2>2. CASE pass.stage \in Stages
      <3>1. pass.stage # "start" /\ pass.stage # "idle"
        BY <2>2 DEF Stages
      <3>2. pass.scene \in Scenes
        BY <3>1, PassFacts DEF PassExact
      <3>3. schedule[pass.scene][pass.stage] \in Seq(Components)
        BY <2>2, <3>2, OneList
      <3> QED
        BY <3>1, <3>3 DEF Walked
    <2> QED
      BY <2>1, <2>2
  <1>2. NextIndex = IF I # {} THEN Min(I) ELSE 0
    BY DEF NextIndex, SelectInSubSeq
  <1>3. I \in SUBSET Nat /\ pass.index \in Nat \ {0} /\ Len(Walked) \in Nat
    BY <1>1, PassFacts
  <1>4. CASE I = {}
    BY <1>1, <1>2, <1>4
  <1>5. CASE I # {}
    <2>1. NextIndex \in I /\ \A i \in I : NextIndex <= i
      <3> HIDE DEF I
      <3> QED
        BY <1>2, <1>3, <1>5, MinFacts
    <2>2. NextIndex # 0
      BY <1>3, <2>1
    <2>3. ASSUME NEW i \in pass.index .. Len(Walked), i < NextIndex PROVE ~ Wanted(Walked[i])
      <3>1. i \in I => NextIndex <= i
        BY <2>1
      <3>2. i \in Nat /\ NextIndex \in Nat
        BY <1>3, <2>1
      <3> QED
        BY <2>3, <3>1, <3>2
    <2> QED
      BY <1>1, <2>1, <2>2, <2>3
  <1> QED
    BY <1>4, <1>5

\* No pass runs at first.
LEMMA InitPass == Init => PassInv
  <1> SUFFICES ASSUME Init PROVE PassInv
    OBVIOUS
  <1>1. Idle \in Passes
    BY DEF Idle, Passes, Modes
  <1> QED
    BY <1>1 DEF Init, PassInv, PassExact, Idle

\* A pass begins on a scene, in front of its snapshot.
LEMMA BeginPass ==
    ASSUME PassInv, PendingInv, NEW s \in Scenes, NEW m \in Modes,
           BeginUpdate(s, m) \/ BeginUpdateNoMemory(s, m)
    PROVE  PassInv'
  <1>1. PICK queue \in Seq(Components) :
          pass' = [scene |-> s, mode |-> m, stage |-> "start", snapshot |-> queue,
                   index |-> 1, fixedLeft |-> 0, call |-> NoComponent]
    <2>1. pending[s] \in Seq(Components) /\ <<>> \in Seq(Components)
      BY DEF PendingInv, PendingTyped
    <2>2. CASE BeginUpdate(s, m)
      BY <2>1, <2>2 DEF BeginUpdate, Idle
    <2>3. CASE BeginUpdateNoMemory(s, m)
      BY <2>1, <2>3 DEF BeginUpdateNoMemory, Idle
    <2> QED
      BY <2>2, <2>3
  <1> QED
    BY <1>1 DEF PassInv, Passes, PassExact

\* The component called is the first one wanted from the index on, and the
\* pass keeps its index on it.
LEMMA CallPass ==
    ASSUME PassInv, ListInv, Call
    PROVE  /\ PassInv'
           /\ NextIndex \in pass.index .. Len(Walked) /\ Len(Walked) \in Nat
           /\ Walked[NextIndex] \in Components /\ Wanted(Walked[NextIndex])
           /\ pass'.call = Walked[NextIndex] /\ pass'.index = NextIndex
           /\ pass'.stage = pass.stage /\ pass'.scene = pass.scene
           /\ pass'.mode = pass.mode /\ pass'.snapshot = pass.snapshot
  <1>1. /\ pass.stage \in Stages \cup {"start"}
        /\ NextIndex # 0
        /\ pass' = [pass EXCEPT !.index = NextIndex, !.call = Walked[NextIndex]]
    BY DEF Call
  <1>2. /\ Walked \in Seq(Components) /\ NextIndex \in pass.index .. Len(Walked)
        /\ Wanted(Walked[NextIndex])
    BY <1>1, NextIndexFacts
  <1>3. /\ Len(Walked) \in Nat /\ pass.index \in Nat \ {0} /\ NextIndex \in Nat \ {0}
        /\ Walked[NextIndex] \in Components
    BY <1>2, PassFacts
  <1>4. pass' = [scene |-> pass.scene, mode |-> pass.mode, stage |-> pass.stage,
                 snapshot |-> pass.snapshot, index |-> NextIndex,
                 fixedLeft |-> pass.fixedLeft, call |-> Walked[NextIndex]]
    BY <1>1, PassFacts
  <1>5. pass' \in Passes
    BY <1>3, <1>4, PassFacts DEF Passes
  <1>6. PassExact'
    <2>1. pass.stage = "start" => Walked = pass.snapshot
      BY DEF Walked
    <2>2. pass.stage # "idle"
      BY <1>1 DEF Stages
    <2>3. pass.stage # "idle" => pass.scene \in Scenes
      BY PassFacts DEF PassExact
    <2> QED
      BY <1>2, <1>3, <1>4, <2>1, <2>2, <2>3 DEF PassExact
  <1> QED
    BY <1>2, <1>3, <1>4, <1>5, <1>6 DEF PassInv

\* The return of a callback moves the index past the component called.
LEMMA ReturnPass ==
    ASSUME PassInv, StartReturns \/ StageReturns
    PROVE  PassInv'
  <1>1. /\ pass.stage # "idle"
        /\ pass' = [pass EXCEPT !.index = @ + 1, !.call = NoComponent]
    BY DEF StartReturns, StageReturns, Stages
  <1>2. pass' = [scene |-> pass.scene, mode |-> pass.mode, stage |-> pass.stage,
                 snapshot |-> pass.snapshot, index |-> pass.index + 1,
                 fixedLeft |-> pass.fixedLeft, call |-> NoComponent]
    BY <1>1, PassFacts
  <1>3. pass' \in Passes
    BY <1>2, PassFacts DEF Passes
  <1>4. pass.scene \in Scenes
    BY <1>1, PassFacts DEF PassExact
  <1> QED
    BY <1>1, <1>2, <1>3, <1>4 DEF PassInv, PassExact

\* A pass that turns to a stage stands in front of its list.
LEMMA EnterPass ==
    ASSUME PassInv, NEW g \in Stages, NEW n \in Nat, pass.stage # "idle", Enter(g, n)
    PROVE  PassInv'
  <1>1. pass' = [scene |-> pass.scene, mode |-> pass.mode, stage |-> g,
                 snapshot |-> <<>>, index |-> 1,
                 fixedLeft |-> n, call |-> pass.call]
    BY PassFacts DEF Enter
  <1>2. pass' \in Passes
    <2>1. <<>> \in Seq(Components) /\ 1 \in Nat \ {0}
      OBVIOUS
    <2> QED
      BY <1>1, <2>1, PassFacts DEF Passes
  <1>3. pass.scene \in Scenes /\ g # "idle" /\ g # "start"
    BY PassFacts DEF PassExact, Stages
  <1> QED
    BY <1>1, <1>2, <1>3 DEF PassInv, PassExact

PhaseEnds ==
    \/ \E due \in 0 .. MaxFixedSteps : StartDone(due)
    \/ FixedUpdateDone
    \/ UpdateDone
    \/ ExtensionsDone
    \/ LateUpdateDone

\* The end of a phase keeps the pass in shape and calls nobody.
LEMMA PhasePass ==
    ASSUME PassInv, PhaseEnds
    PROVE  PassInv' /\ (pass'.call = pass.call \/ pass'.call = NoComponent)
  <1>0. /\ "update" \in Stages /\ "fixed_update" \in Stages /\ "late_update" \in Stages /\ 0 \in Nat
        /\ pass.stage # "idle"
    BY DEF Stages, PhaseEnds, StartDone, FixedUpdateDone, UpdateDone, ExtensionsDone, LateUpdateDone
  <1>1. ASSUME NEW g \in Stages, NEW n \in Nat, Enter(g, n)
        PROVE  PassInv' /\ pass'.call = pass.call
    <2>1. PassInv'
      BY <1>0, <1>1, EnterPass
    <2>2. pass'.call = pass.call
      BY <1>1, PassFacts DEF Enter
    <2> QED
      BY <2>1, <2>2
  <1>2. ASSUME NEW due \in 0 .. MaxFixedSteps, StartDone(due)
        PROVE  \E g \in Stages, n \in Nat : Enter(g, n)
    <2>1. due \in Nat /\ (due # 0 => due - 1 \in Nat)
      BY SchedulerAssumption
    <2> QED
      BY <1>0, <1>2, <2>1 DEF StartDone
  <1>3. CASE FixedUpdateDone
    <2>1. pass.fixedLeft \in Nat /\ (pass.fixedLeft # 0 => pass.fixedLeft - 1 \in Nat)
      BY PassFacts
    <2>2. \E g \in Stages, n \in Nat : Enter(g, n)
      BY <1>0, <1>3, <2>1 DEF FixedUpdateDone
    <2> QED
      BY <1>1, <2>2
  <1>4. CASE UpdateDone
    <2>1. pass' = [scene |-> pass.scene, mode |-> pass.mode, stage |-> "extensions",
                   snapshot |-> pass.snapshot, index |-> 1,
                   fixedLeft |-> pass.fixedLeft, call |-> pass.call]
      BY <1>4, PassFacts DEF UpdateDone
    <2>2. pass' \in Passes
      BY <2>1, PassFacts DEF Passes
    <2>3. pass.scene \in Scenes
      BY <1>0, PassFacts DEF PassExact
    <2> QED
      BY <2>1, <2>2, <2>3 DEF PassInv, PassExact
  <1>5. CASE ExtensionsDone
    BY <1>0, <1>1, <1>5 DEF ExtensionsDone
  <1>6. CASE LateUpdateDone
    <2>1. pass' = Idle /\ Idle \in Passes
      BY <1>6 DEF LateUpdateDone, Idle, Passes, Modes
    <2> QED
      BY <2>1 DEF PassInv, PassExact, Idle
  <1> QED
    BY <1>1, <1>2, <1>3, <1>4, <1>5, <1>6 DEF PhaseEnds

\* A component that has been started leaves the queue.
LEMMA StartReturnsPending ==
    ASSUME ListInv, PendingInv, PassInv, StartReturns
    PROVE  /\ PendingInv'
           /\ \A s \in Scenes : ToSet(pending'[s]) =
                IF s = pass.scene THEN ToSet(pending[s]) \ {pass.call} ELSE ToSet(pending[s])
  <1> DEFINE c == pass.call
  <1>0. /\ c \in Components /\ pass.scene \in Scenes
        /\ home' = home
        /\ started' = [started EXCEPT ![c] = @ \/ c \in alive]
        /\ pending' = [pending EXCEPT ![pass.scene] = RemoveFirst(@, c)]
        /\ ListTyped /\ OrdersExact /\ PendingTyped /\ NoScene \notin Scenes
    BY SchedulerAssumption, PassFacts DEF StartReturns, PassExact, ListInv, PendingInv
  <1> HIDE DEF c
  <1>1. started' \in [Components -> BOOLEAN]
    BY <1>0 DEF PendingTyped
  <1>2. \A d \in Components : /\ started[d] => started'[d]
                              /\ d # c => (started'[d] <=> started[d])
    BY <1>0 DEF PendingTyped
  <1>3. started'[c] \/ home[c] = NoScene
    BY <1>0 DEF OrdersExact, PendingTyped
  <1>4. ASSUME NEW t \in Scenes
        PROVE  /\ pending'[t] \in Seq(Components)
               /\ IsInjective(pending'[t])
               /\ ToSet(pending'[t]) \subseteq {d \in Components : home'[d] = t}
               /\ {d \in Components : home'[d] = t /\ ~started'[d]} \subseteq ToSet(pending'[t])
               /\ ToSet(pending'[t]) = IF t = pass.scene THEN ToSet(pending[t]) \ {c} ELSE ToSet(pending[t])
    <2> DEFINE queue == pending[t]
    <2>1. /\ queue \in Seq(Components) /\ IsInjective(queue)
          /\ ToSet(queue) \subseteq {d \in Components : home[d] = t}
          /\ {d \in Components : home[d] = t /\ ~started[d]} \subseteq ToSet(queue)
      BY DEF PendingInv, PendingTyped, PendingExact
    <2>2. pending'[t] = IF t = pass.scene THEN RemoveFirst(queue, c) ELSE queue
      BY <1>0 DEF PendingTyped
    <2>3. /\ RemoveFirst(queue, c) \in Seq(Components) /\ IsInjective(RemoveFirst(queue, c))
          /\ ToSet(RemoveFirst(queue, c)) = ToSet(queue) \ {c}
      <3> HIDE DEF queue
      <3> QED
        BY <2>1, RemoveFirstFacts
    <2>4. {d \in Components : home'[d] = t /\ ~started'[d]}
            \subseteq {d \in Components : home[d] = t /\ ~started[d]} \ {c}
      BY <1>0, <1>2, <1>3
    <2>5. /\ pending'[t] \in Seq(Components) /\ IsInjective(pending'[t])
          /\ ToSet(pending'[t]) = IF t = pass.scene THEN ToSet(queue) \ {c} ELSE ToSet(queue)
      BY <2>1, <2>2, <2>3
    <2>6. ToSet(queue) \ {c} \subseteq ToSet(pending'[t]) /\ ToSet(pending'[t]) \subseteq ToSet(queue)
      BY <2>5
    <2>7. ToSet(pending'[t]) \subseteq {d \in Components : home'[d] = t}
      BY <1>0, <2>1, <2>6
    <2>8. {d \in Components : home'[d] = t /\ ~started'[d]} \subseteq ToSet(pending'[t])
      BY <2>1, <2>4, <2>6
    <2> QED
      BY <2>5, <2>7, <2>8
  <1>5. PendingTyped'
    <2>1. pending' = [t \in Scenes |-> pending'[t]]
      BY <1>0 DEF PendingTyped
    <2> QED
      BY <1>1, <1>4, <2>1 DEF PendingTyped
  <1> QED
    BY <1>4, <1>5 DEF PendingInv, PendingExact, c

\* Whatever touches neither queues nor registrations keeps the queues exact.
LEMMA OthersPending ==
    ASSUME PendingInv, UNCHANGED <<home, started, pending>>
    PROVE  PendingInv'
  BY DEF PendingInv, PendingTyped, PendingExact

-----------------------------------------------------------------------------
(* The revisions. *)

Revisions == 0 .. RevisionModulus - 1

(* A processed revision is never ahead of the scene's. *)
RevisionInv ==
    /\ revision \in [Scenes -> Revisions]
    /\ processed \in [Scenes -> [Modes -> Revisions]]
    /\ \A s \in Scenes, m \in Modes : processed[s][m] <= revision[s]

\* The revisions start at zero.
LEMMA InitRevision == Init => RevisionInv
  BY SchedulerAssumption DEF Init, RevisionInv, Revisions

\* A mark makes the scene's revision new for both modes, also when it wraps.
LEMMA MarkFacts ==
    ASSUME RevisionInv, NEW s \in Scenes, MarkStartability(s)
    PROVE  /\ RevisionInv'
           /\ \A m \in Modes : processed'[s][m] # revision'[s]
           /\ \A t \in Scenes : t # s =>
                revision'[t] = revision[t] /\ processed'[t] = processed[t]
  <1>1. /\ revision' = [revision EXCEPT ![s] = NextRevision(@)]
        /\ processed' = IF revision[s] + 1 = RevisionModulus
                        THEN [processed EXCEPT ![s] = [m \in Modes |-> 0]]
                        ELSE processed
    BY DEF MarkStartability, ForgetsOnWrap
  <1>2. /\ revision[s] \in Nat /\ revision[s] < RevisionModulus
        /\ RevisionModulus \in Nat /\ RevisionModulus > 1
        /\ \A m \in Modes : processed[s][m] \in Nat /\ processed[s][m] <= revision[s]
    BY SchedulerAssumption DEF RevisionInv, Revisions
  <1>3. /\ revision'[s] = IF revision[s] + 1 = RevisionModulus THEN 1 ELSE revision[s] + 1
        /\ revision'[s] \in Revisions
        /\ \A t \in Scenes : t # s => revision'[t] = revision[t]
        /\ revision' = [t \in Scenes |-> revision'[t]]
    <2>1. /\ revision'[s] = NextRevision(revision[s])
          /\ \A t \in Scenes : t # s => revision'[t] = revision[t]
          /\ revision' = [t \in Scenes |-> revision'[t]]
      BY <1>1 DEF RevisionInv
    <2>2. revision'[s] = IF revision[s] + 1 = RevisionModulus THEN 1 ELSE revision[s] + 1
      BY <2>1 DEF NextRevision
    <2>3. revision'[s] \in Revisions
      BY <1>2, <2>2 DEF Revisions
    <2> QED
      BY <2>1, <2>2, <2>3
  <1>4. revision' \in [Scenes -> Revisions]
    BY <1>3 DEF RevisionInv
  <1>5. CASE revision[s] + 1 = RevisionModulus
    <2>1. /\ \A m \in Modes : processed'[s][m] = 0
          /\ \A t \in Scenes : t # s => processed'[t] = processed[t]
          /\ processed' \in [Scenes -> [Modes -> Revisions]]
      BY <1>1, <1>2, <1>5 DEF RevisionInv, Revisions
    <2>2. revision'[s] = 1
      BY <1>3, <1>5
    <2> QED
      BY <1>3, <1>4, <2>1, <2>2 DEF RevisionInv
  <1>6. CASE revision[s] + 1 # RevisionModulus
    <2>1. processed' = processed /\ revision'[s] = revision[s] + 1
      BY <1>1, <1>3, <1>6
    <2>2. \A m \in Modes : processed'[s][m] < revision'[s]
      BY <1>2, <2>1
    <2>3. \A m \in Modes : processed'[s][m] <= revision'[s] /\ processed'[s][m] # revision'[s]
      BY <1>2, <2>1, <2>2
    <2> QED
      BY <1>3, <1>4, <2>1, <2>3 DEF RevisionInv
  <1> QED
    BY <1>5, <1>6

\* A mark of the scene a component is registered with, if any.
LEMMA MarkHomeFacts ==
    ASSUME RevisionInv, ListInv, NEW c \in Components, MarkHome(c)
    PROVE  /\ RevisionInv'
           /\ home[c] \in Scenes => \A m \in Modes : processed'[home[c]][m] # revision'[home[c]]
           /\ \A t \in Scenes : t # home[c] =>
                revision'[t] = revision[t] /\ processed'[t] = processed[t]
  <1>1. home[c] \in Scenes \cup {NoScene} /\ NoScene \notin Scenes
    BY SchedulerAssumption DEF ListInv, ListTyped
  <1>2. CASE home[c] = NoScene
    <2>1. UNCHANGED <<revision, processed>>
      BY <1>2 DEF MarkHome, Unmarked
    <2> QED
      BY <1>1, <1>2, <2>1 DEF RevisionInv
  <1>3. CASE home[c] \in Scenes
    <2>1. MarkStartability(home[c])
      BY <1>1, <1>3 DEF MarkHome
    <2> QED
      BY <1>3, <2>1, MarkFacts
  <1> QED
    BY <1>1, <1>2, <1>3

\* process_pending_start marks the revision it has read as processed.
LEMMA BeginRevision ==
    ASSUME RevisionInv, NEW s \in Scenes, NEW m \in Modes, BeginUpdate(s, m)
    PROVE  RevisionInv'
  <1>1. /\ processed' = [processed EXCEPT ![s][m] = revision[s]]
        /\ revision' = revision /\ revision[s] \in Revisions
    BY DEF BeginUpdate, RevisionInv
  <1>2. processed' \in [Scenes -> [Modes -> Revisions]]
    BY <1>1 DEF RevisionInv
  <1>3. ASSUME NEW t \in Scenes, NEW n \in Modes PROVE processed'[t][n] <= revision'[t]
    <2>1. processed'[t][n] = IF t = s /\ n = m THEN revision[s] ELSE processed[t][n]
      BY <1>1 DEF RevisionInv
    <2>2. revision[s] \in Int
      BY <1>1 DEF Revisions
    <2> QED
      BY <1>1, <2>1, <2>2 DEF RevisionInv
  <1> QED
    BY <1>1, <1>2, <1>3 DEF RevisionInv

\* Whatever leaves the revisions alone keeps them in range.
LEMMA OthersRevision ==
    ASSUME RevisionInv, UNCHANGED <<revision, processed>>
    PROVE  RevisionInv'
  BY DEF RevisionInv

-----------------------------------------------------------------------------
(* The shortcut: no component that could start is forgotten. *)

\* A newly queued component makes the revision new for both modes.
LEMMA RegisterForgets ==
    ASSUME PendingInv, RevisionInv, NoForgottenStart,
           NEW s \in Scenes, NEW c \in Components, Register(s, c)
    PROVE  NoForgottenStart' /\ RevisionInv'
  <1>0. UNCHANGED <<enabled, inEditor, pass>>
    BY DEF Register, Edit
  <1>1. CASE Queues(s, c)
    <2>1. MarkStartability(s) /\ pending' = [pending EXCEPT ![s] = Append(@, c)]
      BY <1>1 DEF Register
    <2>2. /\ RevisionInv'
          /\ \A m \in Modes : processed'[s][m] # revision'[s]
          /\ \A t \in Scenes : t # s =>
               revision'[t] = revision[t] /\ processed'[t] = processed[t]
      BY <2>1, MarkFacts
    <2>3. \A t \in Scenes : t # s => pending'[t] = pending[t]
      BY <2>1 DEF PendingInv, PendingTyped
    <2> QED
      BY <1>0, <2>2, <2>3 DEF NoForgottenStart, Startable, ToStart
  <1>2. CASE ~Queues(s, c)
    <2>1. UNCHANGED <<pending, revision, processed>>
      BY <1>2 DEF Register, Unmarked
    <2> QED
      BY <1>0, <2>1 DEF NoForgottenStart, Startable, ToStart, RevisionInv
  <1> QED
    BY <1>1, <1>2

\* A component that leaves the queue is nobody to forget.
LEMMA UnregisterForgets ==
    ASSUME PendingInv, NoForgottenStart,
           NEW s \in Scenes, NEW c \in Components, NEW deletes \in BOOLEAN,
           Unregister(s, c, deletes)
    PROVE  NoForgottenStart'
  <1>1. /\ UNCHANGED <<enabled, inEditor, pass, revision, processed>>
        /\ pending' = [pending EXCEPT ![s] = RemoveFirst(@, c)]
    BY DEF Unregister, Edit, Unmarked
  <1>2. ASSUME NEW t \in Scenes PROVE ToSet(pending'[t]) \subseteq ToSet(pending[t])
    <2>1. pending[t] \in Seq(Components) /\ IsInjective(pending[t])
      BY DEF PendingInv, PendingTyped, PendingExact
    <2>2. ToSet(RemoveFirst(pending[t], c)) = ToSet(pending[t]) \ {c}
      BY <2>1, RemoveFirstFacts
    <2>3. pending'[t] = IF t = s THEN RemoveFirst(pending[t], c) ELSE pending[t]
      BY <1>1 DEF PendingInv, PendingTyped
    <2> QED
      BY <2>2, <2>3
  <1> QED
    BY <1>1, <1>2 DEF NoForgottenStart, Startable, ToStart

\* A component that is enabled, or made active in the editor, makes the
\* revision of its scene new, so that the next pass looks at it.
LEMMA EnabledForgets ==
    ASSUME ListInv, PendingInv, RevisionInv, NoForgottenStart,
           enabled \in [Components -> BOOLEAN], inEditor \in [Components -> BOOLEAN],
           NEW c \in Components, SetEnabled(c) \/ SetActiveInEditor(c)
    PROVE  NoForgottenStart' /\ RevisionInv'
  <1>1. /\ UNCHANGED <<pass, pending, home>> /\ MarkHome(c)
        /\ \A d \in Components : d # c => enabled'[d] = enabled[d] /\ inEditor'[d] = inEditor[d]
    BY DEF SetEnabled, SetActiveInEditor, Edit
  <1>2. /\ RevisionInv'
        /\ home[c] \in Scenes => \A m \in Modes : processed'[home[c]][m] # revision'[home[c]]
        /\ \A t \in Scenes : t # home[c] =>
             revision'[t] = revision[t] /\ processed'[t] = processed[t]
    BY <1>1, MarkHomeFacts
  <1>3. ASSUME NEW t \in Scenes, NEW m \in Modes, processed'[t][m] = revision'[t]
        PROVE  {d \in ToSet(pending'[t]) : Startable(m, d)'} \subseteq ToStart(t, m)'
    <2>1. t # home[c]
      BY <1>2, <1>3
    <2>2. processed[t][m] = revision[t]
      BY <1>2, <1>3, <2>1
    <2>3. {d \in ToSet(pending[t]) : Startable(m, d)} \subseteq ToStart(t, m)
      BY <2>2 DEF NoForgottenStart
    <2>4. ToSet(pending[t]) \subseteq Components /\ c \notin ToSet(pending[t])
      BY <2>1 DEF PendingInv, PendingExact
    <2>5. \A d \in ToSet(pending[t]) : Startable(m, d)' <=> Startable(m, d)
      BY <1>1, <2>4 DEF Startable
    <2>6. ToStart(t, m)' = ToStart(t, m)
      BY <1>1 DEF ToStart
    <2> QED
      BY <1>1, <2>3, <2>5, <2>6
  <1> QED
    BY <1>2, <1>3 DEF NoForgottenStart

\* Whatever touches neither queues, flags nor revisions forgets nobody.
LEMMA OthersForget ==
    ASSUME NoForgottenStart, UNCHANGED <<enabled, inEditor, pending, revision, processed, pass>>
    PROVE  NoForgottenStart'
  BY DEF NoForgottenStart, Startable, ToStart

\* process_pending_start marks its revision before its callbacks: what it
\* has yet to start is in the snapshot.
LEMMA BeginForgets ==
    ASSUME PendingInv, RevisionInv, NoForgottenStart, NEW s \in Scenes, NEW m \in Modes,
           BeginUpdate(s, m)
    PROVE  NoForgottenStart'
  <1>1. /\ pass.stage = "idle"
        /\ UNCHANGED <<enabled, inEditor, pending, revision>>
        /\ processed' = [processed EXCEPT ![s][m] = revision[s]]
        /\ pass' = [scene |-> s, mode |-> m, stage |-> "start",
                    snapshot |-> IF processed[s][m] = revision[s] THEN <<>> ELSE pending[s],
                    index |-> 1, fixedLeft |-> 0, call |-> NoComponent]
    BY DEF BeginUpdate, component, Idle
  <1>2. ASSUME NEW t \in Scenes, NEW n \in Modes, processed'[t][n] = revision'[t]
        PROVE  {d \in ToSet(pending'[t]) : Startable(n, d)'} \subseteq ToStart(t, n)'
    <2>1. ToStart(t, n) = {}
      BY <1>1 DEF ToStart
    <2>2. {d \in ToSet(pending'[t]) : Startable(n, d)'} = {d \in ToSet(pending[t]) : Startable(n, d)}
      BY <1>1 DEF Startable
    <2>3. CASE t = s /\ n = m /\ processed[s][m] # revision[s]
      <3>1. pass'.snapshot = pending[s] /\ pass'.stage = "start" /\ pass'.scene = s
            /\ pass'.mode = m /\ pass'.index = 1
        BY <1>1, <2>3
      <3>2. ToStart(t, n)' = {pending[s][i] : i \in 1 .. Len(pending[s])}
        BY <2>3, <3>1 DEF ToStart
      <3>3. ToSet(pending[s]) = {pending[s][i] : i \in 1 .. Len(pending[s])}
        BY ToSetFacts DEF PendingInv, PendingTyped
      <3> QED
        BY <2>2, <2>3, <3>2, <3>3
    <2>4. CASE ~ (t = s /\ n = m /\ processed[s][m] # revision[s])
      <3>1. processed[t][n] = revision[t]
        BY <1>1, <1>2, <2>4 DEF RevisionInv
      <3>2. {d \in ToSet(pending[t]) : Startable(n, d)} \subseteq {}
        BY <2>1, <3>1 DEF NoForgottenStart
      <3> QED
        BY <2>2, <3>2
    <2> QED
      BY <2>3, <2>4
  <1> QED
    BY <1>2 DEF NoForgottenStart

\* A pass without memory for its snapshot marks nothing as processed.
LEMMA NoMemoryForgets ==
    ASSUME NoForgottenStart, NEW s \in Scenes, NEW m \in Modes, BeginUpdateNoMemory(s, m)
    PROVE  NoForgottenStart'
  <1>1. /\ pass.stage = "idle" /\ processed[s][m] # revision[s]
        /\ UNCHANGED <<enabled, inEditor, pending, revision, processed>>
        /\ pass'.scene = s /\ pass'.mode = m
    BY DEF BeginUpdateNoMemory, component, scene, Idle
  <1>2. ASSUME NEW t \in Scenes, NEW n \in Modes, processed'[t][n] = revision'[t]
        PROVE  {d \in ToSet(pending'[t]) : Startable(n, d)'} \subseteq ToStart(t, n)'
    <2>1. ToStart(t, n) = {}
      BY <1>1 DEF ToStart
    <2>2. {d \in ToSet(pending'[t]) : Startable(n, d)'} = {d \in ToSet(pending[t]) : Startable(n, d)}
      BY <1>1 DEF Startable
    <2>3. {d \in ToSet(pending[t]) : Startable(n, d)} \subseteq {}
      BY <1>1, <1>2, <2>1 DEF NoForgottenStart
    <2> QED
      BY <2>2, <2>3
  <1> QED
    BY <1>2 DEF NoForgottenStart

\* What a pass skips on its way to the next component could not start.
LEMMA CallForgets ==
    ASSUME ListInv, PendingInv, PassInv, NoForgottenStart, Call
    PROVE  NoForgottenStart'
  <1>1. /\ UNCHANGED <<enabled, inEditor, pending, revision, processed>>
        /\ pass.stage \in Stages \cup {"start"} /\ NextIndex # 0
    BY DEF Call, component, scene
  <1>2. /\ pass'.index = NextIndex /\ pass'.stage = pass.stage /\ pass'.scene = pass.scene
        /\ pass'.mode = pass.mode /\ pass'.snapshot = pass.snapshot
    BY CallPass
  <1>3. \A i \in pass.index .. Len(Walked) : i < NextIndex => ~ Wanted(Walked[i])
    BY <1>1, NextIndexFacts
  <1>4. NextIndex \in pass.index .. Len(Walked) /\ Len(Walked) \in Nat
    BY CallPass
  <1>5. ASSUME NEW t \in Scenes, NEW n \in Modes, processed'[t][n] = revision'[t]
        PROVE  {d \in ToSet(pending'[t]) : Startable(n, d)'} \subseteq ToStart(t, n)'
    <2>1. {d \in ToSet(pending'[t]) : Startable(n, d)'} = {d \in ToSet(pending[t]) : Startable(n, d)}
      BY <1>1 DEF Startable
    <2>2. {d \in ToSet(pending[t]) : Startable(n, d)} \subseteq ToStart(t, n)
      BY <1>1, <1>5 DEF NoForgottenStart
    <2>3. CASE pass.stage = "start" /\ pass.scene = t /\ pass.mode = n
      <3>1. Walked = pass.snapshot
        BY <2>3 DEF Walked
      <3>2. /\ ToStart(t, n) = {pass.snapshot[i] : i \in pass.index .. Len(pass.snapshot)}
            /\ ToStart(t, n)' = {pass.snapshot[i] : i \in NextIndex .. Len(pass.snapshot)}
        BY <1>2, <2>3 DEF ToStart
      <3>3. \A i \in pass.index .. Len(pass.snapshot) : i < NextIndex =>
              ~ (pass.snapshot[i] \in ToSet(pending[t]) /\ Startable(n, pass.snapshot[i]))
        <4>1. pending[t] \in Seq(Components)
          BY DEF PendingInv, PendingTyped
        <4>2. \A d : Wanted(d) <=> d \in ToSet(pending[t]) /\ Startable(n, d)
          BY <2>3, <4>1, ToSetFacts DEF Wanted
        <4> QED
          BY <1>3, <3>1, <4>2
      <3>4. ASSUME NEW d \in ToSet(pending[t]), Startable(n, d) PROVE d \in ToStart(t, n)'
        <4>1. PICK i \in pass.index .. Len(pass.snapshot) : d = pass.snapshot[i]
          BY <2>2, <3>2, <3>4
        <4>2. ~ (i < NextIndex)
          BY <3>3, <3>4, <4>1
        <4>3. i \in NextIndex .. Len(pass.snapshot)
          BY <1>4, <3>1, <4>2, PassFacts
        <4> QED
          BY <3>2, <4>1, <4>3
      <3> QED
        BY <2>1, <3>4
    <2>4. CASE ~ (pass.stage = "start" /\ pass.scene = t /\ pass.mode = n)
      <3>1. ToStart(t, n) = {}
        BY <2>4 DEF ToStart
      <3> QED
        BY <2>1, <2>2, <3>1
    <2> QED
      BY <2>3, <2>4
  <1> QED
    BY <1>5 DEF NoForgottenStart

\* A component that was started is out of the queue.
LEMMA StartReturnsForgets ==
    ASSUME ListInv, PendingInv, PassInv, NoForgottenStart, StartReturns
    PROVE  NoForgottenStart'
  <1>1. /\ UNCHANGED <<enabled, inEditor, revision, processed>>
        /\ pass.stage = "start" /\ pass.call # NoComponent
        /\ pass' = [pass EXCEPT !.index = @ + 1, !.call = NoComponent]
    BY DEF StartReturns
  <1>2. /\ pass'.index = pass.index + 1 /\ pass'.stage = "start" /\ pass'.scene = pass.scene
        /\ pass'.mode = pass.mode /\ pass'.snapshot = pass.snapshot
    BY <1>1, PassFacts
  <1>3. /\ pass.index \in Nat /\ Len(pass.snapshot) \in Nat
        /\ pass.index <= Len(pass.snapshot) /\ pass.call = pass.snapshot[pass.index]
    BY <1>1, PassFacts DEF PassExact
  <1>4. \A s \in Scenes : ToSet(pending'[s]) =
          IF s = pass.scene THEN ToSet(pending[s]) \ {pass.call} ELSE ToSet(pending[s])
    BY StartReturnsPending
  <1>5. ASSUME NEW t \in Scenes, NEW n \in Modes, processed'[t][n] = revision'[t],
               NEW d \in ToSet(pending'[t]), Startable(n, d)'
        PROVE  d \in ToStart(t, n)'
    <2>1. /\ d \in ToSet(pending[t]) /\ Startable(n, d)
          /\ t = pass.scene => d # pass.call
      BY <1>1, <1>4, <1>5 DEF Startable
    <2>2. d \in ToStart(t, n)
      BY <1>1, <1>5, <2>1 DEF NoForgottenStart
    <2>3. /\ pass.scene = t /\ pass.mode = n
          /\ d \in {pass.snapshot[i] : i \in pass.index .. Len(pass.snapshot)}
      BY <2>2 DEF ToStart
    <2>4. PICK i \in pass.index .. Len(pass.snapshot) : d = pass.snapshot[i]
      BY <2>3
    <2>5. i # pass.index
      BY <1>3, <2>1, <2>3, <2>4
    <2>6. i \in pass.index + 1 .. Len(pass.snapshot)
      BY <1>3, <2>4, <2>5
    <2>7. ToStart(t, n)' = {pass.snapshot[j] : j \in pass.index + 1 .. Len(pass.snapshot)}
      BY <1>2, <2>3 DEF ToStart
    <2> QED
      BY <2>4, <2>6, <2>7
  <1> QED
    BY <1>5 DEF NoForgottenStart

\* When the start phase ends nobody in the queue could start.
LEMMA PhaseForgets ==
    ASSUME ListInv, PendingInv, PassInv, NoForgottenStart, StageReturns \/ PhaseEnds
    PROVE  NoForgottenStart'
  <1>1. UNCHANGED <<enabled, inEditor, pending, revision, processed>>
    BY DEF StageReturns, PhaseEnds, StartDone, FixedUpdateDone, UpdateDone, ExtensionsDone,
           LateUpdateDone, Enter, component, scene
  <1>2. pass.stage = "start" => WalkedOut
    BY DEF StageReturns, PhaseEnds, StartDone, FixedUpdateDone, UpdateDone, ExtensionsDone,
           LateUpdateDone, Stages
  <1>3. ASSUME NEW t \in Scenes, NEW n \in Modes, processed[t][n] = revision[t],
               NEW d \in ToSet(pending[t])
        PROVE  ~ Startable(n, d)
    <2> SUFFICES ASSUME Startable(n, d) PROVE FALSE
      OBVIOUS
    <2>1. d \in ToStart(t, n)
      BY <1>3 DEF NoForgottenStart
    <2>2. /\ pass.stage = "start" /\ pass.scene = t /\ pass.mode = n
          /\ d \in {pass.snapshot[i] : i \in pass.index .. Len(pass.snapshot)}
      BY <2>1 DEF ToStart
    <2>3. PICK i \in pass.index .. Len(pass.snapshot) : d = pass.snapshot[i]
      BY <2>2
    <2>4. Walked = pass.snapshot /\ NextIndex = 0
      BY <1>2, <2>2 DEF Walked, WalkedOut
    <2>5. ~ Wanted(d)
      BY <2>2, <2>3, <2>4, NextIndexFacts
    <2>6. Contains(pending[t], d)
      BY <1>3, ToSetFacts DEF PendingInv, PendingTyped
    <2> QED
      BY <2>2, <2>5, <2>6 DEF Wanted
  <1> QED
    BY <1>1, <1>3 DEF NoForgottenStart, Startable

(* No pass has begun: the queues are empty. *)
LEMMA InitForgets == Init => NoForgottenStart
  <1> SUFFICES ASSUME Init, NEW s \in Scenes PROVE ToSet(pending[s]) = {}
    BY DEF NoForgottenStart
  <1>1. pending[s] = <<>>
    BY DEF Init
  <1> QED
    BY <1>1 DEF ToSet

-----------------------------------------------------------------------------
(* The flags and the history of the walk. *)

Sweeps == [steady : SUBSET Components, called : SUBSET Components, shifted : BOOLEAN]

Flags == [Components -> BOOLEAN]

OtherTyped ==
    /\ enabled \in Flags /\ inEditor \in Flags /\ entityOn \in Flags
    /\ sweep \in Sweeps
    /\ edits \in 0 .. MaxEdits

(* Components start enabled, and no edit has been made. *)
LEMMA InitOther == Init => OtherTyped
  BY SchedulerAssumption DEF Init, OtherTyped, Flags, Sweeps, NoSweep

(* What an edit does to the walk in progress only narrows its history. *)
LEMMA SweepNoticesTyped ==
    ASSUME OtherTyped, SweepNotices
    PROVE  sweep' \in Sweeps
  <1>1. CASE pass.stage \notin Stages
    BY <1>1 DEF SweepNotices, OtherTyped
  <1>2. CASE pass.stage \in Stages
    <2> DEFINE kept == {c \in sweep.steady : Due(c)' /\ Contains(Walked', c)}
               moved == sweep.shifted \/ WalkedSoFar' # WalkedSoFar
    <2>1. sweep' = [sweep EXCEPT !.steady = kept, !.shifted = moved]
      BY <1>2 DEF SweepNotices
    <2>2. kept \subseteq sweep.steady /\ moved \in BOOLEAN
      OBVIOUS
    <2> HIDE DEF kept, moved
    <2>3. kept \in SUBSET Components
      BY <2>2 DEF OtherTyped, Sweeps
    <2> QED
      BY <2>1, <2>2, <2>3 DEF OtherTyped, Sweeps
  <1> QED
    BY <1>1, <1>2

(* A flag of one component is turned over. *)
LEMMA FlagFacts ==
    ASSUME NEW flag \in Flags, NEW c \in Components
    PROVE  [flag EXCEPT ![c] = ~@] \in Flags
  BY DEF Flags

(* Which call of the scene API an edit is. *)
LEMMA EditChoice ==
    ASSUME Edits
    PROVE  \E c \in Components :
             \/ \E s \in Scenes : Register(s, c)
             \/ \E s \in Scenes, deletes \in BOOLEAN : Unregister(s, c, deletes)
             \/ SetEnabled(c)
             \/ SetActiveInEditor(c)
             \/ SetEntityEnabled(c)
             \/ \E stages \in CapabilityChoices : SetCapabilities(c, stages)
             \/ \E g \in Stages, p \in Priorities : SetPriority(c, g, p)
  BY DEF Edits

(* Every call of the scene API counts as an edit, is noticed by the walk    *)
(* in progress and turns over one flag at most.                            *)
LEMMA EditParts ==
    ASSUME Edits
    PROVE  /\ Edit /\ SweepNotices
           /\ \E c \in Components :
                 /\ enabled' = enabled \/ enabled' = [enabled EXCEPT ![c] = ~@]
                 /\ inEditor' = inEditor \/ inEditor' = [inEditor EXCEPT ![c] = ~@]
                 /\ entityOn' = entityOn \/ entityOn' = [entityOn EXCEPT ![c] = ~@]
  <1> DEFINE Flip(c, e, i, n) ==
               /\ Edit /\ SweepNotices
               /\ enabled' = IF e THEN [enabled EXCEPT ![c] = ~@] ELSE enabled
               /\ inEditor' = IF i THEN [inEditor EXCEPT ![c] = ~@] ELSE inEditor
               /\ entityOn' = IF n THEN [entityOn EXCEPT ![c] = ~@] ELSE entityOn
  <1>1. PICK c \in Components :
             \/ \E s \in Scenes : Register(s, c)
             \/ \E s \in Scenes, deletes \in BOOLEAN : Unregister(s, c, deletes)
             \/ SetEnabled(c)
             \/ SetActiveInEditor(c)
             \/ SetEntityEnabled(c)
             \/ \E stages \in CapabilityChoices : SetCapabilities(c, stages)
             \/ \E g \in Stages, p \in Priorities : SetPriority(c, g, p)
    BY EditChoice
  <1>2. (\E s \in Scenes : Register(s, c)) => Flip(c, FALSE, FALSE, FALSE)
    BY DEF Register
  <1>3. (\E s \in Scenes, deletes \in BOOLEAN : Unregister(s, c, deletes))
          => Flip(c, FALSE, FALSE, FALSE)
    BY DEF Unregister
  <1>4. SetEnabled(c) => Flip(c, TRUE, FALSE, FALSE)
    BY DEF SetEnabled
  <1>5. SetActiveInEditor(c) => Flip(c, FALSE, TRUE, FALSE)
    BY DEF SetActiveInEditor
  <1>6. SetEntityEnabled(c) => Flip(c, FALSE, FALSE, TRUE)
    BY DEF SetEntityEnabled
  <1>7. (\E stages \in CapabilityChoices : SetCapabilities(c, stages))
          => Flip(c, FALSE, FALSE, FALSE)
    BY DEF SetCapabilities
  <1>8. (\E g \in Stages, p \in Priorities : SetPriority(c, g, p))
          => Flip(c, FALSE, FALSE, FALSE)
    BY DEF SetPriority
  <1>9. \E e, i, n \in BOOLEAN : Flip(c, e, i, n)
    <2> HIDE DEF Flip
    <2> QED
      BY <1>1, <1>2, <1>3, <1>4, <1>5, <1>6, <1>7, <1>8
  <1> QED
    BY <1>9

(* Every call of the scene API keeps the flags and the history in their types. *)
LEMMA EditsTyped ==
    ASSUME OtherTyped, Edits
    PROVE  OtherTyped'
  <1>1. Edit /\ SweepNotices
    BY EditParts
  <1>2. edits' \in 0 .. MaxEdits
    BY <1>1, SchedulerAssumption DEF Edit, OtherTyped
  <1>3. sweep' \in Sweeps
    BY <1>1, SweepNoticesTyped
  <1>4. PICK c \in Components :
           /\ enabled' = enabled \/ enabled' = [enabled EXCEPT ![c] = ~@]
           /\ inEditor' = inEditor \/ inEditor' = [inEditor EXCEPT ![c] = ~@]
           /\ entityOn' = entityOn \/ entityOn' = [entityOn EXCEPT ![c] = ~@]
    BY EditParts
  <1>5. enabled' \in Flags /\ inEditor' \in Flags /\ entityOn' \in Flags
    BY <1>4, FlagFacts DEF OtherTyped
  <1> QED
    BY <1>2, <1>3, <1>5 DEF OtherTyped

(* A turn to a stage takes the components due there as the ones to reach. *)
LEMMA EnterSweep ==
    ASSUME ListInv, PassInv, pass.stage # "idle", NEW g \in Stages, NEW n, Enter(g, n)
    PROVE  sweep' \in Sweeps
  <1> DEFINE due == {c \in ToSet(schedule[pass.scene][g]) : Due(c)}
  <1>1. sweep' = [steady |-> due, called |-> {}, shifted |-> FALSE]
    BY DEF Enter, NoSweep
  <1>2. pass.scene \in Scenes
    BY PassFacts DEF PassExact
  <1>3. ToSet(schedule[pass.scene][g]) = Members(pass.scene, g)
    BY <1>2 DEF ListInv, ListsExact, ListExact
  <1>4. due \in SUBSET Components
    BY <1>3 DEF Members
  <1> HIDE DEF due
  <1> QED
    BY <1>1, <1>4 DEF Sweeps

(* The steps of a pass keep the flags and the history in their types. *)
LEMMA PassTyped ==
    ASSUME ListInv, PassInv, OtherTyped, PassStep
    PROVE  OtherTyped'
  <1>1. UNCHANGED <<enabled, inEditor, entityOn, edits>>
    BY DEF PassStep, Call, StartReturns, StageReturns, StartDone, FixedUpdateDone, UpdateDone,
           ExtensionsDone, LateUpdateDone, Enter, component
  <1>2. CASE Call
    <2>1. Walked[NextIndex] \in Components
      BY <1>2, CallPass
    <2> DEFINE called == IF pass.stage = "start" THEN sweep.called
                         ELSE sweep.called \cup {Walked[NextIndex]}
    <2>2. sweep' = [sweep EXCEPT !.called = called]
      BY <1>2 DEF Call
    <2>3. called \in SUBSET Components
      BY <2>1 DEF OtherTyped, Sweeps
    <2> HIDE DEF called
    <2>4. sweep' \in Sweeps
      BY <2>2, <2>3 DEF OtherTyped, Sweeps
    <2> QED
      BY <1>1, <2>4 DEF OtherTyped
  <1>3. CASE StartReturns \/ StageReturns
    BY <1>1, <1>3 DEF StartReturns, StageReturns, OtherTyped
  <1>4. ASSUME NEW g \in Stages, NEW n, Enter(g, n), pass.stage # "idle"
        PROVE  OtherTyped'
    BY <1>1, <1>4, EnterSweep DEF OtherTyped
  <1>5. CASE \E due \in 0 .. MaxFixedSteps : StartDone(due)
    <2>1. pass.stage # "idle" /\ \E g \in Stages, n \in Int : Enter(g, n)
      BY <1>5 DEF StartDone, Stages
    <2> QED
      BY <1>4, <2>1
  <1>6. CASE FixedUpdateDone
    <2>1. /\ pass.stage # "idle"
          /\ \/ Enter("update", 0)
             \/ Enter("fixed_update", pass.fixedLeft - 1)
      BY <1>6 DEF FixedUpdateDone
    <2>2. "update" \in Stages /\ "fixed_update" \in Stages
      BY DEF Stages
    <2> QED
      BY <1>4, <2>1, <2>2
  <1>7. CASE UpdateDone \/ LateUpdateDone
    <2>1. sweep' = NoSweep /\ NoSweep \in Sweeps
      BY <1>7 DEF UpdateDone, LateUpdateDone, NoSweep, Sweeps
    <2> QED
      BY <1>1, <2>1 DEF OtherTyped
  <1>8. CASE ExtensionsDone
    <2>1. pass.stage # "idle" /\ Enter("late_update", 0) /\ "late_update" \in Stages
      BY <1>8 DEF ExtensionsDone, Stages
    <2> QED
      BY <1>4, <2>1
  <1> QED
    BY <1>2, <1>3, <1>5, <1>6, <1>7, <1>8 DEF PassStep


-----------------------------------------------------------------------------
(* The inductive invariant. *)

IndInv == ListInv /\ PendingInv /\ PassInv /\ RevisionInv /\ NoForgottenStart /\ OtherTyped

(* A scheduler nothing was registered with satisfies the invariant. *)
LEMMA InitInv == Init => IndInv
  BY InitLists, InitPending, InitPass, InitRevision, InitForgets, InitOther DEF IndInv

(* tc_scene_register_component keeps the invariant. *)
LEMMA RegisterInv ==
    ASSUME IndInv, NEW s \in Scenes, NEW c \in Components, Register(s, c)
    PROVE  ListInv' /\ PendingInv' /\ PassInv' /\ RevisionInv' /\ NoForgottenStart'
  <1>1. ListInv'
    BY RegisterLists DEF IndInv
  <1>2. PendingInv'
    BY RegisterPending DEF IndInv
  <1>3. pass' = pass
    BY DEF Register, Edit
  <1>4. PassInv'
    BY <1>3 DEF IndInv, PassInv, PassExact
  <1>5. NoForgottenStart' /\ RevisionInv'
    BY RegisterForgets DEF IndInv
  <1> QED
    BY <1>1, <1>2, <1>4, <1>5

(* tc_scene_unregister_component keeps the invariant. *)
LEMMA UnregisterInv ==
    ASSUME IndInv, NEW s \in Scenes, NEW c \in Components, NEW deletes \in BOOLEAN,
           Unregister(s, c, deletes)
    PROVE  ListInv' /\ PendingInv' /\ PassInv' /\ RevisionInv' /\ NoForgottenStart'
  <1>1. ListInv'
    BY UnregisterLists DEF IndInv
  <1>2. PendingInv'
    BY UnregisterPending DEF IndInv
  <1>3. pass' = pass /\ UNCHANGED <<revision, processed>>
    BY DEF Unregister, Edit, Unmarked
  <1>4. PassInv' /\ RevisionInv'
    BY <1>3, OthersRevision DEF IndInv, PassInv, PassExact
  <1>5. NoForgottenStart'
    BY UnregisterForgets DEF IndInv
  <1> QED
    BY <1>1, <1>2, <1>4, <1>5

(* tc_component_set_enabled and tc_component_set_active_in_editor keep the *)
(* invariant: the mark they leave is what the shortcut needs.              *)
LEMMA SetEnabledInv ==
    ASSUME IndInv, NEW c \in Components, SetEnabled(c) \/ SetActiveInEditor(c)
    PROVE  ListInv' /\ PendingInv' /\ PassInv' /\ RevisionInv' /\ NoForgottenStart'
  <1>1. pass' = pass /\ UNCHANGED listVars /\ UNCHANGED <<home, started, pending>>
    BY DEF SetEnabled, SetActiveInEditor, Edit, listVars
  <1>2. ListInv' /\ PendingInv' /\ PassInv'
    BY <1>1, OthersLists, OthersPending DEF IndInv, PassInv, PassExact
  <1>3. NoForgottenStart' /\ RevisionInv'
    BY EnabledForgets DEF IndInv, OtherTyped, Flags
  <1> QED
    BY <1>2, <1>3

(* The calls that concern neither the queue nor what may start keep the    *)
(* invariant: the entity's switch, the capabilities and the priorities.    *)
LEMMA RearrangeInv ==
    ASSUME IndInv, NEW c \in Components,
           \/ SetEntityEnabled(c)
           \/ \E stages \in CapabilityChoices : SetCapabilities(c, stages)
           \/ \E g \in Stages, p \in Priorities : SetPriority(c, g, p)
    PROVE  ListInv' /\ PendingInv' /\ PassInv' /\ RevisionInv' /\ NoForgottenStart'
  <1>1. UNCHANGED <<enabled, inEditor, pending, revision, processed, pass, home, started>>
    BY DEF SetEntityEnabled, SetCapabilities, SetPriority, Edit, Unmarked
  <1>2. ListInv'
    <2>1. CASE SetEntityEnabled(c)
      BY <2>1, OthersLists DEF IndInv, SetEntityEnabled, listVars
    <2>2. CASE \E stages \in CapabilityChoices : SetCapabilities(c, stages)
      BY <2>2, SetCapabilitiesLists DEF IndInv
    <2>3. CASE \E g \in Stages, p \in Priorities : SetPriority(c, g, p)
      BY <2>3, SetPriorityLists DEF IndInv
    <2> QED
      BY <2>1, <2>2, <2>3
  <1>3. PendingInv' /\ PassInv' /\ RevisionInv' /\ NoForgottenStart'
    BY <1>1, OthersPending, OthersRevision, OthersForget DEF IndInv, PassInv, PassExact
  <1> QED
    BY <1>2, <1>3

(* The start of an update, with and without memory for its snapshot. *)
LEMMA BeginInv ==
    ASSUME IndInv, NEW s \in Scenes, NEW m \in Modes,
           BeginUpdate(s, m) \/ BeginUpdateNoMemory(s, m)
    PROVE  IndInv'
  <1>1. UNCHANGED listVars /\ UNCHANGED <<home, started, pending, revision>>
    BY DEF BeginUpdate, BeginUpdateNoMemory, component, scene, listVars
  <1>2. ListInv' /\ PendingInv'
    BY <1>1, OthersLists, OthersPending DEF IndInv
  <1>3. PassInv'
    BY BeginPass DEF IndInv
  <1>4. RevisionInv'
    <2>1. CASE BeginUpdate(s, m)
      BY <2>1, BeginRevision DEF IndInv
    <2>2. CASE BeginUpdateNoMemory(s, m)
      BY <2>2, OthersRevision DEF IndInv, BeginUpdateNoMemory, scene
    <2> QED
      BY <2>1, <2>2
  <1>5. NoForgottenStart'
    BY BeginForgets, NoMemoryForgets DEF IndInv
  <1>6. UNCHANGED <<enabled, inEditor, entityOn, sweep, edits>>
    BY DEF BeginUpdate, BeginUpdateNoMemory, component
  <1>7. OtherTyped'
    BY <1>6 DEF IndInv, OtherTyped
  <1> QED
    BY <1>2, <1>3, <1>4, <1>5, <1>7 DEF IndInv

(* The steps of a pass. *)
LEMMA PassStepInv ==
    ASSUME IndInv, PassStep
    PROVE  IndInv'
  <1>0. OtherTyped'
    BY PassTyped DEF IndInv
  <1>1. UNCHANGED listVars /\ UNCHANGED <<revision, processed>>
    BY DEF PassStep, Call, StartReturns, StageReturns, StartDone, FixedUpdateDone, UpdateDone,
           ExtensionsDone, LateUpdateDone, Enter, component, scene, listVars
  <1>2. ListInv' /\ RevisionInv'
    BY <1>1, OthersLists, OthersRevision DEF IndInv
  <1>3. CASE Call
    <2>1. PassInv'
      BY <1>3, CallPass DEF IndInv
    <2>2. NoForgottenStart'
      BY <1>3, CallForgets DEF IndInv
    <2>3. PendingInv'
      BY <1>3, OthersPending DEF IndInv, Call, component, scene
    <2> QED
      BY <1>0, <1>2, <2>1, <2>2, <2>3 DEF IndInv
  <1>4. CASE StartReturns
    <2>1. PassInv'
      BY <1>4, ReturnPass DEF IndInv
    <2>2. NoForgottenStart'
      BY <1>4, StartReturnsForgets DEF IndInv
    <2>3. PendingInv'
      BY <1>4, StartReturnsPending DEF IndInv
    <2> QED
      BY <1>0, <1>2, <2>1, <2>2, <2>3 DEF IndInv
  <1>5. CASE StageReturns \/ PhaseEnds
    <2>1. PassInv'
      BY <1>5, ReturnPass, PhasePass DEF IndInv
    <2>2. NoForgottenStart'
      BY <1>5, PhaseForgets DEF IndInv
    <2>3. UNCHANGED <<home, started, pending>>
      BY <1>5 DEF StageReturns, PhaseEnds, StartDone, FixedUpdateDone, UpdateDone,
         ExtensionsDone, LateUpdateDone, Enter, component, scene
    <2>4. PendingInv'
      BY <2>3, OthersPending DEF IndInv
    <2> QED
      BY <1>0, <1>2, <2>1, <2>2, <2>4 DEF IndInv
  <1> QED
    BY <1>3, <1>4, <1>5 DEF PassStep, PhaseEnds

(* Every step of the scheduler keeps the invariant. *)
LEMMA StepInv == IndInv /\ [Next]_vars => IndInv'
  <1> SUFFICES ASSUME IndInv, [Next]_vars PROVE IndInv'
    OBVIOUS
  <1>1. CASE Edits
    <2>1. OtherTyped'
      BY <1>1, EditsTyped DEF IndInv
    <2>2. PICK c \in Components :
             \/ \E s \in Scenes : Register(s, c)
             \/ \E s \in Scenes, deletes \in BOOLEAN : Unregister(s, c, deletes)
             \/ SetEnabled(c) \/ SetActiveInEditor(c)
             \/ SetEntityEnabled(c)
             \/ \E stages \in CapabilityChoices : SetCapabilities(c, stages)
             \/ \E g \in Stages, p \in Priorities : SetPriority(c, g, p)
      BY <1>1, EditChoice
    <2>3. ListInv' /\ PendingInv' /\ PassInv' /\ RevisionInv' /\ NoForgottenStart'
      BY <2>2, RegisterInv, UnregisterInv, SetEnabledInv, RearrangeInv
    <2> QED
      BY <2>1, <2>3 DEF IndInv
  <1>2. CASE \E s \in Scenes, m \in Modes : BeginUpdate(s, m) \/ BeginUpdateNoMemory(s, m)
    BY <1>2, BeginInv
  <1>3. CASE PassStep
    BY <1>3, PassStepInv
  <1>4. CASE UNCHANGED vars
    <2>1. /\ UNCHANGED listVars /\ UNCHANGED <<home, started, pending>>
          /\ UNCHANGED <<revision, processed>>
          /\ UNCHANGED <<enabled, inEditor, pending, revision, processed, pass>>
          /\ UNCHANGED <<enabled, inEditor, entityOn, sweep, edits>>
      BY <1>4 DEF vars, component, scene, listVars
    <2>2. OtherTyped' /\ PassInv'
      BY <2>1 DEF IndInv, OtherTyped, PassInv, PassExact
    <2> QED
      BY <2>1, <2>2, OthersLists, OthersPending, OthersRevision, OthersForget DEF IndInv
  <1> QED
    BY <1>1, <1>2, <1>3, <1>4 DEF Next

(* The invariant holds in every reachable state, for any scenes,           *)
(* components, priorities, width of the revision and bounds.               *)
THEOREM Invariance == Spec => []IndInv
  BY InitInv, StepInv, PTL DEF Spec

(* The revisions stay in the modulus, the index in front of the first      *)
(* element at the least, the call a component: nothing the code stores     *)
(* leaves its range.                                                       *)
THEOREM TypeCorrect == Spec => []TypeOK
  <1>1. IndInv => TypeOK
    <2> SUFFICES ASSUME IndInv PROVE TypeOK
      OBVIOUS
    <2>1. /\ home \in [Components -> Scenes \cup {NoScene}]
          /\ order \in [Components -> Nat]
          /\ caps \in [Components -> SUBSET Stages]
          /\ priority \in [Components -> [Stages -> Priorities]]
          /\ alive \subseteq Components
          /\ schedule \in [Scenes -> [Stages -> Seq(Components)]]
          /\ nextOrder \in [Scenes -> Nat]
      BY DEF IndInv, ListInv, ListTyped, Orders
    <2>2. /\ pending \in [Scenes -> Seq(Components)]
          /\ started \in [Components -> BOOLEAN]
      BY DEF IndInv, PendingInv, PendingTyped
    <2>3. /\ revision \in [Scenes -> 0 .. RevisionModulus - 1]
          /\ processed \in [Scenes -> [Modes -> 0 .. RevisionModulus - 1]]
      BY DEF IndInv, RevisionInv, Revisions
    <2>4. pass \in [scene : Scenes \cup {NoScene}, mode : Modes,
                    stage : Stages \cup {"idle", "start", "extensions"},
                    snapshot : Seq(Components), index : Nat \ {0},
                    fixedLeft : Nat, call : Components \cup {NoComponent}]
      BY DEF IndInv, PassInv, Passes
    <2>5. /\ enabled \in [Components -> BOOLEAN] /\ inEditor \in [Components -> BOOLEAN]
          /\ entityOn \in [Components -> BOOLEAN]
          /\ sweep \in [steady : SUBSET Components, called : SUBSET Components, shifted : BOOLEAN]
          /\ edits \in 0 .. MaxEdits
      BY DEF IndInv, OtherTyped, Flags, Sweeps
    <2> QED
      BY <2>1, <2>2, <2>3, <2>4, <2>5 DEF TypeOK
  <1> QED
    BY <1>1, Invariance, PTL

(* pending_starts of a scene holds every component registered with it that *)
(* was not started, each once, and no component of another scene, whatever *)
(* callbacks registered and unregistered in the middle of a pass.          *)
THEOREM QueuesAreExact == Spec => []PendingExact
  <1>1. IndInv => PendingExact
    BY DEF IndInv, PendingInv
  <1> QED
    BY <1>1, Invariance, PTL

(* The update lists of a scene hold its components that take part, each    *)
(* once, in the order of priority and then of registration.                *)
THEOREM SchedulesAreExact == Spec => []SchedulesExact
  <1>1. IndInv => SchedulesExact
    BY ListsAreExact DEF IndInv
  <1> QED
    BY <1>1, Invariance, PTL

(* The revision shortcut of process_pending_start leaves no component that *)
(* could start in the queue, also when the revision wraps round.           *)
THEOREM NothingForgotten == Spec => []NoForgottenStart
  <1>1. IndInv => NoForgottenStart
    BY DEF IndInv
  <1> QED
    BY <1>1, Invariance, PTL

\* A callback begins in a Call.
LEMMA BeginsInCall ==
    ASSUME IndInv, [Next]_vars, NEW c \in Components, Begins(c)
    PROVE  Call /\ pass'.call = Walked[NextIndex] /\ c = Walked[NextIndex]
  <1>1. pass.call = NoComponent /\ pass'.call = c /\ c # NoComponent
    BY SchedulerAssumption DEF Begins
  <1>2. CASE Edits \/ UNCHANGED vars
    <2>1. Edits => pass' = pass
      BY EditParts DEF Edit
    <2> QED
      BY <1>1, <1>2, <2>1 DEF vars
  <1>3. CASE \E s \in Scenes, m \in Modes : BeginUpdate(s, m) \/ BeginUpdateNoMemory(s, m)
    BY <1>1, <1>3 DEF BeginUpdate, BeginUpdateNoMemory, Idle
  <1>4. CASE StartReturns \/ StageReturns
    BY <1>1, <1>4 DEF StartReturns, StageReturns
  <1>5. CASE PhaseEnds
    BY <1>1, <1>5, PhasePass DEF IndInv
  <1>6. CASE Call
    BY <1>1, <1>6, CallPass DEF IndInv
  <1> QED
    BY <1>2, <1>3, <1>4, <1>5, <1>6 DEF Next, PassStep, PhaseEnds

(* What Call calls is registered with the scene of the pass, alive and     *)
(* meant for the mode and the stage.                                       *)
LEMMA CallIsJustified ==
    ASSUME IndInv, Call, NEW c \in Components, Begins(c)
    PROVE  /\ c \in alive /\ home[c] = pass.scene
           /\ enabled[c] /\ (pass.mode = "Editor" => inEditor[c])
           /\ pass.stage # "start" => entityOn[c] /\ pass.stage \in caps[c]
  <1>1. /\ NextIndex \in pass.index .. Len(Walked) /\ Len(Walked) \in Nat
        /\ pass'.call = Walked[NextIndex] /\ Wanted(Walked[NextIndex])
    BY CallPass DEF IndInv
  <1>2. c = Walked[NextIndex] /\ Wanted(c)
    BY <1>1 DEF Begins
  <1>3. /\ pass.stage \in Stages \cup {"start"} /\ pass.stage # "idle" /\ "start" \notin Stages
        /\ pass.index \in Nat \ {0}
    BY PassFacts DEF Call, IndInv, Stages
  <1>4. pass.scene \in Scenes /\ pass.scene # NoScene
    BY <1>3, PassFacts, SchedulerAssumption DEF IndInv, PassExact
  <1>5. home[c] = pass.scene => c \in alive
    BY <1>4 DEF IndInv, ListInv, OrdersExact
  <1>6. CASE pass.stage = "start"
    <2>1. Contains(pending[pass.scene], c) /\ Startable(pass.mode, c)
      BY <1>2, <1>6 DEF Wanted
    <2>2. c \in ToSet(pending[pass.scene])
      BY <1>4, <2>1, ToSetFacts DEF IndInv, PendingInv, PendingTyped
    <2>3. home[c] = pass.scene
      BY <1>4, <2>2 DEF IndInv, PendingInv, PendingExact
    <2> QED
      BY <1>5, <1>6, <2>1, <2>3 DEF Startable
  <1>7. CASE pass.stage \in Stages
    <2> DEFINE list == schedule[pass.scene][pass.stage]
    <2>1. Due(c) /\ Walked = list
      BY <1>2, <1>3, <1>7 DEF Wanted, Walked
    <2>2. list \in Seq(Components) /\ ToSet(list) = Members(pass.scene, pass.stage)
      BY <1>4, <1>7 DEF IndInv, ListInv, ListsExact, ListExact
    <2>3. c \in ToSet(list)
      <3>1. NextIndex \in 1 .. Len(list) /\ c = list[NextIndex]
        BY <1>1, <1>2, <1>3, <2>1
      <3> HIDE DEF list
      <3> QED
        BY <2>2, <3>1, ToSetFacts
    <2>4. home[c] = pass.scene /\ pass.stage \in caps[c]
      BY <2>2, <2>3 DEF Members
    <2> QED
      BY <1>5, <2>1, <2>4 DEF Due, Startable
  <1> QED
    BY <1>3, <1>6, <1>7

(* Whatever an earlier callback of the same pass removed, disabled, moved  *)
(* or deleted is not called any more.                                      *)
THEOREM CallsJustified == Spec => CallsAreJustified
  <1>1. IndInv /\ [Next]_vars =>
          [\A c \in Components : Begins(c) =>
              /\ c \in alive /\ home[c] = pass.scene
              /\ enabled[c] /\ (pass.mode = "Editor" => inEditor[c])
              /\ pass.stage # "start" => entityOn[c] /\ pass.stage \in caps[c]]_vars
    BY BeginsInCall, CallIsJustified
  <1> QED
    BY <1>1, Invariance, PTL DEF Spec, CallsAreJustified

-----------------------------------------------------------------------------
(* A walk reaches every component that stayed due.                         *)

(* How much of the walked list is behind the pass. *)
Visited == IF pass.call = NoComponent THEN pass.index - 1 ELSE pass.index

(* Of a list of which n components are behind the pass, those were called  *)
(* that stayed due, and nobody else was.                                   *)
Reached(list, n, steady, called) ==
    /\ n <= Len(list)
    /\ \A c \in called : \E j \in 1 .. n : list[j] = c
    /\ \A c \in steady : \E j \in 1 .. Len(list) : list[j] = c
    /\ \A j \in 1 .. n : list[j] \in steady => list[j] \in called

SweepExact ==
    pass.stage \in Stages /\ ~sweep.shifted =>
        /\ Reached(schedule[pass.scene][pass.stage], Visited, sweep.steady, sweep.called)
        /\ \A c \in sweep.steady : Due(c)

SweepInv ==
    /\ pass.stage = "extensions" => pass.call = NoComponent
    /\ SweepExact

\* A stage walks the list of its scene, which has no component twice.
LEMMA WalkedList ==
    IndInv /\ pass.stage \in Stages =>
        /\ pass.scene \in Scenes
        /\ Walked = schedule[pass.scene][pass.stage]
        /\ Walked \in Seq(Components) /\ IsInjective(Walked)
        /\ pass.index \in Nat \ {0} /\ Visited \in Nat
  <1> SUFFICES ASSUME IndInv, pass.stage \in Stages
               PROVE  /\ pass.scene \in Scenes
                      /\ Walked = schedule[pass.scene][pass.stage]
                      /\ Walked \in Seq(Components) /\ IsInjective(Walked)
                      /\ pass.index \in Nat \ {0} /\ Visited \in Nat
    OBVIOUS
  <1>1. pass.scene \in Scenes /\ Walked = schedule[pass.scene][pass.stage]
    BY PassFacts DEF IndInv, PassExact, Walked, Stages
  <1>2. Walked \in Seq(Components) /\ IsInjective(Walked)
    BY <1>1, OneList, OrderedIsInjective DEF IndInv
  <1>3. pass.index \in Nat \ {0} /\ Visited \in Nat
    BY PassFacts DEF IndInv, Visited
  <1> QED
    BY <1>1, <1>2, <1>3

\* A list changed behind what has been walked holds those that stay due
\* either before that, where they were called, or after it.
LEMMA ChangedFurtherDown ==
    ASSUME NEW list \in Seq(Components), NEW list2 \in Seq(Components), IsInjective(list),
           NEW n \in Nat \ {0}, NEW steady, NEW steady2, NEW called,
           Reached(list, n, steady, called),
           SubSeq(list2, 1, IF n < Len(list2) THEN n ELSE Len(list2))
             = SubSeq(list, 1, IF n < Len(list) THEN n ELSE Len(list)),
           steady2 \subseteq steady, \A c \in steady2 : Contains(list2, c)
    PROVE  Reached(list2, n, steady2, called)
  <1>1. n <= Len(list) /\ Len(list) \in Nat /\ Len(list2) \in Nat
    BY DEF Reached
  <1>2. SubSeq(list, 1, IF n < Len(list) THEN n ELSE Len(list)) = SubSeq(list, 1, n)
    BY <1>1
  <1>3. /\ Len(SubSeq(list, 1, n)) = n
        /\ \A j \in 1 .. n : SubSeq(list, 1, n)[j] = list[j]
    BY <1>1
  <1>4. n <= Len(list2)
    <2> SUFFICES ASSUME Len(list2) < n PROVE FALSE
      BY <1>1
    <2>1. SubSeq(list2, 1, Len(list2)) = SubSeq(list, 1, n)
      BY <1>1, <1>2
    <2>2. Len(SubSeq(list2, 1, Len(list2))) = Len(list2)
      BY <1>1
    <2> QED
      BY <1>1, <1>3, <2>1, <2>2
  <1>5. SubSeq(list2, 1, n) = SubSeq(list, 1, n)
    BY <1>1, <1>2, <1>4
  <1>6. \A j \in 1 .. n : SubSeq(list2, 1, n)[j] = list2[j]
    BY <1>1, <1>4
  <1>7. \A j \in 1 .. n : list2[j] = list[j]
    BY <1>3, <1>5, <1>6
  <1>8. \A c \in steady2 : \E j \in 1 .. Len(list2) : list2[j] = c
    BY ToSetFacts
  <1> QED
    BY <1>4, <1>7, <1>8 DEF Reached

\* A call of the scene API that does not reach into what has been walked
\* loses nobody.
LEMMA EditSweep ==
    ASSUME IndInv, IndInv', SweepInv, Edits
    PROVE  SweepInv'
  <1>1. CodeRuns /\ pass' = pass /\ SweepNotices
    BY EditParts DEF Edit
  <1>2. CASE pass.stage \notin Stages
    BY <1>1, <1>2 DEF SweepInv, SweepExact
  <1>3. CASE pass.stage \in Stages
    <2> DEFINE steady2 == {c \in sweep.steady : Due(c)' /\ Contains(Walked', c)}
               moved == sweep.shifted \/ WalkedSoFar' # WalkedSoFar
    <2>1. sweep' = [sweep EXCEPT !.steady = steady2, !.shifted = moved]
      BY <1>1, <1>3 DEF SweepNotices
    <2>2. sweep'.steady = steady2 /\ sweep'.shifted = moved /\ sweep'.called = sweep.called
      <3> HIDE DEF steady2, moved
      <3> QED
        BY <2>1 DEF IndInv, OtherTyped, Sweeps
    <2>3. pass.call # NoComponent /\ pass.stage # "extensions"
      BY <1>1, <1>3 DEF CodeRuns, Stages
    <2>4. SUFFICES ASSUME ~sweep'.shifted
                   PROVE  /\ Reached(schedule'[pass.scene][pass.stage], pass.index, steady2, sweep.called)
                          /\ \A c \in steady2 : Due(c)'
      BY <1>1, <2>2, <2>3 DEF SweepInv, SweepExact, Visited
    <2>5. ~sweep.shifted /\ WalkedSoFar' = WalkedSoFar
      BY <2>2, <2>4
    <2>6. /\ Walked \in Seq(Components) /\ IsInjective(Walked) /\ pass.index \in Nat \ {0}
          /\ Walked = schedule[pass.scene][pass.stage]
      BY <1>3, WalkedList
    <2>7. Walked' = schedule'[pass.scene][pass.stage] /\ Walked' \in Seq(Components)
      <3>1. pass'.stage \in Stages /\ pass'.scene = pass.scene /\ pass'.stage = pass.stage
        BY <1>1, <1>3
      <3>2. pass.scene \in Scenes
        BY <1>3, WalkedList
      <3>3. schedule' \in [Scenes -> [Stages -> Seq(Components)]]
        BY DEF IndInv, ListInv, ListTyped
      <3>4. Walked' = schedule'[pass.scene][pass.stage]
        BY <1>3, <3>1 DEF Walked, Stages
      <3> QED
        BY <1>3, <3>2, <3>3, <3>4
    <2>8. Reached(Walked, pass.index, sweep.steady, sweep.called)
      BY <1>3, <2>3, <2>5, <2>6 DEF SweepInv, SweepExact, Visited
    <2>9. SubSeq(Walked', 1, IF pass.index < Len(Walked') THEN pass.index ELSE Len(Walked'))
            = SubSeq(Walked, 1, IF pass.index < Len(Walked) THEN pass.index ELSE Len(Walked))
      BY <1>1, <2>5 DEF WalkedSoFar
    <2>10. steady2 \subseteq sweep.steady /\ \A c \in steady2 : Contains(Walked', c)
      OBVIOUS
    <2>11. \A c \in steady2 : Due(c)'
      OBVIOUS
    <2>12. Reached(Walked', pass.index, steady2, sweep.called)
      <3> DEFINE list == Walked
                 list2 == Walked'
      <3> HIDE DEF steady2, list, list2
      <3>1. /\ list \in Seq(Components) /\ list2 \in Seq(Components) /\ IsInjective(list)
            /\ Reached(list, pass.index, sweep.steady, sweep.called)
            /\ SubSeq(list2, 1, IF pass.index < Len(list2) THEN pass.index ELSE Len(list2))
                 = SubSeq(list, 1, IF pass.index < Len(list) THEN pass.index ELSE Len(list))
            /\ steady2 \subseteq sweep.steady /\ \A c \in steady2 : Contains(list2, c)
            /\ pass.index \in Nat \ {0}
        BY <2>6, <2>7, <2>8, <2>9, <2>10 DEF list, list2
      <3>2. Reached(list2, pass.index, steady2, sweep.called)
        BY ONLY <3>1, ChangedFurtherDown
      <3> QED
        BY <3>2 DEF list2
    <2> QED
      BY <2>7, <2>11, <2>12
  <1> QED
    BY <1>2, <1>3

\* The components a walk skips are not due, so none of them stayed due.
LEMMA CallSweep ==
    ASSUME IndInv, SweepInv, Call
    PROVE  SweepInv'
  <1>1. /\ pass.call = NoComponent /\ NextIndex # 0
        /\ UNCHANGED <<enabled, inEditor, entityOn, schedule>>
        /\ pass.stage \in Stages \cup {"start"}
        /\ sweep' = [sweep EXCEPT !.called = IF pass.stage = "start" THEN @ ELSE @ \cup {Walked[NextIndex]}]
    BY DEF Call, component, scene
  <1>2. /\ NextIndex \in pass.index .. Len(Walked) /\ Len(Walked) \in Nat
        /\ Walked[NextIndex] \in Components
        /\ pass'.call = Walked[NextIndex] /\ pass'.index = NextIndex
        /\ pass'.stage = pass.stage /\ pass'.scene = pass.scene /\ pass'.mode = pass.mode
    BY CallPass DEF IndInv
  <1>3. pass.stage # "extensions" /\ "start" \notin Stages
    BY <1>1 DEF Stages
  <1> SUFFICES ASSUME pass.stage \in Stages, ~sweep'.shifted
               PROVE  /\ Reached(schedule'[pass'.scene][pass'.stage], Visited', sweep'.steady, sweep'.called)
                      /\ \A c \in sweep'.steady : Due(c)'
    BY <1>2, <1>3 DEF SweepInv, SweepExact
  <1>4. /\ Walked = schedule[pass.scene][pass.stage] /\ Walked \in Seq(Components)
        /\ pass.index \in Nat \ {0}
    BY WalkedList
  <1>5. /\ sweep'.steady = sweep.steady /\ sweep'.called = sweep.called \cup {Walked[NextIndex]}
        /\ ~sweep.shifted
    BY <1>1, <1>3 DEF IndInv, OtherTyped, Sweeps
  <1>6. /\ Reached(Walked, pass.index - 1, sweep.steady, sweep.called)
        /\ \A c \in sweep.steady : Due(c)
    BY <1>1, <1>4, <1>5 DEF SweepInv, SweepExact, Visited
  <1>7. Visited' = NextIndex /\ NextIndex \in Nat \ {0}
    BY <1>2, <1>4, SchedulerAssumption DEF Visited
  <1>8. \A j \in pass.index .. Len(Walked) : j < NextIndex => Walked[j] \notin sweep.steady
    <2>1. \A j \in pass.index .. Len(Walked) : j < NextIndex => ~Wanted(Walked[j])
      BY <1>1, NextIndexFacts DEF IndInv
    <2>2. \A c : Wanted(c) <=> Due(c)
      BY <1>3 DEF Wanted
    <2> QED
      BY <1>6, <2>1, <2>2
  <1>9. Reached(Walked, NextIndex, sweep.steady, sweep.called \cup {Walked[NextIndex]})
    <2> DEFINE list == Walked
               n == NextIndex
               i == pass.index
    <2>1. list \in Seq(Components) /\ Len(list) \in Nat /\ i \in Nat \ {0} /\ n \in i .. Len(list)
      BY <1>2, <1>4
    <2>2. Reached(list, i - 1, sweep.steady, sweep.called)
      BY <1>6
    <2>3. \A j \in i .. Len(list) : j < n => list[j] \notin sweep.steady
      BY <1>8
    <2> HIDE DEF list, n, i
    <2>4. Reached(list, n, sweep.steady, sweep.called \cup {list[n]})
      BY <2>1, <2>2, <2>3 DEF Reached
    <2> QED
      BY <2>4 DEF list, n
  <1>10. \A c \in sweep'.steady : Due(c)'
    BY <1>1, <1>2, <1>5, <1>6 DEF Due, Startable
  <1> QED
    BY <1>1, <1>2, <1>4, <1>5, <1>7, <1>9, <1>10

\* The return of a callback leaves the same components behind the pass.
LEMMA ReturnSweep ==
    ASSUME IndInv, SweepInv, StartReturns \/ StageReturns
    PROVE  SweepInv'
  <1>1. /\ pass' = [pass EXCEPT !.index = @ + 1, !.call = NoComponent]
        /\ UNCHANGED <<enabled, inEditor, entityOn, schedule, sweep>>
        /\ pass.call # NoComponent
    BY DEF StartReturns, StageReturns, component, scene
  <1>2. /\ pass'.call = NoComponent /\ pass'.index = pass.index + 1 /\ pass.index \in Nat
        /\ pass'.stage = pass.stage /\ pass'.scene = pass.scene /\ pass'.mode = pass.mode
    BY <1>1, PassFacts DEF IndInv
  <1>3. Visited' = Visited
    BY <1>1, <1>2 DEF Visited
  <1> QED
    BY <1>1, <1>2, <1>3 DEF SweepInv, SweepExact, Due, Startable

\* A turn to a stage has nobody behind it yet.
LEMMA EnterSweepExact ==
    ASSUME IndInv, pass.call = NoComponent, pass.stage # "idle",
           NEW g \in Stages, NEW n, Enter(g, n)
    PROVE  SweepInv'
  <1> DEFINE list == schedule[pass.scene][g]
             due == {c \in ToSet(list) : Due(c)}
  <1>1. /\ sweep' = [steady |-> due, called |-> {}, shifted |-> FALSE]
        /\ UNCHANGED <<enabled, inEditor, entityOn, schedule>>
    BY DEF Enter, NoSweep, component, scene
  <1>2. /\ pass'.stage = g /\ pass'.index = 1 /\ pass'.call = NoComponent
        /\ pass'.scene = pass.scene /\ pass'.mode = pass.mode
    BY PassFacts DEF IndInv, Enter
  <1>3. pass.scene \in Scenes /\ g # "extensions"
    BY PassFacts DEF IndInv, PassExact, Stages
  <1>4. list \in Seq(Components)
    BY <1>3, OneList DEF IndInv
  <1>5. Visited' = 0
    BY <1>2 DEF Visited
  <1>6. \A c \in due : \E j \in 1 .. Len(list) : list[j] = c
    <2> HIDE DEF list
    <2> QED
      BY <1>4, ToSetFacts
  <1>7. Reached(list, 0, due, {})
    <2>1. Len(list) \in Nat
      BY <1>4
    <2> HIDE DEF list, due
    <2> QED
      BY <1>6, <2>1 DEF Reached
  <1>8. \A c \in due : Due(c)'
    BY <1>1, <1>2 DEF Due, Startable
  <1>9. sweep'.steady = due /\ sweep'.called = {}
    <2> HIDE DEF due
    <2> QED
      BY <1>1
  <1>10. schedule'[pass'.scene][pass'.stage] = list
    BY <1>1, <1>2
  <1> QED
    BY <1>2, <1>3, <1>5, <1>7, <1>8, <1>9, <1>10 DEF SweepInv, SweepExact

\* The end of a phase: the next list is entered anew, or none is walked.
LEMMA PhaseSweep ==
    ASSUME IndInv, SweepInv, PhaseEnds
    PROVE  SweepInv'
  <1>1. "update" \in Stages /\ "fixed_update" \in Stages /\ "late_update" \in Stages
    BY DEF Stages
  <1>2. pass.call = NoComponent /\ pass.stage # "idle"
    BY DEF PhaseEnds, StartDone, FixedUpdateDone, UpdateDone, ExtensionsDone, LateUpdateDone,
           WalkedOut, SweepInv
  <1>3. CASE UpdateDone \/ LateUpdateDone
    <2>1. pass'.stage \in {"extensions", "idle"} /\ pass'.call = NoComponent
      <3>1. CASE UpdateDone
        BY <1>2, <3>1, PassFacts DEF UpdateDone, IndInv
      <3>2. CASE LateUpdateDone
        BY <3>2 DEF LateUpdateDone, Idle
      <3> QED
        BY <1>3, <3>1, <3>2
    <2> QED
      BY <2>1 DEF SweepInv, SweepExact, Stages
  <1>4. CASE ~(UpdateDone \/ LateUpdateDone)
    <2>1. \E g \in Stages, n \in Int : Enter(g, n)
      <3>1. pass.fixedLeft \in Int
        BY PassFacts DEF IndInv
      <3> QED
        BY <1>1, <1>4, <3>1 DEF PhaseEnds, StartDone, FixedUpdateDone, ExtensionsDone
    <2> QED
      BY <1>2, <2>1, EnterSweepExact
  <1> QED
    BY <1>3, <1>4

\* Every step keeps the account of the walk.
LEMMA StepSweep == IndInv /\ SweepInv /\ [Next]_vars => SweepInv'
  <1> SUFFICES ASSUME IndInv, SweepInv, [Next]_vars PROVE SweepInv'
    OBVIOUS
  <1>0. IndInv'
    BY StepInv
  <1>1. CASE Edits
    BY <1>0, <1>1, EditSweep
  <1>2. CASE \E s \in Scenes, m \in Modes : BeginUpdate(s, m) \/ BeginUpdateNoMemory(s, m)
    <2>1. pass'.stage = "start"
      BY <1>2 DEF BeginUpdate, BeginUpdateNoMemory, Idle
    <2> QED
      BY <2>1 DEF SweepInv, SweepExact, Stages
  <1>3. CASE PassStep
    BY <1>3, CallSweep, ReturnSweep, PhaseSweep DEF PassStep, PhaseEnds
  <1>4. CASE UNCHANGED vars
    BY <1>4 DEF vars, component, scene, SweepInv, SweepExact, Visited, Due, Startable
  <1> QED
    BY <1>1, <1>2, <1>3, <1>4 DEF Next

\* Before anything runs there is no walk.
LEMMA InitSweep == Init => SweepInv
  BY DEF Init, Idle, SweepInv, SweepExact, Stages

\* When the walk is out nobody due is left further down the list.
LEMMA WalkedOutReached ==
    ASSUME IndInv, SweepInv, pass.stage \in Stages, ~sweep.shifted, WalkedOut
    PROVE  sweep.steady \subseteq sweep.called
  <1>1. /\ Walked = schedule[pass.scene][pass.stage] /\ Walked \in Seq(Components)
        /\ pass.index \in Nat \ {0} /\ Len(Walked) \in Nat
    BY WalkedList
  <1>2. pass.call = NoComponent /\ NextIndex = 0
    BY DEF WalkedOut
  <1>3. Reached(Walked, pass.index - 1, sweep.steady, sweep.called) /\ \A c \in sweep.steady : Due(c)
    BY <1>1, <1>2 DEF SweepInv, SweepExact, Visited
  <1>4. \A j \in pass.index .. Len(Walked) : ~Wanted(Walked[j])
    BY <1>2, NextIndexFacts DEF IndInv
  <1>5. \A j \in pass.index .. Len(Walked) : Walked[j] \notin sweep.steady
    BY <1>3, <1>4 DEF Wanted, Stages
  <1>6. ASSUME NEW c \in sweep.steady PROVE c \in sweep.called
    <2>1. PICK j \in 1 .. Len(Walked) : Walked[j] = c
      BY <1>3 DEF Reached
    <2>2. j \in 1 .. (pass.index - 1)
      BY <1>1, <1>5, <2>1
    <2> QED
      BY <1>3, <2>1, <2>2 DEF Reached
  <1> QED
    BY <1>6

\* Who is behind the pass is not called again.
LEMMA CalledIsNew ==
    ASSUME IndInv, SweepInv, pass.stage \in Stages, ~sweep.shifted, Call
    PROVE  Walked[NextIndex] \notin sweep.called
  <1>1. /\ Walked = schedule[pass.scene][pass.stage] /\ Walked \in Seq(Components)
        /\ IsInjective(Walked) /\ pass.index \in Nat \ {0} /\ Len(Walked) \in Nat
    BY WalkedList
  <1>2. NextIndex \in pass.index .. Len(Walked)
    BY CallPass DEF IndInv
  <1>3. Reached(Walked, pass.index - 1, sweep.steady, sweep.called)
    BY <1>1 DEF SweepInv, SweepExact, Visited, Call
  <1>4. \A j \in 1 .. (pass.index - 1) : Walked[j] # Walked[NextIndex]
    BY <1>1, <1>2 DEF IsInjective
  <1> QED
    BY <1>3, <1>4 DEF Reached

\* A walk of an update list calls every component that stayed due all along,
\* and none twice, as long as callbacks leave alone the part of the list up to
\* the component being called: what tc_scene_update's walk by index relies on.
THEOREM SweepsAreComplete == Spec => SweepReachesAll
  <1>1. IndInv /\ SweepInv /\ [Next]_vars =>
          [pass.stage \in Stages /\ ~sweep.shifted =>
              /\ WalkedOut /\ pass' # pass => sweep.steady \subseteq sweep.called
              /\ \A c \in Components : Begins(c) => c \notin sweep.called]_vars
    BY WalkedOutReached, CalledIsNew, BeginsInCall
  <1> QED
    BY <1>1, InitSweep, StepSweep, Invariance, PTL DEF Spec, SweepReachesAll

-----------------------------------------------------------------------------
(* A component is started once.                                            *)

(* A start callback does not move its component to another scene.          *)
StartsAtHome ==
    pass.stage = "start" /\ pass.call # NoComponent => home[pass.call] \in {NoScene, pass.scene}

(* No component waits to be started that was.                              *)
NoneWaitsStarted ==
    \A s \in Scenes : \A c \in ToSet(pending[s]) : ~started[c]

\* A component queued by tc_scene_register_component was not started.
LEMMA RegisterFresh ==
    ASSUME IndInv, NoneWaitsStarted, NEW s \in Scenes, NEW c \in Components, Register(s, c)
    PROVE  NoneWaitsStarted'
  <1>1. started' = started
    BY DEF Register
  <1>2. pending \in [Scenes -> Seq(Components)]
    BY DEF IndInv, PendingInv, PendingTyped
  <1>3. CASE Queues(s, c)
    <2>1. pending' = [pending EXCEPT ![s] = Append(@, c)] /\ ~started[c]
      BY <1>3 DEF Register, Queues
    <2>2. ToSet(Append(pending[s], c)) = ToSet(pending[s]) \cup {c}
      BY <1>2, AppendFacts
    <2> QED
      BY <1>1, <1>2, <2>1, <2>2 DEF NoneWaitsStarted
  <1>4. CASE ~Queues(s, c)
    BY <1>1, <1>4 DEF Register, NoneWaitsStarted
  <1> QED
    BY <1>3, <1>4

\* Taking a component out of its queue makes nobody wait.
LEMMA UnregisterFresh ==
    ASSUME IndInv, NoneWaitsStarted, NEW s \in Scenes, NEW c \in Components,
           NEW deletes \in BOOLEAN, Unregister(s, c, deletes)
    PROVE  NoneWaitsStarted'
  <1>1. started' = started /\ pending' = [pending EXCEPT ![s] = RemoveFirst(@, c)]
    BY DEF Unregister
  <1>2. pending \in [Scenes -> Seq(Components)] /\ IsInjective(pending[s])
    BY DEF IndInv, PendingInv, PendingTyped, PendingExact
  <1>3. ToSet(RemoveFirst(pending[s], c)) = ToSet(pending[s]) \ {c}
    BY <1>2, RemoveFirstFacts
  <1> QED
    BY <1>1, <1>2, <1>3 DEF NoneWaitsStarted

\* A component that has been started leaves the only queue it can be in.
LEMMA StartReturnsFresh ==
    ASSUME IndInv, NoneWaitsStarted, StartsAtHome, StartReturns
    PROVE  NoneWaitsStarted'
  <1>1. /\ pass.stage = "start" /\ pass.call # NoComponent
        /\ started' = [started EXCEPT ![pass.call] = @ \/ pass.call \in alive]
    BY DEF StartReturns
  <1>2. \A s \in Scenes : ToSet(pending'[s]) =
           IF s = pass.scene THEN ToSet(pending[s]) \ {pass.call} ELSE ToSet(pending[s])
    BY StartReturnsPending DEF IndInv
  <1>3. \A s \in Scenes : ToSet(pending[s]) \subseteq {c \in Components : home[c] = s}
    BY DEF IndInv, PendingInv, PendingExact
  <1>4. \A s \in Scenes : s # pass.scene => pass.call \notin ToSet(pending[s])
    BY <1>1, <1>3, SchedulerAssumption DEF StartsAtHome
  <1>5. \A c \in Components : c # pass.call => started'[c] = started[c]
    BY <1>1 DEF IndInv, PendingInv, PendingTyped
  <1> QED
    BY <1>2, <1>3, <1>4, <1>5 DEF NoneWaitsStarted

\* Every step keeps the started out of the queues.
LEMMA StepFresh == IndInv /\ NoneWaitsStarted /\ StartsAtHome /\ [Next]_vars => NoneWaitsStarted'
  <1> SUFFICES ASSUME IndInv, NoneWaitsStarted, StartsAtHome, [Next]_vars PROVE NoneWaitsStarted'
    OBVIOUS
  <1>1. ASSUME UNCHANGED <<pending, started>> PROVE NoneWaitsStarted'
    BY <1>1 DEF NoneWaitsStarted
  <1>2. CASE Edits
    <2>1. PICK c \in Components :
             \/ \E s \in Scenes : Register(s, c)
             \/ \E s \in Scenes, deletes \in BOOLEAN : Unregister(s, c, deletes)
             \/ SetEnabled(c) \/ SetActiveInEditor(c)
             \/ SetEntityEnabled(c)
             \/ \E stages \in CapabilityChoices : SetCapabilities(c, stages)
             \/ \E g \in Stages, p \in Priorities : SetPriority(c, g, p)
      BY <1>2, EditChoice
    <2>2. CASE \/ \E s \in Scenes : Register(s, c)
               \/ \E s \in Scenes, deletes \in BOOLEAN : Unregister(s, c, deletes)
      BY <2>2, RegisterFresh, UnregisterFresh
    <2>3. CASE \/ SetEnabled(c) \/ SetActiveInEditor(c)
               \/ SetEntityEnabled(c)
               \/ \E stages \in CapabilityChoices : SetCapabilities(c, stages)
               \/ \E g \in Stages, p \in Priorities : SetPriority(c, g, p)
      BY <1>1, <2>3 DEF SetEnabled, SetActiveInEditor, SetEntityEnabled, SetCapabilities, SetPriority
    <2> QED
      BY <2>1, <2>2, <2>3
  <1>3. CASE \E s \in Scenes, m \in Modes : BeginUpdate(s, m) \/ BeginUpdateNoMemory(s, m)
    BY <1>1, <1>3 DEF BeginUpdate, BeginUpdateNoMemory, component, scene
  <1>4. CASE StartReturns
    BY <1>4, StartReturnsFresh
  <1>5. CASE Call \/ StageReturns \/ PhaseEnds
    BY <1>1, <1>5 DEF Call, StageReturns, PhaseEnds, StartDone, FixedUpdateDone, UpdateDone,
       ExtensionsDone, LateUpdateDone, Enter, component, scene
  <1>6. CASE UNCHANGED vars
    BY <1>1, <1>6 DEF vars, component, scene
  <1> QED
    BY <1>2, <1>3, <1>4, <1>5, <1>6 DEF Next, PassStep, PhaseEnds

\* What a start phase calls waits, so it was not started.
LEMMA StartIsFirst ==
    ASSUME IndInv, NoneWaitsStarted, [Next]_vars, NEW c \in Components, Begins(c),
           pass.stage = "start"
    PROVE  ~started[c]
  <1>1. Wanted(c)
    BY BeginsInCall, CallPass DEF IndInv
  <1>2. Contains(pending[pass.scene], c)
    BY <1>1 DEF Wanted
  <1>3. pass.scene \in Scenes
    BY PassFacts DEF IndInv, PassExact
  <1>4. c \in ToSet(pending[pass.scene])
    BY <1>2, <1>3, ToSetFacts DEF IndInv, PendingInv, PendingTyped
  <1> QED
    BY <1>3, <1>4 DEF NoneWaitsStarted

\* tc_component_start is called once for a component, however it is disabled,
\* moved and registered again, if no start callback moves its own component
\* to another scene.
THEOREM StartedAtHomeOnce == Spec /\ []StartsAtHome => StartsOnce
  <1>1. Init => NoneWaitsStarted
    BY DEF Init, NoneWaitsStarted, ToSet
  <1>2. IndInv /\ NoneWaitsStarted /\ [Next]_vars =>
          [\A c \in Components : Begins(c) /\ pass.stage = "start" => ~started[c]]_vars
    BY StartIsFirst
  <1> QED
    BY <1>1, <1>2, StepFresh, Invariance, PTL DEF Spec, StartsOnce

\* With one scene there is no other scene to move to.
THEOREM StartedOnce == (\A s, t \in Scenes : s = t) => (Spec => StartsOnce)
  <1> SUFFICES ASSUME \A s, t \in Scenes : s = t PROVE Spec => StartsOnce
    OBVIOUS
  <1>1. IndInv => StartsAtHome
    <2> SUFFICES ASSUME IndInv, pass.stage = "start", pass.call # NoComponent
                 PROVE  home[pass.call] \in {NoScene, pass.scene}
      BY DEF StartsAtHome
    <2>1. pass.scene \in Scenes /\ pass.call \in Components
      BY PassFacts DEF IndInv, PassExact
    <2> QED
      BY <2>1 DEF IndInv, ListInv, ListTyped
  <1> QED
    BY <1>1, StartedAtHomeOnce, Invariance, PTL

=============================================================================
