------------------------- MODULE EntityContents_proofs -------------------------
(***************************************************************************)
(* What the entities of the pools have: why the tables of data-only        *)
(* components stay exact, and why every component has the owner, the scene *)
(* and the references it should have.                                      *)
(*                                                                         *)
(* The invariant says of each table that it holds the rows of the entities *)
(* in the tree, and of an entity on its way to another pool, and of what   *)
(* is below it, that it has none.  It is kept wherever the slots and trees *)
(* are (EntityPool_proofs), whose lemmas say what a step does to them.     *)
(*                                                                         *)
(* Of the components it says that the arrays hold what the entities own,   *)
(* that the counts are exact, and of every operation in progress which of  *)
(* its components has an owner, waits for one or is owed a release, so     *)
(* that no operation takes what one beneath it works on.                   *)
(***************************************************************************)
EXTENDS EntityPool_proofs

-----------------------------------------------------------------------------
(* The tables of data-only components: one table, as values.               *)

Fields == [RowTypes -> RowValues]

(* The entities E have one row each, list has no other, and rw says where. *)
TableHolds(E, rw, list) ==
    /\ \A k \in 1..Len(list) : list[k] \in E /\ rw[Slot(list[k])] = k
    /\ \A x \in E : rw[Slot(x)] \in 1..Len(list) /\ list[rw[Slot(x)]] = x

(* The fields that are initialised hold what they were given.              *)
FieldsHold(E, m, rw, mem, wr) ==
    \A x \in E : \A t \in m \cap InitTypes : mem[rw[Slot(x)]][t] = wr[Slot(x)][t]

DistinctSlots(E) == E \subseteq Ids /\ \A x, y \in E : Slot(x) = Slot(y) => x = y

\* A table only depends on the rows and the values of its own entities.
LEMMA TableCongruence ==
    ASSUME NEW E, NEW m, NEW rw, NEW rw2, NEW list, NEW mem, NEW wr, NEW wr2,
           TableHolds(E, rw, list), FieldsHold(E, m, rw, mem, wr),
           \A x \in E : rw2[Slot(x)] = rw[Slot(x)] /\ wr2[Slot(x)] = wr[Slot(x)]
    PROVE  TableHolds(E, rw2, list) /\ FieldsHold(E, m, rw2, mem, wr2)
  <1> QED
    BY DEF TableHolds, FieldsHold

\* What archetype_swap_remove leaves: the last row takes the place of row k.
LEMMA GiveUpValues ==
    ASSUME NEW list \in Seq(Ids), NEW mem \in Seq(Fields), NEW rw \in [Slots -> Nat],
           NEW k \in 1..Len(list), Len(list) <= Len(mem),
           NEW G, G = GiveUp([rows |-> list, memory |-> mem, row |-> rw], k)
    PROVE  /\ G.rows \in Seq(Ids) /\ Len(G.rows) = Len(list) - 1 /\ Len(list) \in Nat \ {0}
           /\ \A j \in 1..(Len(list) - 1) : G.rows[j] = IF j = k THEN list[Len(list)] ELSE list[j]
           /\ G.memory \in Seq(Fields) /\ Len(G.memory) = Len(mem)
           /\ \A j \in 1..(Len(list) - 1) : G.memory[j] = IF j = k THEN mem[Len(list)] ELSE mem[j]
           /\ G.row \in [Slots -> Nat]
           /\ \A s \in Slots : G.row[s] = IF k # Len(list) /\ s = Slot(list[Len(list)]) THEN k ELSE rw[s]
  <1>0. Len(list) \in Nat \ {0} /\ k \in Nat \ {0} /\ Len(mem) \in Nat /\ list # <<>>
    BY EmptySeq
  <1>1. Slot(list[Len(list)]) \in Slots
    BY <1>0 DEF Ids, Slot
  <1>2. CASE k = Len(list)
    <2>1. G = [rows |-> Front(list), memory |-> mem, row |-> rw]
      BY <1>2 DEF GiveUp
    <2>2. Front(list) \in Seq(Ids) /\ Len(Front(list)) = Len(list) - 1
          /\ \A j \in 1..(Len(list) - 1) : Front(list)[j] = list[j]
      BY <1>0, FrontFacts
    <2> QED
      BY <1>0, <1>2, <2>1, <2>2
  <1>3. CASE k # Len(list)
    <2> DEFINE put == [list EXCEPT ![k] = list[Len(list)]]
               mem2 == [mem EXCEPT ![k] = mem[Len(list)]]
               rw2 == [rw EXCEPT ![Slot(list[Len(list)])] = k]
    <2>1. G = [rows |-> Front(put), memory |-> mem2, row |-> rw2]
      BY <1>3 DEF GiveUp
    <2>2. put \in Seq(Ids) /\ Len(put) = Len(list) /\ \A j \in 1..Len(list) : put[j] = IF j = k THEN list[Len(list)] ELSE list[j]
      BY <1>0
    <2>3. mem2 \in Seq(Fields) /\ Len(mem2) = Len(mem) /\ \A j \in 1..Len(mem) : mem2[j] = IF j = k THEN mem[Len(list)] ELSE mem[j]
      BY <1>0
    <2>4. rw2 \in [Slots -> Nat] /\ \A s \in Slots : rw2[s] = IF s = Slot(list[Len(list)]) THEN k ELSE rw[s]
      BY <1>0, <1>1
    <2> HIDE DEF put, mem2, rw2
    <2>5. Front(put) \in Seq(Ids) /\ Len(Front(put)) = Len(list) - 1
          /\ \A j \in 1..(Len(list) - 1) : Front(put)[j] = put[j]
      <3>1. put # <<>>
        BY <1>0, <2>2, EmptySeq
      <3> QED
        BY <2>2, <3>1, FrontFacts
    <2>6. G.rows = Front(put) /\ G.memory = mem2 /\ G.row = rw2
      BY <2>1
    <2> QED
      BY <1>0, <1>3, <2>2, <2>3, <2>4, <2>5, <2>6
  <1> QED
    BY <1>2, <1>3

(* An entity of a table, with what stands there; rw1 is what the caller    *)
(* has the rows for, of the others as yet the same.                        *)
CanGiveUp(E, x, m, rw, rw1, list, mem, wr) ==
    /\ DistinctSlots(E) /\ x \in E
    /\ list \in Seq(Ids) /\ mem \in Seq(Fields) /\ rw1 \in [Slots -> Nat]
    /\ Len(list) <= Len(mem)
    /\ TableHolds(E, rw, list) /\ FieldsHold(E, m, rw, mem, wr)
    /\ \A y \in E \ {x} : rw1[Slot(y)] = rw[Slot(y)]

GaveUp(E, x, m, rw1, wr, G) ==
    /\ TableHolds(E \ {x}, G.row, G.rows)
    /\ FieldsHold(E \ {x}, m, G.row, G.memory, wr)
    /\ G.rows \in Seq(Ids) /\ G.memory \in Seq(Fields) /\ G.row \in [Slots -> Nat]
    /\ Len(G.rows) <= Len(G.memory)
    /\ \A s \in Slots : (\A y \in E \ {x} : Slot(y) # s) => G.row[s] = rw1[s]

\* An entity gives up its row: the others keep theirs, the last one in the
\* place of the row given up, and is told so.
LEMMA GiveUpHolds ==
    ASSUME NEW E, NEW x, NEW m, NEW wr, NEW list, NEW mem, NEW rw, NEW rw1,
           CanGiveUp(E, x, m, rw, rw1, list, mem, wr)
    PROVE  GaveUp(E, x, m, rw1, wr,
                  GiveUp([rows |-> list, memory |-> mem, row |-> rw1], rw[Slot(x)]))
  <1> DEFINE G == GiveUp([rows |-> list, memory |-> mem, row |-> rw1], rw[Slot(x)])
             k == rw[Slot(x)]
             n == Len(list)
  <1>0. /\ DistinctSlots(E) /\ x \in E
        /\ list \in Seq(Ids) /\ mem \in Seq(Fields) /\ rw1 \in [Slots -> Nat]
        /\ Len(list) <= Len(mem)
        /\ TableHolds(E, rw, list) /\ FieldsHold(E, m, rw, mem, wr)
        /\ \A y \in E \ {x} : rw1[Slot(y)] = rw[Slot(y)]
    BY DEF CanGiveUp
  <1>1. k \in 1..n /\ list[k] = x
    BY <1>0 DEF TableHolds
  <1>2. /\ G.rows \in Seq(Ids) /\ Len(G.rows) = n - 1 /\ n \in Nat \ {0}
        /\ \A j \in 1..(n - 1) : G.rows[j] = IF j = k THEN list[n] ELSE list[j]
        /\ G.memory \in Seq(Fields) /\ Len(G.memory) = Len(mem)
        /\ \A j \in 1..(n - 1) : G.memory[j] = IF j = k THEN mem[n] ELSE mem[j]
        /\ G.row \in [Slots -> Nat]
        /\ \A s \in Slots : G.row[s] = IF k # n /\ s = Slot(list[n]) THEN k ELSE rw1[s]
    <2>1. G = GiveUp([rows |-> list, memory |-> mem, row |-> rw1], k)
      OBVIOUS
    <2>2. k \in 1..Len(list) /\ list \in Seq(Ids) /\ mem \in Seq(Fields) /\ rw1 \in [Slots -> Nat]
          /\ Len(list) <= Len(mem)
      BY <1>0, <1>1
    <2> HIDE DEF G, k
    <2> QED
      BY ONLY <2>1, <2>2, GiveUpValues
  <1>3. /\ \A j \in 1..n : list[j] \in E /\ rw[Slot(list[j])] = j
        /\ \A y \in E : rw[Slot(y)] \in 1..n /\ list[rw[Slot(y)]] = y
        /\ \A y \in E : \A t \in m \cap InitTypes : mem[rw[Slot(y)]][t] = wr[Slot(y)][t]
    BY <1>0 DEF TableHolds, FieldsHold
  <1>4. \A y \in E : Slot(y) \in Slots
    BY <1>0 DEF DistinctSlots, Ids, Slot
  <1>5. \A y \in E : Slot(y) = Slot(list[n]) <=> y = list[n]
    BY <1>0, <1>2, <1>3 DEF DistinctSlots
  <1> HIDE DEF G, k, n
  <1>6. k # n => list[n] \in E \ {x}
    BY <1>1, <1>2, <1>3 DEF k
  <1>7. \A y \in E \ {x} : G.row[Slot(y)] = IF k # n /\ y = list[n] THEN k ELSE rw[Slot(y)]
    BY <1>0, <1>2, <1>4, <1>5
  <1>8. \A y \in E \ {x} : rw[Slot(y)] # k /\ (rw[Slot(y)] = n <=> y = list[n])
    BY <1>1, <1>2, <1>3
  <1>9. ASSUME NEW y \in E \ {x}
        PROVE  G.row[Slot(y)] \in 1..(n - 1) /\ G.rows[G.row[Slot(y)]] = y
               /\ G.memory[G.row[Slot(y)]] = mem[rw[Slot(y)]]
    <2>1. CASE y = list[n]
      <3>1. k # n
        BY <1>8, <2>1
      <3>2. G.row[Slot(y)] = k /\ rw[Slot(y)] = n /\ k \in 1..(n - 1)
        BY <1>1, <1>2, <1>7, <1>8, <2>1, <3>1
      <3> QED
        BY <1>2, <2>1, <3>2
    <2>2. CASE y # list[n]
      <3>1. G.row[Slot(y)] = rw[Slot(y)] /\ rw[Slot(y)] # n /\ rw[Slot(y)] # k /\ rw[Slot(y)] \in 1..n
        BY <1>3, <1>7, <1>8, <2>2
      <3>2. PICK j \in 1..(n - 1) : j = rw[Slot(y)] /\ j # k
        BY <1>2, <3>1
      <3>3. G.rows[j] = list[j] /\ G.memory[j] = mem[j] /\ list[j] = y
        BY <1>2, <1>3, <3>2
      <3> QED
        BY <3>1, <3>2, <3>3
    <2> QED
      BY <2>1, <2>2
  <1>10. ASSUME NEW j \in 1..(n - 1)
         PROVE  G.rows[j] \in E \ {x} /\ G.row[Slot(G.rows[j])] = j
    <2>1. CASE j = k
      <3>1. G.rows[j] = list[n] /\ k # n
        BY <1>2, <2>1
      <3> QED
        BY <1>6, <1>7, <2>1, <3>1
    <2>2. CASE j # k
      <3>1. G.rows[j] = list[j] /\ j \in 1..n /\ j # n
        BY <1>2, <2>2
      <3>2. list[j] \in E /\ rw[Slot(list[j])] = j
        BY <1>3, <3>1
      <3>3. list[j] # x
        BY <2>2, <3>2 DEF k
      <3>4. list[j] # list[n]
        BY <1>2, <1>3, <3>1, <3>2
      <3> QED
        BY <1>7, <3>1, <3>2, <3>3, <3>4
    <2> QED
      BY <2>1, <2>2
  <1>11. TableHolds(E \ {x}, G.row, G.rows)
    BY <1>2, <1>9, <1>10 DEF TableHolds
  <1>12. FieldsHold(E \ {x}, m, G.row, G.memory, wr)
    BY <1>3, <1>9 DEF FieldsHold
  <1>13. ASSUME NEW s \in Slots, \A y \in E \ {x} : Slot(y) # s
         PROVE  G.row[s] = rw1[s]
    BY <1>2, <1>6, <1>13
  <1>14. Len(G.rows) <= Len(G.memory)
    BY <1>0, <1>2 DEF n
  <1>15. GaveUp(E, x, m, rw1, wr, G)
    BY <1>2, <1>11, <1>12, <1>13, <1>14 DEF GaveUp
  <1> QED
    BY <1>15 DEF G

(* One row more at the end, its fields reset, and the entity told of it.   *)
Longer(list, mem, rw, m, x, T) ==
    /\ T.rows \in Seq(Ids) /\ Len(T.rows) = Len(list) + 1 /\ Len(list) \in Nat
    /\ T.rows[Len(list) + 1] = x /\ \A j \in 1..Len(list) : T.rows[j] = list[j]
    /\ T.memory \in Seq(Fields) /\ Len(list) + 1 <= Len(T.memory)
    /\ \A j \in 1..Len(list) : T.memory[j] = mem[j]
    /\ \A t \in m \cap InitTypes : T.memory[Len(list) + 1][t] = 0
    /\ T.row \in [Slots -> Nat]
    /\ \A s \in Slots : T.row[s] = IF s = Slot(x) THEN Len(list) + 1 ELSE rw[s]

\* What tc_archetype_alloc_row leaves: one row more, its fields reset.
LEMMA TakeRowValues ==
    ASSUME NEW list \in Seq(Ids), NEW mem \in Seq(Fields), NEW rw \in [Slots -> Nat],
           NEW m, NEW x \in Ids, Len(list) <= Len(mem),
           NEW T, T = TakeRow([rows |-> list, memory |-> mem, row |-> rw], m, x)
    PROVE  Longer(list, mem, rw, m, x, T)
  <1> DEFINE k == Len(list) + 1
             mem2 == IF k <= Len(mem) THEN [mem EXCEPT ![k] = Fresh(m, @)] ELSE Append(mem, Zeroed)
             rw2 == [rw EXCEPT ![Slot(x)] = k]
  <1>0. Len(list) \in Nat /\ Len(mem) \in Nat /\ k \in Nat \ {0} /\ InitTypes \subseteq RowTypes /\ 0 \in RowValues
    BY RowsAssumption
  <1>1. T = [rows |-> Append(list, x), memory |-> mem2, row |-> rw2]
    BY DEF TakeRow
  <1>2. Append(list, x) \in Seq(Ids) /\ Len(Append(list, x)) = k /\ Append(list, x)[k] = x
        /\ \A j \in 1..Len(list) : Append(list, x)[j] = list[j]
    BY <1>0
  <1>3. Zeroed \in Fields /\ \A t \in RowTypes : Zeroed[t] = 0
    BY <1>0 DEF Zeroed, Fields
  <1>4. ASSUME NEW old \in Fields
        PROVE  Fresh(m, old) \in Fields /\ \A t \in m \cap InitTypes : Fresh(m, old)[t] = 0
    BY <1>0 DEF Fresh, Fields
  <1>5. /\ mem2 \in Seq(Fields) /\ k <= Len(mem2)
        /\ \A j \in 1..Len(list) : mem2[j] = mem[j]
        /\ \A t \in m \cap InitTypes : mem2[k][t] = 0
    <2>1. CASE k <= Len(mem)
      <3>1. mem[k] \in Fields
        BY <1>0, <2>1
      <3>2. mem2 = [mem EXCEPT ![k] = Fresh(m, mem[k])]
        BY <2>1
      <3>3. PICK f \in Fields : f = Fresh(m, mem[k]) /\ \A t \in m \cap InitTypes : f[t] = 0
        BY <1>4, <3>1
      <3>4. mem2 = [mem EXCEPT ![k] = f]
        BY <3>2, <3>3
      <3> HIDE DEF mem2
      <3> QED
        BY <1>0, <2>1, <3>3, <3>4
    <2>2. CASE ~(k <= Len(mem))
      <3>1. mem2 = Append(mem, Zeroed) /\ Len(mem) = Len(list)
        BY <1>0, <2>2
      <3> HIDE DEF mem2
      <3>2. Append(mem, Zeroed) \in Seq(Fields) /\ Len(Append(mem, Zeroed)) = k
            /\ Append(mem, Zeroed)[k] = Zeroed /\ \A j \in 1..Len(list) : Append(mem, Zeroed)[j] = mem[j]
        BY <1>0, <1>3, <3>1, AppendFacts
      <3> QED
        BY <1>0, <1>3, <3>1, <3>2
    <2> QED
      BY <2>1, <2>2
  <1>6. rw2 \in [Slots -> Nat] /\ \A s \in Slots : rw2[s] = IF s = Slot(x) THEN k ELSE rw[s]
    BY <1>0
  <1> HIDE DEF mem2, rw2
  <1>7. T.rows = Append(list, x) /\ T.memory = mem2 /\ T.row = rw2
    BY <1>1
  <1> QED
    BY <1>0, <1>2, <1>5, <1>6, <1>7 DEF Longer

(* An entity that is not in a table yet, and what the table holds.         *)
CanTake(E, x, m, rw, list, mem, wr) ==
    /\ DistinctSlots(E \cup {x}) /\ x \in Ids \ E
    /\ list \in Seq(Ids) /\ mem \in Seq(Fields) /\ rw \in [Slots -> Nat]
    /\ Len(list) <= Len(mem)
    /\ TableHolds(E, rw, list) /\ FieldsHold(E, m, rw, mem, wr)

Took(E, x, m, rw, wr, T) ==
    /\ T.rows \in Seq(Ids) /\ T.memory \in Seq(Fields) /\ T.row \in [Slots -> Nat]
    /\ TableHolds(E \cup {x}, T.row, T.rows)
    /\ FieldsHold(E, m, T.row, T.memory, wr)
    /\ Len(T.rows) \in 1..Len(T.memory)
    /\ T.row[Slot(x)] = Len(T.rows) /\ \A y \in E : T.row[Slot(y)] # Len(T.rows)
    /\ \A s \in Slots \ {Slot(x)} : T.row[s] = rw[s]
    /\ \A t \in m \cap InitTypes : T.memory[Len(T.rows)][t] = 0

\* An entity takes a row: the others keep theirs.
LEMMA TakeRowHolds ==
    ASSUME NEW E, NEW x, NEW m, NEW list, NEW mem, NEW rw, NEW wr,
           CanTake(E, x, m, rw, list, mem, wr)
    PROVE  Took(E, x, m, rw, wr, TakeRow([rows |-> list, memory |-> mem, row |-> rw], m, x))
  <1> DEFINE T == TakeRow([rows |-> list, memory |-> mem, row |-> rw], m, x)
             n == Len(list)
  <1>0. /\ DistinctSlots(E \cup {x}) /\ x \in Ids \ E
        /\ list \in Seq(Ids) /\ mem \in Seq(Fields) /\ rw \in [Slots -> Nat]
        /\ Len(list) <= Len(mem)
        /\ TableHolds(E, rw, list) /\ FieldsHold(E, m, rw, mem, wr)
    BY DEF CanTake
  <1>1. /\ T.rows \in Seq(Ids) /\ Len(T.rows) = n + 1 /\ n \in Nat
        /\ T.rows[n + 1] = x /\ \A j \in 1..n : T.rows[j] = list[j]
        /\ T.memory \in Seq(Fields) /\ n + 1 <= Len(T.memory) /\ \A j \in 1..n : T.memory[j] = mem[j]
        /\ \A t \in m \cap InitTypes : T.memory[n + 1][t] = 0
        /\ T.row \in [Slots -> Nat]
        /\ \A s \in Slots : T.row[s] = IF s = Slot(x) THEN n + 1 ELSE rw[s]
    <2>1. T = TakeRow([rows |-> list, memory |-> mem, row |-> rw], m, x)
      OBVIOUS
    <2>2. x \in Ids /\ list \in Seq(Ids) /\ mem \in Seq(Fields) /\ rw \in [Slots -> Nat] /\ Len(list) <= Len(mem)
      BY <1>0
    <2>3. Longer(list, mem, rw, m, x, T)
      <3> HIDE DEF T
      <3> QED
        BY ONLY <2>1, <2>2, TakeRowValues
    <2> HIDE DEF T
    <2> QED
      BY <2>3 DEF Longer
  <1>2. Slot(x) \in Slots /\ \A y \in E : Slot(y) \in Slots /\ Slot(y) # Slot(x)
    BY <1>0 DEF DistinctSlots, Ids, Slot
  <1>3. /\ \A j \in 1..n : list[j] \in E /\ rw[Slot(list[j])] = j
        /\ \A y \in E : rw[Slot(y)] \in 1..n /\ list[rw[Slot(y)]] = y
        /\ \A y \in E : \A t \in m \cap InitTypes : mem[rw[Slot(y)]][t] = wr[Slot(y)][t]
    BY <1>0 DEF TableHolds, FieldsHold
  <1> HIDE DEF T, n
  <1>4. T.row[Slot(x)] = n + 1 /\ \A y \in E : T.row[Slot(y)] = rw[Slot(y)] /\ T.row[Slot(y)] # n + 1
    BY <1>1, <1>2, <1>3
  <1>5. ASSUME NEW j \in 1..(n + 1)
        PROVE  T.rows[j] \in E \cup {x} /\ T.row[Slot(T.rows[j])] = j
    <2>1. CASE j = n + 1
      BY <1>1, <1>4, <2>1
    <2>2. CASE j \in 1..n
      <3>1. T.rows[j] = list[j] /\ list[j] \in E /\ rw[Slot(list[j])] = j
        BY <1>1, <1>3, <2>2
      <3> QED
        BY <1>4, <3>1
    <2> QED
      BY <1>1, <2>1, <2>2
  <1>6. ASSUME NEW y \in E
        PROVE  /\ T.row[Slot(y)] \in 1..(n + 1) /\ T.rows[T.row[Slot(y)]] = y
               /\ \A t \in m \cap InitTypes : T.memory[T.row[Slot(y)]][t] = wr[Slot(y)][t]
    <2>1. PICK j \in 1..n : j = rw[Slot(y)] /\ T.row[Slot(y)] = j /\ list[j] = y
      BY <1>3, <1>4
    <2>2. T.rows[j] = y /\ T.memory[j] = mem[j] /\ j \in 1..(n + 1)
      BY <1>1, <2>1
    <2>3. \A t \in m \cap InitTypes : T.memory[j][t] = wr[Slot(y)][t]
      BY <1>3, <2>1, <2>2
    <2> QED
      BY <2>1, <2>2, <2>3
  <1>7. T.row[Slot(x)] \in 1..(n + 1) /\ T.rows[T.row[Slot(x)]] = x
    BY <1>1, <1>4
  <1>8. TableHolds(E \cup {x}, T.row, T.rows)
    <2>1. \A j \in 1..Len(T.rows) : T.rows[j] \in E \cup {x} /\ T.row[Slot(T.rows[j])] = j
      BY <1>1, <1>5
    <2>2. \A y \in E \cup {x} : T.row[Slot(y)] \in 1..Len(T.rows) /\ T.rows[T.row[Slot(y)]] = y
      BY <1>1, <1>6, <1>7
    <2> QED
      BY <2>1, <2>2 DEF TableHolds
  <1>9. FieldsHold(E, m, T.row, T.memory, wr)
    BY <1>6 DEF FieldsHold
  <1>10. Len(T.rows) \in 1..Len(T.memory)
    BY <1>1
  <1>11. \A s \in Slots \ {Slot(x)} : T.row[s] = rw[s]
    BY <1>1
  <1>12. Took(E, x, m, rw, wr, T)
    BY <1>1, <1>4, <1>8, <1>9, <1>10, <1>11 DEF Took
  <1> QED
    BY <1>12 DEF T
-----------------------------------------------------------------------------
(* The tables of a pool, as values.                                        *)

RowsTyped(mk, rw, rs, mem, wr) ==
    /\ mk \in [Slots -> Tables] /\ rw \in [Slots -> Nat]
    /\ rs \in [Tables -> Seq(Ids)] /\ mem \in [Tables -> Seq(Fields)]
    /\ wr \in [Slots -> Fields]

(* The entities of L that have exactly the types m.                        *)
Having(L, mk, m) == {x \in L : mk[Slot(x)] = m}

TableOK(E, m, rw, list, mem, wr) ==
    /\ Len(list) <= Len(mem)
    /\ TableHolds(E, rw, list)
    /\ FieldsHold(E, m, rw, mem, wr)

TablesOK(L, mk, rw, rs, mem, wr) ==
    /\ RowsTyped(mk, rw, rs, mem, wr)
    /\ rs[{}] = <<>>
    /\ \A m \in Tables \ {{}} : TableOK(Having(L, mk, m), m, rw, rs[m], mem[m], wr)

\* A table whose entities, rows and values stand.
LEMMA TableStands ==
    ASSUME NEW E, NEW m, NEW rw, NEW rw2, NEW list, NEW mem, NEW wr, NEW wr2,
           TableOK(E, m, rw, list, mem, wr),
           \A x \in E : rw2[Slot(x)] = rw[Slot(x)] /\ wr2[Slot(x)] = wr[Slot(x)]
    PROVE  TableOK(E, m, rw2, list, mem, wr2)
  <1> QED
    BY TableCongruence DEF TableOK

\* A slot that is taken starts without a row (tc_entity_pool_alloc_with_uuid).
LEMMA RowForgotten ==
    ASSUME NEW L, NEW x \in Ids, DistinctSlots(L \cup {x}), x \notin L,
           NEW mk, NEW rw, NEW rs, NEW mem, NEW wr, TablesOK(L, mk, rw, rs, mem, wr)
    PROVE  TablesOK(L \cup {x}, [mk EXCEPT ![Slot(x)] = {}], [rw EXCEPT ![Slot(x)] = 0], rs, mem,
                    [wr EXCEPT ![Slot(x)] = Zeroed])
  <1> DEFINE mk2 == [mk EXCEPT ![Slot(x)] = {}]
             rw2 == [rw EXCEPT ![Slot(x)] = 0]
             wr2 == [wr EXCEPT ![Slot(x)] = Zeroed]
  <1>0. RowsTyped(mk, rw, rs, mem, wr) /\ Zeroed \in Fields /\ {} \in Tables /\ Slot(x) \in Slots
    BY RowsAssumption DEF TablesOK, Zeroed, Fields, Tables, Ids, Slot
  <1>1. RowsTyped(mk2, rw2, rs, mem, wr2)
    BY <1>0 DEF RowsTyped
  <1>2. \A y \in L : Slot(y) \in Slots /\ Slot(y) # Slot(x)
    BY DEF DistinctSlots, Ids, Slot
  <1>3. /\ \A y \in L : mk2[Slot(y)] = mk[Slot(y)] /\ rw2[Slot(y)] = rw[Slot(y)] /\ wr2[Slot(y)] = wr[Slot(y)]
        /\ mk2[Slot(x)] = {}
    BY <1>0, <1>2 DEF RowsTyped
  <1> HIDE DEF mk2, rw2, wr2
  <1>4. ASSUME NEW m \in Tables \ {{}}
        PROVE  TableOK(Having(L \cup {x}, mk2, m), m, rw2, rs[m], mem[m], wr2)
    <2>1. Having(L \cup {x}, mk2, m) = Having(L, mk, m)
      BY <1>3 DEF Having
    <2>2. TableOK(Having(L, mk, m), m, rw, rs[m], mem[m], wr)
      BY DEF TablesOK
    <2>3. \A y \in Having(L, mk, m) : rw2[Slot(y)] = rw[Slot(y)] /\ wr2[Slot(y)] = wr[Slot(y)]
      BY <1>3 DEF Having
    <2> QED
      BY <2>1, <2>2, <2>3, TableStands
  <1>5. TablesOK(L \cup {x}, mk2, rw2, rs, mem, wr2)
    BY <1>1, <1>4 DEF TablesOK
  <1> QED
    BY <1>5 DEF mk2, rw2, wr2

\* An entity without a row goes.
LEMMA RowlessGoes ==
    ASSUME NEW L, NEW x, NEW mk, NEW rw, NEW rs, NEW mem, NEW wr,
           TablesOK(L, mk, rw, rs, mem, wr), mk[Slot(x)] = {}
    PROVE  TablesOK(L \ {x}, mk, rw, rs, mem, wr)
  <1>1. \A m \in Tables \ {{}} : Having(L \ {x}, mk, m) = Having(L, mk, m)
    BY DEF Having
  <1> QED
    BY <1>1 DEF TablesOK

\* An entity gives up its row (tc_entity_pool_free, tc_entity_pool_remove_soa),
\* and goes or stays.
LEMMA RowDropped ==
    ASSUME NEW L, NEW x \in L, DistinctSlots(L), NEW L2, L \ {x} \subseteq L2, L2 \subseteq L,
           NEW mk, NEW rw, NEW rs, NEW mem, NEW wr, TablesOK(L, mk, rw, rs, mem, wr),
           NEW m, m = mk[Slot(x)], m # {},
           NEW G, G = GiveUp([rows |-> rs[m], memory |-> mem[m], row |-> rw], rw[Slot(x)])
    PROVE  TablesOK(L2, [mk EXCEPT ![Slot(x)] = {}], [G.row EXCEPT ![Slot(x)] = 0],
                    [rs EXCEPT ![m] = G.rows], [mem EXCEPT ![m] = G.memory],
                    [wr EXCEPT ![Slot(x)] = Zeroed])
  <1> DEFINE s == Slot(x)
             mk2 == [mk EXCEPT ![s] = {}]
             rw2 == [G.row EXCEPT ![s] = 0]
             rs2 == [rs EXCEPT ![m] = G.rows]
             mem2 == [mem EXCEPT ![m] = G.memory]
             wr2 == [wr EXCEPT ![s] = Zeroed]
             E == Having(L, mk, m)
  <1>0. /\ RowsTyped(mk, rw, rs, mem, wr) /\ Zeroed \in Fields /\ {} \in Tables /\ s \in Slots
        /\ m \in Tables \ {{}} /\ rs[{}] = <<>>
        /\ \A n \in Tables \ {{}} : TableOK(Having(L, mk, n), n, rw, rs[n], mem[n], wr)
    <2>1. s \in Slots
      BY DEF DistinctSlots, Ids, Slot
    <2>2. RowsTyped(mk, rw, rs, mem, wr)
      BY DEF TablesOK
    <2>3. Zeroed \in Fields /\ {} \in Tables
      BY RowsAssumption DEF Zeroed, Fields, Tables
    <2> QED
      BY <2>1, <2>2, <2>3 DEF TablesOK, RowsTyped
  <1>1. DistinctSlots(E) /\ x \in E
    BY DEF Having, DistinctSlots
  <1>2. TableOK(E, m, rw, rs[m], mem[m], wr) /\ rs[m] \in Seq(Ids) /\ mem[m] \in Seq(Fields) /\ rw \in [Slots -> Nat]
    BY <1>0 DEF RowsTyped
  <1>3. /\ TableHolds(E \ {x}, G.row, G.rows) /\ FieldsHold(E \ {x}, m, G.row, G.memory, wr)
        /\ G.rows \in Seq(Ids) /\ G.memory \in Seq(Fields) /\ G.row \in [Slots -> Nat]
        /\ Len(G.rows) <= Len(G.memory)
        /\ \A z \in Slots : (\A y \in E \ {x} : Slot(y) # z) => G.row[z] = rw[z]
    <2>1. CanGiveUp(E, x, m, rw, rw, rs[m], mem[m], wr)
      BY <1>1, <1>2 DEF TableOK, CanGiveUp
    <2>2. GaveUp(E, x, m, rw, wr, G)
      BY <2>1, GiveUpHolds
    <2> QED
      BY <2>2 DEF GaveUp
  <1>4. TableOK(E \ {x}, m, G.row, G.rows, G.memory, wr)
    BY <1>3 DEF TableOK
  <1>5. \A y \in L \ {x} : Slot(y) \in Slots /\ Slot(y) # s
    BY DEF DistinctSlots, Ids, Slot
  <1>6. /\ RowsTyped(mk2, rw2, rs2, mem2, wr2) /\ rs2[{}] = <<>>
        /\ rs2[m] = G.rows /\ mem2[m] = G.memory
        /\ \A n \in Tables \ {m} : rs2[n] = rs[n] /\ mem2[n] = mem[n]
        /\ mk2[s] = {}
        /\ \A y \in L \ {x} : mk2[Slot(y)] = mk[Slot(y)] /\ rw2[Slot(y)] = G.row[Slot(y)]
                              /\ wr2[Slot(y)] = wr[Slot(y)]
    BY <1>0, <1>3, <1>5 DEF RowsTyped
  <1> HIDE DEF mk2, rw2, rs2, mem2, wr2, s, E
  <1>7. ASSUME NEW n \in Tables \ {{}}
        PROVE  TableOK(Having(L2, mk2, n), n, rw2, rs2[n], mem2[n], wr2)
    <2>1. Having(L2, mk2, n) = Having(L, mk, n) \ {x}
      BY <1>6 DEF Having, s
    <2>2. \A y \in Having(L, mk, n) \ {x} : rw2[Slot(y)] = G.row[Slot(y)] /\ wr2[Slot(y)] = wr[Slot(y)]
      BY <1>6 DEF Having
    <2>3. CASE n = m
      <3>1. TableOK(E \ {x}, m, rw2, G.rows, G.memory, wr2)
        BY <1>4, <2>2, <2>3, TableStands DEF E
      <3> QED
        BY <1>6, <2>1, <2>3, <3>1 DEF E
    <2>4. CASE n # m
      <3>1. x \notin Having(L, mk, n)
        BY <2>4 DEF Having
      <3>2. \A y \in Having(L, mk, n) : G.row[Slot(y)] = rw[Slot(y)]
        <4> SUFFICES ASSUME NEW y \in Having(L, mk, n) PROVE G.row[Slot(y)] = rw[Slot(y)]
          OBVIOUS
        <4>1. y \in L \ {x} /\ Slot(y) \in Slots
          BY <1>5, <3>1 DEF Having
        <4>2. \A z \in E \ {x} : Slot(z) # Slot(y)
          BY <2>4, <4>1 DEF E, Having, DistinctSlots
        <4> QED
          BY <1>3, <4>1, <4>2
      <3>3. TableOK(Having(L, mk, n), n, rw2, rs[n], mem[n], wr2)
        <4>1. TableOK(Having(L, mk, n), n, rw, rs[n], mem[n], wr)
          BY <1>0
        <4>2. \A y \in Having(L, mk, n) : rw2[Slot(y)] = rw[Slot(y)] /\ wr2[Slot(y)] = wr[Slot(y)]
          BY <2>2, <3>1, <3>2
        <4> QED
          BY <4>1, <4>2, TableStands
      <3>4. Having(L2, mk2, n) = Having(L, mk, n) /\ rs2[n] = rs[n] /\ mem2[n] = mem[n]
        BY <1>6, <2>1, <2>4, <3>1
      <3> QED
        BY <3>3, <3>4
    <2> QED
      BY <2>3, <2>4
  <1>8. TablesOK(L2, mk2, rw2, rs2, mem2, wr2)
    BY <1>6, <1>7 DEF TablesOK
  <1> QED
    BY <1>8 DEF mk2, rw2, rs2, mem2, wr2, s

\* The host writes a field of its entity.
LEMMA RowWritten ==
    ASSUME NEW L, NEW x \in L, DistinctSlots(L),
           NEW mk, NEW rw, NEW rs, NEW mem, NEW wr, TablesOK(L, mk, rw, rs, mem, wr),
           NEW m, m = mk[Slot(x)], NEW t \in m, NEW v \in RowValues
    PROVE  TablesOK(L, mk, rw, rs, [mem EXCEPT ![m][rw[Slot(x)]][t] = v],
                    [wr EXCEPT ![Slot(x)][t] = v])
  <1> DEFINE s == Slot(x)
             k == rw[s]
             f == [mem[m][k] EXCEPT ![t] = v]
             table == [mem[m] EXCEPT ![k] = f]
             mem2 == [mem EXCEPT ![m] = table]
             wr2 == [wr EXCEPT ![s] = [wr[s] EXCEPT ![t] = v]]
             E == Having(L, mk, m)
  <1>0. /\ RowsTyped(mk, rw, rs, mem, wr) /\ s \in Slots
        /\ m \in Tables \ {{}} /\ rs[{}] = <<>> /\ t \in RowTypes
        /\ \A n \in Tables \ {{}} : TableOK(Having(L, mk, n), n, rw, rs[n], mem[n], wr)
    <2>1. s \in Slots
      BY DEF DistinctSlots, Ids, Slot
    <2>2. RowsTyped(mk, rw, rs, mem, wr)
      BY DEF TablesOK
    <2>3. m \in Tables \ {{}} /\ t \in RowTypes
      BY <2>1, <2>2 DEF RowsTyped, Tables
    <2> QED
      BY <2>1, <2>2, <2>3 DEF TablesOK
  <1>1. x \in E /\ TableOK(E, m, rw, rs[m], mem[m], wr) /\ mem[m] \in Seq(Fields) /\ rs[m] \in Seq(Ids)
        /\ wr[s] \in Fields
    BY <1>0 DEF Having, RowsTyped
  <1>2. k \in 1..Len(rs[m]) /\ Len(rs[m]) \in Nat /\ Len(mem[m]) \in Nat /\ Len(rs[m]) <= Len(mem[m])
        /\ \A y \in E : rw[Slot(y)] \in 1..Len(rs[m]) /\ rs[m][rw[Slot(y)]] = y
    BY <1>1 DEF TableOK, TableHolds
  <1>3. k \in 1..Len(mem[m]) /\ mem[m][k] \in Fields
    BY <1>1, <1>2
  <1>4. f \in Fields /\ f[t] = v /\ \A u \in RowTypes \ {t} : f[u] = mem[m][k][u]
    BY <1>0, <1>3 DEF Fields
  <1> HIDE DEF f
  <1>5. table \in Seq(Fields) /\ Len(table) = Len(mem[m]) /\ \A j \in 1..Len(mem[m]) : table[j] = IF j = k THEN f ELSE mem[m][j]
    BY <1>1, <1>3, <1>4
  <1>6. /\ wr2 \in [Slots -> Fields] /\ wr2[s][t] = v /\ \A u \in RowTypes \ {t} : wr2[s][u] = wr[s][u]
        /\ \A z \in Slots \ {s} : wr2[z] = wr[z]
    BY <1>0, <1>1 DEF RowsTyped, Fields
  <1> HIDE DEF table, wr2
  <1>7. mem2 \in [Tables -> Seq(Fields)] /\ mem2[m] = table /\ \A n \in Tables \ {m} : mem2[n] = mem[n]
    BY <1>0, <1>5 DEF RowsTyped
  <1> HIDE DEF mem2, E, k, s
  <1>8. \A y \in L \ {x} : Slot(y) \in Slots \ {s}
    BY DEF DistinctSlots, Ids, Slot, s
  <1>9. TableOK(E, m, rw, rs[m], table, wr2)
    <2>1. Len(rs[m]) <= Len(table)
      BY <1>2, <1>5
    <2>2. TableHolds(E, rw, rs[m])
      BY <1>1 DEF TableOK
    <2>3. ASSUME NEW y \in E, NEW u \in m \cap InitTypes
          PROVE  table[rw[Slot(y)]][u] = wr2[Slot(y)][u]
      <3>1. mem[m][rw[Slot(y)]][u] = wr[Slot(y)][u]
        BY <1>1 DEF TableOK, FieldsHold
      <3>2. rw[Slot(y)] \in 1..Len(mem[m]) /\ u \in RowTypes
        BY <1>0, <1>2 DEF Tables
      <3>3. CASE y = x
        <4>1. rw[Slot(y)] = k /\ Slot(y) = s
          BY <3>3 DEF k, s
        <4> QED
          BY <1>4, <1>5, <1>6, <3>1, <3>2, <4>1
      <3>4. CASE y # x
        <4>1. rw[Slot(y)] # k
          BY <1>1, <1>2, <3>4 DEF k, s
        <4>2. Slot(y) \in Slots \ {s}
          BY <1>8, <3>4 DEF E, Having
        <4> QED
          BY <1>5, <1>6, <3>1, <3>2, <4>1, <4>2
      <3> QED
        BY <3>3, <3>4
    <2> QED
      BY <2>1, <2>2, <2>3 DEF TableOK, FieldsHold
  <1>10. ASSUME NEW n \in Tables \ {{}}
         PROVE  TableOK(Having(L, mk, n), n, rw, rs[n], mem2[n], wr2)
    <2>1. CASE n = m
      BY <1>7, <1>9, <2>1 DEF E
    <2>2. CASE n # m
      <3>1. \A y \in Having(L, mk, n) : y \in L \ {x}
        BY <2>2 DEF Having
      <3>2. \A y \in Having(L, mk, n) : wr2[Slot(y)] = wr[Slot(y)] /\ rw[Slot(y)] = rw[Slot(y)]
        BY <1>6, <1>8, <3>1
      <3>3. TableOK(Having(L, mk, n), n, rw, rs[n], mem[n], wr)
        BY <1>0
      <3>4. TableOK(Having(L, mk, n), n, rw, rs[n], mem[n], wr2)
        BY <3>2, <3>3, TableStands
      <3> QED
        BY <1>7, <2>2, <3>4
    <2> QED
      BY <2>1, <2>2
  <1>11. RowsTyped(mk, rw, rs, mem2, wr2)
    BY <1>0, <1>6, <1>7 DEF RowsTyped
  <1>12. TablesOK(L, mk, rw, rs, mem2, wr2)
    BY <1>0, <1>10, <1>11 DEF TablesOK
  <1>13. [mem EXCEPT ![m][rw[Slot(x)]][t] = v] = mem2 /\ [wr EXCEPT ![Slot(x)][t] = v] = wr2
    BY DEF mem2, table, f, wr2, k, s
  <1> QED
    BY <1>12, <1>13

\* The row taken is given its values.
LEMMA RowFilled ==
    ASSUME NEW E, NEW x, NEW m, NEW rw, NEW wr, NEW T, Took(E, x, m, rw, wr, T),
           NEW f \in Fields, NEW wr2,
           \A y \in E : wr2[Slot(y)] = wr[Slot(y)],
           \A t \in m \cap InitTypes : f[t] = wr2[Slot(x)][t]
    PROVE  /\ TableOK(E \cup {x}, m, T.row, T.rows, [T.memory EXCEPT ![Len(T.rows)] = f], wr2)
           /\ [T.memory EXCEPT ![Len(T.rows)] = f] \in Seq(Fields)
  <1> DEFINE n == Len(T.rows)
             mem2 == [T.memory EXCEPT ![n] = f]
  <1>1. /\ T.memory \in Seq(Fields) /\ n \in 1..Len(T.memory)
        /\ TableHolds(E \cup {x}, T.row, T.rows)
        /\ T.row[Slot(x)] = n /\ \A y \in E : T.row[Slot(y)] # n
        /\ \A y \in E : \A t \in m \cap InitTypes : T.memory[T.row[Slot(y)]][t] = wr[Slot(y)][t]
    BY DEF Took, FieldsHold
  <1>2. \A y \in E : T.row[Slot(y)] \in 1..n
    BY <1>1 DEF TableHolds
  <1>3. /\ mem2 \in Seq(Fields) /\ Len(mem2) = Len(T.memory) /\ mem2[n] = f
        /\ \A j \in 1..Len(T.memory) : j # n => mem2[j] = T.memory[j]
    BY <1>1
  <1> HIDE DEF mem2, n
  <1>4. ASSUME NEW y \in E \cup {x}, NEW t \in m \cap InitTypes
        PROVE  mem2[T.row[Slot(y)]][t] = wr2[Slot(y)][t]
    <2>1. CASE y = x
      BY <1>1, <1>3, <2>1
    <2>2. CASE y \in E
      <3>1. PICK j \in 1..Len(T.memory) : j = T.row[Slot(y)] /\ j # n
        BY <1>1, <1>2, <2>2
      <3>2. mem2[j] = T.memory[j]
        BY <1>3, <3>1
      <3> QED
        BY <1>1, <2>2, <3>1, <3>2
    <2> QED
      BY <2>1, <2>2
  <1>5. FieldsHold(E \cup {x}, m, T.row, mem2, wr2)
    BY <1>4 DEF FieldsHold
  <1>6. TableOK(E \cup {x}, m, T.row, T.rows, mem2, wr2)
    BY <1>1, <1>3, <1>5 DEF TableOK, n
  <1> QED
    BY <1>3, <1>6 DEF mem2, n

(* What pool_move_entity_archetype leaves of the tables of a pool.         *)
TableSet(ts, ts2, new, A, old, B) ==
    /\ ts2[new] = A /\ (old # {} => ts2[old] = B)
    /\ \A n \in Tables \ {new, old} : ts2[n] = ts[n]

MovesRow(x, new, mk, rw, rs, mem, wr, T, G, f, mk2, rw2, rs2, mem2, wr2) ==
    LET s == Slot(x)
        old == mk[s]
    IN  /\ new \in Tables \ {{}} /\ new # old
        /\ T = TakeRow([rows |-> rs[new], memory |-> mem[new], row |-> rw], new, x)
        /\ G = GiveUp([rows |-> rs[old], memory |-> mem[old], row |-> T.row], rw[s])
        /\ f = [t \in RowTypes |-> IF t \in old \cap new THEN mem[old][rw[s]][t]
                                   ELSE T.memory[Len(T.rows)][t]]
        /\ mk2 = [mk EXCEPT ![s] = new]
        /\ rw2 = IF old = {} THEN T.row ELSE [G.row EXCEPT ![s] = Len(T.rows)]
        /\ rs2 = [n \in Tables |-> rs2[n]] /\ rs2[{}] = rs[{}]
        /\ TableSet(rs, rs2, new, T.rows, old, G.rows)
        /\ mem2 = [n \in Tables |-> mem2[n]] /\ mem2[{}] = mem[{}]
        /\ TableSet(mem, mem2, new, [T.memory EXCEPT ![Len(T.rows)] = f], old, G.memory)
        /\ wr2 = [wr EXCEPT ![s] = [t \in RowTypes |-> IF t \in old \cap new THEN wr[s][t] ELSE 0]]

\* An entity takes a row of another table, with the fields both have, and
\* gives up the one it had, if any.
LEMMA RowMoved ==
    ASSUME NEW L, NEW x \in L, DistinctSlots(L), NEW new,
           NEW mk, NEW rw, NEW rs, NEW mem, NEW wr, TablesOK(L, mk, rw, rs, mem, wr),
           NEW T, NEW G, NEW f, NEW mk2, NEW rw2, NEW rs2, NEW mem2, NEW wr2,
           MovesRow(x, new, mk, rw, rs, mem, wr, T, G, f, mk2, rw2, rs2, mem2, wr2)
    PROVE  TablesOK(L, mk2, rw2, rs2, mem2, wr2)
  <1> DEFINE s == Slot(x)
             old == mk[s]
             k == rw[s]
             E == Having(L, mk, old)
             F == Having(L, mk, new)
  <1>0. /\ mk \in [Slots -> Tables] /\ rw \in [Slots -> Nat]
        /\ rs \in [Tables -> Seq(Ids)] /\ mem \in [Tables -> Seq(Fields)] /\ wr \in [Slots -> Fields]
        /\ \A n \in Tables \ {{}} : TableOK(Having(L, mk, n), n, rw, rs[n], mem[n], wr)
    BY DEF TablesOK, RowsTyped
  <1>a. new \in Tables \ {{}} /\ new # old /\ new \subseteq RowTypes
    BY Zenon DEF MovesRow, Tables
  <1>1. /\ s \in Slots /\ x \in Ids /\ old \in Tables /\ x \in E /\ x \notin F
        /\ \A y \in L \ {x} : Slot(y) \in Slots /\ Slot(y) # s
    BY <1>0, <1>a DEF DistinctSlots, Ids, Slot, Having
  <1>2. DistinctSlots(E) /\ DistinctSlots(F \cup {x}) /\ E \subseteq L /\ F \subseteq L
    BY DEF Having, DistinctSlots
  <1>3. Took(F, x, new, rw, wr, T)
    <2>1. TableOK(F, new, rw, rs[new], mem[new], wr)
      BY <1>0, <1>a
    <2>2. rs[new] \in Seq(Ids) /\ mem[new] \in Seq(Fields)
      BY <1>0, <1>a
    <2>3. CanTake(F, x, new, rw, rs[new], mem[new], wr)
      BY <1>0, <1>1, <1>2, <2>1, <2>2 DEF CanTake, TableOK
    <2>4. T = TakeRow([rows |-> rs[new], memory |-> mem[new], row |-> rw], new, x)
      BY Zenon DEF MovesRow
    <2> QED
      BY <2>3, <2>4, TakeRowHolds
  <1>4. /\ T.row \in [Slots -> Nat] /\ T.row[s] = Len(T.rows) /\ Len(T.rows) \in Nat
        /\ \A z \in Slots \ {s} : T.row[z] = rw[z]
        /\ Len(T.rows) \in 1..Len(T.memory) /\ T.memory \in Seq(Fields)
        /\ T.memory[Len(T.rows)] \in Fields
        /\ \A t \in new \cap InitTypes : T.memory[Len(T.rows)][t] = 0
    <2>1. /\ T.row \in [Slots -> Nat] /\ T.row[s] = Len(T.rows)
          /\ \A z \in Slots \ {s} : T.row[z] = rw[z]
          /\ Len(T.rows) \in 1..Len(T.memory) /\ T.memory \in Seq(Fields)
          /\ \A t \in new \cap InitTypes : T.memory[Len(T.rows)][t] = 0
      BY <1>3 DEF Took
    <2> HIDE DEF s
    <2>2. Len(T.rows) \in Nat /\ T.memory[Len(T.rows)] \in Fields
      BY <2>1
    <2> QED
      BY <2>1, <2>2
  <1>5. ASSUME old # {}
        PROVE  GaveUp(E, x, old, T.row, wr, G) /\ TableOK(E, old, rw, rs[old], mem[old], wr)
    <2>1. TableOK(E, old, rw, rs[old], mem[old], wr) /\ rs[old] \in Seq(Ids) /\ mem[old] \in Seq(Fields)
      BY <1>0, <1>1, <1>5
    <2>2. \A y \in E \ {x} : T.row[Slot(y)] = rw[Slot(y)]
      <3> HIDE DEF s, E
      <3> QED
        BY <1>1, <1>2, <1>4
    <2>3. CanGiveUp(E, x, old, rw, T.row, rs[old], mem[old], wr)
      BY <1>1, <1>2, <1>4, <2>1, <2>2 DEF CanGiveUp, TableOK
    <2>4. G = GiveUp([rows |-> rs[old], memory |-> mem[old], row |-> T.row], rw[s])
      BY Zenon DEF MovesRow
    <2> QED
      BY <2>1, <2>3, <2>4, GiveUpHolds
  <1>6. f \in Fields /\ \A t \in new \cap InitTypes : f[t] = wr2[s][t]
    <2>1. ASSUME NEW t \in old
          PROVE  mem[old][k] \in Fields /\ (t \in InitTypes => mem[old][k][t] = wr[s][t])
      <3>1. TableOK(E, old, rw, rs[old], mem[old], wr) /\ mem[old] \in Seq(Fields) /\ rs[old] \in Seq(Ids)
        BY <1>0, <1>1, <1>5
      <3>2. Len(rs[old]) <= Len(mem[old]) /\ k \in 1..Len(rs[old])
        BY <1>1, <3>1 DEF TableOK, TableHolds
      <3>3. t \in InitTypes => mem[old][k][t] = wr[s][t]
        BY <1>1, <3>1 DEF TableOK, FieldsHold
      <3> HIDE DEF old, k, E
      <3>4. k \in 1..Len(mem[old])
        BY <3>1, <3>2
      <3> QED
        BY <3>1, <3>3, <3>4
    <2>2. f = [t \in RowTypes |-> IF t \in old \cap new THEN mem[old][k][t] ELSE T.memory[Len(T.rows)][t]]
      BY Zenon DEF MovesRow
    <2>3. wr2[s] = [u \in RowTypes |-> IF u \in old \cap new THEN wr[s][u] ELSE 0]
      BY <1>0, <1>1, Zenon DEF MovesRow
    <2> HIDE DEF old, k, s
    <2>4. ASSUME NEW t \in RowTypes
          PROVE  /\ f[t] \in RowValues
                 /\ t \in new \cap InitTypes => f[t] = wr2[s][t]
      <3>1. CASE t \in old \cap new
        BY <2>1, <2>2, <2>3, <3>1 DEF Fields
      <3>2. CASE t \notin old \cap new
        BY <1>4, <2>2, <2>3, <3>2 DEF Fields
      <3> QED
        BY <3>1, <3>2
    <2>5. f \in Fields
      BY <2>2, <2>4 DEF Fields
    <2> QED
      BY <1>a, <2>4, <2>5
  <1>7. /\ mk2 \in [Slots -> Tables] /\ mk2[s] = new /\ \A y \in L \ {x} : mk2[Slot(y)] = mk[Slot(y)]
        /\ \A y \in L \ {x} : wr2[Slot(y)] = wr[Slot(y)]
    <2>1. mk2 = [mk EXCEPT ![s] = new]
      BY Zenon DEF MovesRow
    <2>2. \A z \in Slots \ {s} : wr2[z] = wr[z]
      BY <1>0, Zenon DEF MovesRow
    <2> HIDE DEF s
    <2> QED
      BY <1>0, <1>1, <1>a, <2>1, <2>2
  <1>8. wr2 \in [Slots -> Fields]
    <2>1. [t \in RowTypes |-> IF t \in old \cap new THEN wr[s][t] ELSE 0] \in Fields
      BY <1>0, <1>1, RowsAssumption DEF Fields
    <2> QED
      BY <1>0, <1>1, <2>1, Zenon DEF MovesRow
  <1>9. /\ rw2 \in [Slots -> Nat] /\ rw2[s] = Len(T.rows)
        /\ old = {} => \A z \in Slots \ {s} : rw2[z] = T.row[z]
        /\ old # {} => \A z \in Slots \ {s} : rw2[z] = G.row[z]
    <2>0. rw2 = IF old = {} THEN T.row ELSE [G.row EXCEPT ![s] = Len(T.rows)]
      BY Zenon DEF MovesRow
    <2>1. CASE old = {}
      BY <1>1, <1>4, <2>0, <2>1
    <2>2. CASE old # {}
      <3>1. G.row \in [Slots -> Nat]
        BY <1>5, <2>2 DEF GaveUp
      <3>2. rw2 = [G.row EXCEPT ![s] = Len(T.rows)]
        <4> HIDE DEF old
        <4> QED
          BY ONLY <2>0, <2>2, Zenon
      <3> HIDE DEF old, s
      <3> QED
        BY <1>1, <1>4, <2>2, <3>1, <3>2
    <2> QED
      BY <2>1, <2>2
  <1>10. /\ rs2[new] = T.rows /\ mem2[new] = [T.memory EXCEPT ![Len(T.rows)] = f]
         /\ old # {} => rs2[old] = G.rows /\ mem2[old] = G.memory
         /\ \A n \in Tables \ {new, old} : rs2[n] = rs[n] /\ mem2[n] = mem[n]
    BY Zenon DEF MovesRow, TableSet
  <1>11. \A y \in L \ {x} : y \notin E => rw2[Slot(y)] = rw[Slot(y)]
    <2> SUFFICES ASSUME NEW y \in L \ {x}, y \notin E PROVE rw2[Slot(y)] = rw[Slot(y)]
      OBVIOUS
    <2>1. Slot(y) \in Slots \ {s}
      BY <1>1
    <2>2. CASE old = {}
      BY <1>4, <1>9, <2>1, <2>2
    <2>3. CASE old # {}
      <3>1. \A z \in E \ {x} : Slot(z) # Slot(y)
        BY <1>2 DEF DistinctSlots
      <3>2. G.row[Slot(y)] = T.row[Slot(y)]
        BY <1>5, <2>1, <2>3, <3>1 DEF GaveUp
      <3> QED
        BY <1>4, <1>9, <2>1, <2>3, <3>2
    <2> QED
      BY <2>2, <2>3
  <1>12. ASSUME NEW n \in Tables \ {{}}
         PROVE  TableOK(Having(L, mk2, n), n, rw2, rs2[n], mem2[n], wr2)
    <2>1. CASE n = new
      <3>1. Having(L, mk2, n) = F \cup {x}
        BY <1>7, <2>1 DEF Having
      <3>2. TableOK(F \cup {x}, new, T.row, T.rows, mem2[new], wr2)
        <4>1. \A y \in F : wr2[Slot(y)] = wr[Slot(y)]
          BY <1>1, <1>2, <1>7
        <4>2. TableOK(F \cup {x}, new, T.row, T.rows, [T.memory EXCEPT ![Len(T.rows)] = f], wr2)
          <5> HIDE DEF F, s
          <5>1. Took(F, x, new, rw, wr, T)
            BY <1>3
          <5>2. f \in Fields /\ \A t \in new \cap InitTypes : f[t] = wr2[Slot(x)][t]
            BY <1>6 DEF s
          <5> QED
            BY ONLY <4>1, <5>1, <5>2, RowFilled
        <4> QED
          BY <1>10, <4>2
      <3>3. ASSUME NEW y \in F \cup {x}
            PROVE  rw2[Slot(y)] = T.row[Slot(y)] /\ wr2[Slot(y)] = wr2[Slot(y)]
        <4>1. CASE y = x
          BY <1>4, <1>9, <4>1
        <4>2. CASE y \in F
          <5>1. y \in L \ {x} /\ y \notin E /\ Slot(y) \in Slots \ {s}
            BY <1>1, <4>2 DEF Having
          <5> QED
            BY <1>4, <1>11, <5>1
        <4> QED
          BY <4>1, <4>2
      <3>4. TableOK(F \cup {x}, new, rw2, T.rows, mem2[new], wr2)
        <4> HIDE DEF F
        <4> QED
          BY ONLY <3>2, <3>3, TableStands
      <3> QED
        BY <1>10, <2>1, <3>1, <3>4
    <2>2. CASE n = old
      <3>1. Having(L, mk2, n) = E \ {x}
        <4> HIDE DEF old, s
        <4>1. mk2[s] # n
          BY <1>7, <1>a, <2>2
        <4>2. \A y \in L : y \in Having(L, mk2, n) <=> y # x /\ mk[Slot(y)] = old
          BY <1>7, <2>2, <4>1 DEF Having, s
        <4> QED
          BY <4>2 DEF Having
      <3>2. TableOK(E \ {x}, old, G.row, G.rows, G.memory, wr)
        BY <1>5, <2>2 DEF GaveUp, TableOK
      <3>3. ASSUME NEW y \in E \ {x}
            PROVE  rw2[Slot(y)] = G.row[Slot(y)] /\ wr2[Slot(y)] = wr[Slot(y)]
        BY <1>1, <1>2, <1>7, <1>9, <2>2
      <3>4. TableOK(E \ {x}, old, rw2, G.rows, G.memory, wr2)
        <4> HIDE DEF E, old
        <4> QED
          BY ONLY <3>2, <3>3, TableStands
      <3> QED
        BY <1>10, <2>2, <3>1, <3>4
    <2>3. CASE n # new /\ n # old
      <3>1. Having(L, mk2, n) = Having(L, mk, n)
        BY <1>7, <2>3 DEF Having
      <3>2. TableOK(Having(L, mk, n), n, rw, rs[n], mem[n], wr)
        BY <1>0
      <3>3. ASSUME NEW y \in Having(L, mk, n)
            PROVE  rw2[Slot(y)] = rw[Slot(y)] /\ wr2[Slot(y)] = wr[Slot(y)]
        <4>1. y \in L \ {x} /\ y \notin E
          BY <2>3 DEF Having
        <4> QED
          BY <1>7, <1>11, <4>1
      <3>4. TableOK(Having(L, mk, n), n, rw2, rs[n], mem[n], wr2)
        <4> QED
          BY ONLY <3>2, <3>3, TableStands
      <3> QED
        BY <1>10, <2>3, <3>1, <3>4
    <2> QED
      BY <2>1, <2>2, <2>3
  <1>13. RowsTyped(mk2, rw2, rs2, mem2, wr2)
    <2>1. /\ rs2 = [n \in Tables |-> rs2[n]] /\ mem2 = [n \in Tables |-> mem2[n]]
          /\ rs2[{}] = rs[{}] /\ mem2[{}] = mem[{}]
      BY Zenon DEF MovesRow
    <2>2. rs2[new] \in Seq(Ids) /\ mem2[new] \in Seq(Fields)
      <3>1. [T.memory EXCEPT ![Len(T.rows)] = f] \in Seq(Fields)
        BY <1>4, <1>6
      <3>2. T.rows \in Seq(Ids)
        BY <1>3 DEF Took
      <3> QED
        BY <1>10, <3>1, <3>2
    <2>3. old # {} => G.rows \in Seq(Ids) /\ G.memory \in Seq(Fields)
      BY <1>5 DEF GaveUp
    <2> HIDE DEF old
    <2>4. ASSUME NEW n \in Tables PROVE rs2[n] \in Seq(Ids) /\ mem2[n] \in Seq(Fields)
      <3>1. CASE n = new
        BY <2>2, <3>1
      <3>2. CASE n = old /\ n # {}
        BY <1>10, <2>3, <3>2
      <3>3. CASE n = {}
        BY <1>0, <2>1, <3>3
      <3>4. CASE n \notin {new, old}
        BY <1>0, <1>10, <3>4
      <3> QED
        BY <3>1, <3>2, <3>3, <3>4
    <2>5. rs2 \in [Tables -> Seq(Ids)] /\ mem2 \in [Tables -> Seq(Fields)]
      <3>1. PICK a, b : a = rs2 /\ b = mem2
        OBVIOUS
      <3> QED
        BY <2>1, <2>4
    <2> QED
      BY <1>7, <1>8, <1>9, <2>5 DEF RowsTyped
  <1>14. rs2[{}] = <<>>
    BY Zenon DEF MovesRow, TablesOK
  <1> QED
    BY <1>12, <1>13, <1>14 DEF TablesOK

-----------------------------------------------------------------------------
(* The tables of all pools.                                                *)

RowsIn(p) == TablesOK(Linked(p), mask[p], row[p], rows[p], memory[p], written[p])
RowsHold == RowsTypeOK /\ \A p \in Pools : RowsIn(p)

SameTables(p) ==
    /\ mask'[p] = mask[p] /\ row'[p] = row[p] /\ rows'[p] = rows[p]
    /\ memory'[p] = memory[p] /\ written'[p] = written[p]

TablesBecome(p, mk, rw, rs, mem, wr) ==
    /\ mask' = [mask EXCEPT ![p] = mk] /\ row' = [row EXCEPT ![p] = rw]
    /\ rows' = [rows EXCEPT ![p] = rs] /\ memory' = [memory EXCEPT ![p] = mem]
    /\ written' = [written EXCEPT ![p] = wr]

\* The tables of every pool stand when only those of one change.
LEMMA OnePoolRows ==
    ASSUME RowsHold, NEW p \in Pools,
           NEW mk, NEW rw, NEW rs, NEW mem, NEW wr, TablesBecome(p, mk, rw, rs, mem, wr),
           TablesOK(Linked(p)', mk, rw, rs, mem, wr),
           \A r \in Pools : r # p => Linked(r)' = Linked(r)
    PROVE  RowsHold'
  <1>1. /\ mask \in [Pools -> [Slots -> Tables]] /\ row \in [Pools -> [Slots -> Nat]]
        /\ rows \in [Pools -> [Tables -> Seq(Ids)]] /\ memory \in [Pools -> [Tables -> Seq(Fields)]]
        /\ written \in [Pools -> [Slots -> Fields]]
    BY DEF RowsHold, RowsTypeOK, Fields
  <1>2. /\ mk \in [Slots -> Tables] /\ rw \in [Slots -> Nat]
        /\ rs \in [Tables -> Seq(Ids)] /\ mem \in [Tables -> Seq(Fields)]
        /\ wr \in [Slots -> Fields]
    BY DEF TablesOK, RowsTyped
  <1>3. /\ mask'[p] = mk /\ row'[p] = rw /\ rows'[p] = rs /\ memory'[p] = mem /\ written'[p] = wr
        /\ \A r \in Pools : r # p => SameTables(r)
    BY <1>1 DEF TablesBecome, SameTables
  <1>4. RowsTypeOK'
    <2>1. mask' \in [Pools -> [Slots -> Tables]] /\ row' \in [Pools -> [Slots -> Nat]]
      BY <1>1, <1>2 DEF TablesBecome
    <2>2. rows' \in [Pools -> [Tables -> Seq(Ids)]] /\ memory' \in [Pools -> [Tables -> Seq(Fields)]]
      BY <1>1, <1>2 DEF TablesBecome
    <2>3. written' \in [Pools -> [Slots -> Fields]]
      BY <1>1, <1>2 DEF TablesBecome
    <2> QED
      BY <2>1, <2>2, <2>3 DEF RowsTypeOK, Fields
  <1>5. RowsIn(p)'
    BY <1>3 DEF RowsIn
  <1>6. ASSUME NEW r \in Pools, r # p PROVE RowsIn(r)'
    <2>1. RowsIn(r) /\ Linked(r)' = Linked(r) /\ SameTables(r)
      BY <1>3, <1>6 DEF RowsHold
    <2> QED
      BY <2>1 DEF RowsIn, SameTables
  <1>7. ASSUME NEW r \in Pools PROVE RowsIn(r)'
    BY <1>5, <1>6, <1>7
  <1> QED
    BY <1>4, <1>7 DEF RowsHold

\* The tables stand when neither they nor the entities in the trees change.
LEMMA RowsUntouched ==
    ASSUME RowsHold, UNCHANGED rowVars, \A r \in Pools : Linked(r)' = Linked(r)
    PROVE  RowsHold'
  <1>1. mask' = mask /\ row' = row /\ rows' = rows /\ memory' = memory /\ written' = written
    BY DEF rowVars
  <1>2. RowsTypeOK'
    BY <1>1 DEF RowsHold, RowsTypeOK
  <1>3. ASSUME NEW r \in Pools PROVE RowsIn(r)'
    <2>1. RowsIn(r) /\ Linked(r)' = Linked(r)
      BY DEF RowsHold
    <2> QED
      BY <1>1, <2>1 DEF RowsIn
  <1> QED
    BY <1>2, <1>3 DEF RowsHold

\* The entities in the tree of a pool have a slot each.
LEMMA SlotEach ==
    ASSUME NEW L, NEW g \in [Slots -> Nat], Stamped(L, g)
    PROVE  DistinctSlots(L)
  BY StampedFacts DEF DistinctSlots

\* A new entity starts without a row.
LEMMA NewRows ==
    ASSUME IndInv, RowsHold, NEW q \in Pools, NEW x, Enters(q, x), ForgetRow(q, Slot(x))
    PROVE  /\ RowsHold'
           /\ \A y \in Linked(q) : mask'[q][Slot(y)] = mask[q][Slot(y)]
           /\ \A r \in Pools : r # q => mask'[r] = mask[r]
  <1>1. /\ x \in Ids /\ x \notin Live(q) /\ x \notin Linked(q) /\ Slot(x) \in Slots
        /\ Generation(x) = gen[q][Slot(x)] /\ x = <<Slot(x), Generation(x)>>
        /\ Linked(q)' = Linked(q) \cup {x}
        /\ \A r \in Pools : r # q => Linked(r)' = Linked(r)
    BY FramesNow DEF Enters, Ids, Slot, Generation
  <1>2. gen[q] \in [Slots -> Nat] /\ Stamped(Linked(q), gen[q])
    BY OnePool
  <1>3. DistinctSlots(Linked(q) \cup {x})
    <2>1. Stamped(Linked(q) \cup {x}, gen[q])
      BY <1>1, <1>2 DEF Stamped
    <2> QED
      BY <1>2, <2>1, SlotEach
  <1> DEFINE s == Slot(x)
             mk == [mask[q] EXCEPT ![s] = {}]
             rw == [row[q] EXCEPT ![s] = 0]
             wr == [written[q] EXCEPT ![s] = Zeroed]
  <1>4. /\ mask \in [Pools -> [Slots -> Tables]] /\ row \in [Pools -> [Slots -> Nat]]
        /\ rows \in [Pools -> [Tables -> Seq(Ids)]] /\ memory \in [Pools -> [Tables -> Seq(Fields)]]
        /\ written \in [Pools -> [Slots -> Fields]]
    BY DEF RowsHold, RowsTypeOK, Fields
  <1>5. TablesBecome(q, mk, rw, rows[q], memory[q], wr)
    BY <1>4 DEF ForgetRow, TablesBecome
  <1>6. TablesOK(Linked(q)', mk, rw, rows[q], memory[q], wr)
    <2>1. TablesOK(Linked(q), mask[q], row[q], rows[q], memory[q], written[q])
      BY DEF RowsHold, RowsIn
    <2> QED
      BY <1>1, <1>3, <2>1, RowForgotten
  <1>7. RowsHold'
    BY <1>1, <1>5, <1>6, OnePoolRows
  <1>8. \A y \in Linked(q) : Slot(y) \in Slots \ {s}
    BY <1>1, <1>3 DEF DistinctSlots, Ids, Slot
  <1>9. /\ \A y \in Linked(q) : mask'[q][Slot(y)] = mask[q][Slot(y)]
        /\ \A r \in Pools : r # q => mask'[r] = mask[r]
    BY <1>4, <1>5, <1>8 DEF TablesBecome
  <1> QED
    BY <1>7, <1>9

\* An entity gives up its row, and goes or stays.
LEMMA DroppedRows ==
    ASSUME IndInv, RowsHold, NEW p \in Pools, NEW x \in Linked(p), DropRow(p, x),
           Linked(p) \ {x} \subseteq Linked(p)', Linked(p)' \subseteq Linked(p),
           \A r \in Pools : r # p => Linked(r)' = Linked(r)
    PROVE  RowsHold'
  <1> DEFINE s == Slot(x)
             m == mask[p][s]
             G == GiveUp(Table(p, m), row[p][s])
  <1>1. TablesOK(Linked(p), mask[p], row[p], rows[p], memory[p], written[p])
    BY DEF RowsHold, RowsIn
  <1>2. DistinctSlots(Linked(p)) /\ s \in Slots
    BY OnePool, SlotEach DEF DistinctSlots, Ids, Slot
  <1>3. /\ mask \in [Pools -> [Slots -> Tables]] /\ row \in [Pools -> [Slots -> Nat]]
        /\ rows \in [Pools -> [Tables -> Seq(Ids)]] /\ memory \in [Pools -> [Tables -> Seq(Fields)]]
        /\ written \in [Pools -> [Slots -> Fields]]
    BY DEF RowsHold, RowsTypeOK, Fields
  <1>4. CASE m = {}
    <2>1. UNCHANGED rowVars
      BY <1>4 DEF DropRow
    <2>2. mask' = mask /\ row' = row /\ rows' = rows /\ memory' = memory /\ written' = written
      BY <2>1 DEF rowVars
    <2>3. TablesOK(Linked(p)', mask[p], row[p], rows[p], memory[p], written[p])
      <3>1. Linked(p)' = Linked(p) \/ Linked(p)' = Linked(p) \ {x}
        OBVIOUS
      <3>2. TablesOK(Linked(p) \ {x}, mask[p], row[p], rows[p], memory[p], written[p])
        BY <1>1, <1>4, RowlessGoes
      <3> QED
        BY <1>1, <3>1, <3>2
    <2>4. TablesBecome(p, mask[p], row[p], rows[p], memory[p], written[p])
      BY <1>3, <2>2 DEF TablesBecome
    <2> QED
      BY <2>3, <2>4, OnePoolRows
  <1>5. CASE m # {}
    <2> DEFINE mk == [mask[p] EXCEPT ![s] = {}]
               rw == [G.row EXCEPT ![s] = 0]
               rs == [rows[p] EXCEPT ![m] = G.rows]
               mem == [memory[p] EXCEPT ![m] = G.memory]
               wr == [written[p] EXCEPT ![s] = Zeroed]
    <2>1. G = GiveUp([rows |-> rows[p][m], memory |-> memory[p][m], row |-> row[p]], row[p][s])
      BY DEF Table
    <2>2. TablesOK(Linked(p)', mk, rw, rs, mem, wr)
      <3> DEFINE L2 == Linked(p)'
      <3>1. Linked(p) \ {x} \subseteq L2 /\ L2 \subseteq Linked(p)
        OBVIOUS
      <3>2. m = mask[p][Slot(x)] /\ m # {}
        BY <1>5
      <3> HIDE DEF L2, G, m
      <3>3. TablesOK(L2, [mask[p] EXCEPT ![Slot(x)] = {}], [G.row EXCEPT ![Slot(x)] = 0],
                     [rows[p] EXCEPT ![m] = G.rows], [memory[p] EXCEPT ![m] = G.memory],
                     [written[p] EXCEPT ![Slot(x)] = Zeroed])
        BY ONLY x \in Linked(p), <1>1, <1>2, <2>1, <3>1, <3>2, RowDropped
      <3> QED
        BY <3>3 DEF L2
    <2>3. TablesBecome(p, mk, rw, rs, mem, wr)
      <3>1. /\ mask' = [mask EXCEPT ![p][s] = {}]
            /\ row' = [row EXCEPT ![p] = rw]
            /\ rows' = [rows EXCEPT ![p][m] = G.rows]
            /\ memory' = [memory EXCEPT ![p][m] = G.memory]
            /\ written' = [written EXCEPT ![p][s] = Zeroed]
        BY <1>5 DEF DropRow
      <3> HIDE DEF G, m, s
      <3> QED
        BY <1>3, <3>1 DEF TablesBecome
    <2> QED
      BY <2>2, <2>3, OnePoolRows
  <1> QED
    BY <1>4, <1>5

\* An entity changes tables.
LEMMA MovedRows ==
    ASSUME IndInv, RowsHold, NEW p \in Pools, NEW x \in Linked(p), NEW new \in Tables \ {{}},
           new # mask[p][Slot(x)], MoveRow(p, x, new), Linked(p)' = Linked(p),
           \A r \in Pools : r # p => Linked(r)' = Linked(r)
    PROVE  RowsHold'
  <1> DEFINE s == Slot(x)
             old == mask[p][s]
             k == row[p][s]
             T == TakeRow(Table(p, new), new, x)
             G == GiveUp([Table(p, old) EXCEPT !.row = T.row], k)
             f == [t \in RowTypes |-> IF t \in old \cap new THEN memory[p][old][k][t]
                                      ELSE T.memory[Len(T.rows)][t]]
             mk == [mask[p] EXCEPT ![s] = new]
             rw == IF old = {} THEN T.row ELSE [G.row EXCEPT ![s] = Len(T.rows)]
             rs == rows'[p]
             mem == memory'[p]
             wr == [written[p] EXCEPT ![s] = [t \in RowTypes |->
                                                IF t \in old \cap new THEN written[p][s][t] ELSE 0]]
  <1>1. TablesOK(Linked(p), mask[p], row[p], rows[p], memory[p], written[p])
    BY DEF RowsHold, RowsIn
  <1>2. DistinctSlots(Linked(p)) /\ s \in Slots
    BY OnePool, SlotEach DEF DistinctSlots, Ids, Slot
  <1>3. /\ mask \in [Pools -> [Slots -> Tables]] /\ row \in [Pools -> [Slots -> Nat]]
        /\ rows \in [Pools -> [Tables -> Seq(Ids)]] /\ memory \in [Pools -> [Tables -> Seq(Fields)]]
        /\ written \in [Pools -> [Slots -> Fields]]
    BY DEF RowsHold, RowsTypeOK, Fields
  <1>4. old \in Tables /\ new # old /\ new # {}
    BY <1>2, <1>3
  <1>5. /\ T = TakeRow([rows |-> rows[p][new], memory |-> memory[p][new], row |-> row[p]], new, x)
        /\ G = GiveUp([rows |-> rows[p][old], memory |-> memory[p][old], row |-> T.row], k)
    BY DEF Table
  <1>6. /\ mask' = [mask EXCEPT ![p][s] = new]
        /\ row' = [row EXCEPT ![p] = rw]
        /\ rows' = [rows EXCEPT ![p][new] = T.rows, ![p][old] = IF old = {} THEN @ ELSE G.rows]
        /\ memory' = [memory EXCEPT ![p][new] = [T.memory EXCEPT ![Len(T.rows)] = f],
                                    ![p][old] = IF old = {} THEN @ ELSE G.memory]
        /\ written' = [written EXCEPT ![p][s] = [t \in RowTypes |->
                                                   IF t \in old \cap new THEN @[t] ELSE 0]]
    BY Zenon DEF MoveRow
  <1>7. /\ rs = [[rows[p] EXCEPT ![new] = T.rows] EXCEPT ![old] = IF old = {} THEN @ ELSE G.rows]
        /\ rows' = [rows EXCEPT ![p] = rs]
    <2> HIDE DEF T, G, f, s, old, k
    <2> QED
      BY <1>3, <1>4, <1>6
  <1>8. /\ mem = [[memory[p] EXCEPT ![new] = [T.memory EXCEPT ![Len(T.rows)] = f]]
                    EXCEPT ![old] = IF old = {} THEN @ ELSE G.memory]
        /\ memory' = [memory EXCEPT ![p] = mem]
    <2> HIDE DEF T, G, f, s, old, k
    <2> QED
      BY <1>3, <1>4, <1>6, Zenon
  <1>9. TablesBecome(p, mk, rw, rs, mem, wr)
    <2>1. mask' = [mask EXCEPT ![p] = mk] /\ row' = [row EXCEPT ![p] = rw]
      BY <1>3, <1>6
    <2>2. written' = [written EXCEPT ![p] = wr]
      <3> HIDE DEF old, s
      <3> QED
        BY <1>2, <1>3, <1>6
    <2> QED
      BY <1>7, <1>8, <2>1, <2>2, Zenon DEF TablesBecome
  <1> HIDE DEF T, G, f
  <1>10. MovesRow(x, new, mask[p], row[p], rows[p], memory[p], written[p], T, G, f, mk, rw, rs, mem, wr)
    <2>1. /\ rs = [n \in Tables |-> rs[n]] /\ mem = [n \in Tables |-> mem[n]]
          /\ rs[{}] = rows[p][{}] /\ mem[{}] = memory[p][{}]
      <3> HIDE DEF old, rs, mem
      <3>1. rows[p] \in [Tables -> Seq(Ids)] /\ memory[p] \in [Tables -> Seq(Fields)]
        BY <1>3
      <3>2. rs = [n \in Tables |-> rs[n]] /\ mem = [n \in Tables |-> mem[n]]
        BY <1>4, <1>7, <1>8, <3>1
      <3>3. {} \in Tables
        BY DEF Tables
      <3>4. CASE old = {}
        <4>1. rs = [rows[p] EXCEPT ![new] = T.rows, ![{}] = IF TRUE THEN @ ELSE G.rows]
          BY <1>7, <3>4
        <4>2. rs[{}] = rows[p][{}]
          BY <1>4, <3>1, <3>3, <4>1
        <4>3. mem = [memory[p] EXCEPT ![new] = [T.memory EXCEPT ![Len(T.rows)] = f],
                                      ![{}] = IF TRUE THEN @ ELSE G.memory]
          BY <1>8, <3>4
        <4>4. mem[{}] = memory[p][{}]
          BY <1>4, <3>1, <3>3, <4>3
        <4> QED
          BY <3>2, <4>2, <4>4
      <3>5. CASE old # {}
        <4>1. rs[{}] = rows[p][{}]
          BY <1>4, <1>7, <3>1, <3>3, <3>5
        <4>2. mem[{}] = memory[p][{}]
          BY <1>4, <1>8, <3>1, <3>3, <3>5
        <4> QED
          BY <3>2, <4>1, <4>2
      <3> QED
        BY <3>4, <3>5
    <2>2. /\ TableSet(rows[p], rs, new, T.rows, old, G.rows)
          /\ TableSet(memory[p], mem, new, [T.memory EXCEPT ![Len(T.rows)] = f], old, G.memory)
      <3> HIDE DEF old, rs, mem
      <3>1. rows[p] \in [Tables -> Seq(Ids)] /\ memory[p] \in [Tables -> Seq(Fields)]
        BY <1>3
      <3> QED
        BY <1>4, <1>7, <1>8, <3>1 DEF TableSet
    <2>3. f = [t \in RowTypes |-> IF t \in old \cap new THEN memory[p][old][k][t]
                                  ELSE T.memory[Len(T.rows)][t]]
      BY DEF f
    <2> HIDE DEF rs, mem
    <2> QED
      BY <1>4, <1>5, <2>1, <2>2, <2>3, Zenon DEF MovesRow
  <1>11. TablesOK(Linked(p), mk, rw, rs, mem, wr)
    <2> HIDE DEF mk, rw, rs, mem, wr
    <2> QED
      BY ONLY x \in Linked(p), <1>1, <1>2, <1>10, RowMoved
  <1> QED
    BY <1>9, <1>11, OnePoolRows

\* The host writes a field.
LEMMA WrittenRows ==
    ASSUME IndInv, RowsHold, NEW p \in Pools, NEW x \in Linked(p), NEW t, NEW v \in RowValues,
           WriteSoa(p, x, t, v), \A r \in Pools : Linked(r)' = Linked(r)
    PROVE  RowsHold'
  <1> DEFINE s == Slot(x)
             m == mask[p][s]
             k == row[p][s]
             mem == [memory[p] EXCEPT ![m][k][t] = v]
             wr == [written[p] EXCEPT ![s][t] = v]
  <1>1. TablesOK(Linked(p), mask[p], row[p], rows[p], memory[p], written[p])
    BY DEF RowsHold, RowsIn
  <1>2. DistinctSlots(Linked(p)) /\ s \in Slots
    BY OnePool, SlotEach DEF DistinctSlots, Ids, Slot
  <1>3. /\ mask \in [Pools -> [Slots -> Tables]] /\ row \in [Pools -> [Slots -> Nat]]
        /\ rows \in [Pools -> [Tables -> Seq(Ids)]] /\ memory \in [Pools -> [Tables -> Seq(Fields)]]
        /\ written \in [Pools -> [Slots -> Fields]]
    BY DEF RowsHold, RowsTypeOK, Fields
  <1>4. /\ t \in m
        /\ memory' = [memory EXCEPT ![p][m][k][t] = v] /\ written' = [written EXCEPT ![p][s][t] = v]
        /\ mask' = mask /\ row' = row /\ rows' = rows
    BY DEF WriteSoa
  <1>5. TablesOK(Linked(p), mask[p], row[p], rows[p], mem, wr)
    <2>1. m = mask[p][Slot(x)]
      OBVIOUS
    <2> HIDE DEF m
    <2>2. TablesOK(Linked(p), mask[p], row[p], rows[p], [memory[p] EXCEPT ![m][row[p][Slot(x)]][t] = v],
                   [written[p] EXCEPT ![Slot(x)][t] = v])
      BY ONLY x \in Linked(p), v \in RowValues, <1>1, <1>2, <1>4, <2>1, RowWritten
    <2> QED
      BY <2>2
  <1>6. TablesBecome(p, mask[p], row[p], rows[p], mem, wr)
    <2> HIDE DEF m, k, s
    <2> QED
      BY <1>3, <1>4 DEF TablesBecome
  <1>7. Linked(p)' = Linked(p)
    OBVIOUS
  <1> HIDE DEF mem, wr
  <1> QED
    BY <1>5, <1>6, <1>7, OnePoolRows

\* Whatever the host does to the data-only components of an entity.
LEMMA ChangedRows ==
    ASSUME IndInv, RowsHold, NEW p \in Pools, NEW x \in Linked(p), ChangeRow(p, x),
           \A r \in Pools : Linked(r)' = Linked(r)
    PROVE  RowsHold'
  <1>1. mask[p][Slot(x)] \in SUBSET RowTypes
    <2>1. Slot(x) \in Slots
      BY FramesNow DEF Ids, Slot
    <2> QED
      BY <2>1 DEF RowsHold, RowsTypeOK, Tables
  <1>2. PICK t \in RowTypes : \/ AddSoa(p, x, t)
                              \/ RemoveSoa(p, x, t)
                              \/ \E v \in RowValues : WriteSoa(p, x, t, v)
    BY DEF ChangeRow
  <1>3. CASE AddSoa(p, x, t)
    <2> DEFINE new == mask[p][Slot(x)] \cup {t}
    <2>1. new \in Tables \ {{}} /\ new # mask[p][Slot(x)] /\ MoveRow(p, x, new)
      BY <1>1, <1>3 DEF AddSoa, Tables
    <2> HIDE DEF new
    <2> QED
      BY <2>1, MovedRows
  <1>4. CASE RemoveSoa(p, x, t)
    <2> DEFINE new == mask[p][Slot(x)] \ {t}
    <2>1. CASE mask[p][Slot(x)] = {t}
      <3>1. DropRow(p, x)
        BY <1>4, <2>1 DEF RemoveSoa
      <3> QED
        BY <3>1, DroppedRows
    <2>2. CASE mask[p][Slot(x)] # {t}
      <3>1. new \in Tables \ {{}} /\ new # mask[p][Slot(x)] /\ MoveRow(p, x, new)
        BY <1>1, <1>4, <2>2 DEF RemoveSoa, Tables
      <3> HIDE DEF new
      <3> QED
        BY <3>1, MovedRows
    <2> QED
      BY <2>1, <2>2
  <1>5. CASE \E v \in RowValues : WriteSoa(p, x, t, v)
    BY <1>5, WrittenRows
  <1> QED
    BY <1>2, <1>3, <1>4, <1>5

-----------------------------------------------------------------------------
(* What is migrated has no data-only components, when the host sees to it. *)

\* The entities below x have no data-only components.
BareIn(L, up, mk, x) ==
    \E C \in SUBSET L :
        /\ x \in C
        /\ \A y \in L : up[Slot(y)] \in C => y \in C
        /\ \A y \in C : mk[Slot(y)] = {}

MovesBareIn(fs, L, up, mk) ==
    \A i \in 1..Len(fs) :
        fs[i].op = "migrate" => BareIn(L[fs[i].pool], up[fs[i].pool], mk[fs[i].pool], fs[i].id)

RowInv == RowsHold /\ MovesBareIn(frames, LinkedOf, parent, mask)

(* Every migration among the frames hs is one of fs.                       *)
NoNewMoves(fs, hs) ==
    \A i \in 1..Len(hs) : hs[i].op = "migrate" =>
        \E j \in 1..Len(fs) : fs[j].op = "migrate" /\ fs[j].pool = hs[i].pool /\ fs[j].id = hs[i].id

\* A step that leaves the trees and the tables alone.
LEMMA QuietStep ==
    ASSUME RowInv, UNCHANGED rowVars, parent' = parent, \A r \in Pools : Linked(r)' = Linked(r),
           NoNewMoves(frames, frames')
    PROVE  RowInv'
  <1>1. RowsHold'
    BY RowsUntouched DEF RowInv
  <1>2. LinkedOf' = LinkedOf
    <2>1. \A r \in Pools : LinkedOf'[r] = LinkedOf[r]
      BY PoolNow
    <2> QED
      BY <2>1, LinkedNext
  <1>3. mask' = mask
    BY DEF rowVars
  <1>4. MovesBareIn(frames', LinkedOf', parent', mask')
    <2>1. MovesBareIn(frames, LinkedOf, parent, mask)
      BY DEF RowInv
    <2> SUFFICES MovesBareIn(frames', LinkedOf, parent, mask)
      BY <1>2, <1>3
    <2> SUFFICES ASSUME NEW i \in 1..Len(frames'), frames'[i].op = "migrate"
                 PROVE  BareIn(LinkedOf[frames'[i].pool], parent[frames'[i].pool],
                               mask[frames'[i].pool], frames'[i].id)
      BY DEF MovesBareIn
    <2>2. PICK j \in 1..Len(frames) : /\ frames[j].op = "migrate" /\ frames[j].pool = frames'[i].pool
                                      /\ frames[j].id = frames'[i].id
      BY DEF NoNewMoves
    <2> QED
      BY <2>1, <2>2 DEF MovesBareIn
  <1> QED
    BY <1>1, <1>4 DEF RowInv

\* A step that leaves no migration.
LEMMA NoMovesLeft ==
    ASSUME RowsHold', NoNewMoves(frames, frames'),
           \A i \in 1..Len(frames) : frames[i].op # "migrate"
    PROVE  RowInv'
  <1>1. MovesBareIn(frames', LinkedOf', parent', mask')
    BY DEF MovesBareIn, NoNewMoves
  <1> QED
    BY <1>1 DEF RowInv

\* The frames hs have no migration that fs has not.
LEMMA MovesStay ==
    ASSUME NEW fs, NEW hs,
           \A i \in 1..Len(hs) : hs[i].op = "migrate" =>
             /\ i \in 1..Len(fs) /\ fs[i].op = "migrate"
             /\ hs[i].pool = fs[i].pool /\ hs[i].id = fs[i].id
    PROVE  NoNewMoves(fs, hs)
  BY DEF NoNewMoves

\* An operation that is no migration begins.
LEMMA MovesWhenBegun ==
    ASSUME NEW fs \in Seq(Frames), NEW g \in Frames, g.op # "migrate"
    PROVE  NoNewMoves(fs, Append(fs, g))
  <1> DEFINE hs == Append(fs, g)
  <1>1. Len(hs) = Len(fs) + 1 /\ Len(fs) \in Nat /\ hs[Len(fs) + 1] = g
        /\ \A i \in 1..Len(fs) : hs[i] = fs[i]
    BY AppendFacts
  <1> HIDE DEF hs
  <1>2. ASSUME NEW i \in 1..Len(hs), hs[i].op = "migrate" PROVE i \in 1..Len(fs) /\ hs[i] = fs[i]
    BY <1>1, <1>2
  <1>3. NoNewMoves(fs, hs)
    BY <1>2, MovesStay
  <1> QED
    BY <1>3 DEF hs

\* The innermost operation goes on.
LEMMA MovesWhenGoing ==
    ASSUME NEW fs \in Seq(Frames), fs # <<>>, NEW g, [fs EXCEPT ![Len(fs)] = g] \in Seq(Frames),
           g.op = "migrate" => /\ Last(fs).op = "migrate" /\ g.pool = Last(fs).pool
                               /\ g.id = Last(fs).id
    PROVE  NoNewMoves(fs, [fs EXCEPT ![Len(fs)] = g])
  <1> DEFINE hs == [fs EXCEPT ![Len(fs)] = g]
             n == Len(fs)
  <1>1. n \in Nat \ {0} /\ Last(fs) = fs[n] /\ Len(hs) = n /\ hs[n] = g
        /\ \A i \in 1..n : i # n => hs[i] = fs[i]
    <2>1. n \in Nat \ {0} /\ Last(fs) = fs[n]
      BY FrontFacts
    <2>2. DOMAIN hs = DOMAIN fs /\ DOMAIN fs = 1..n
      OBVIOUS
    <2>3. hs[n] = g /\ \A i \in 1..n : i # n => hs[i] = fs[i]
      <3>1. hs = [i \in DOMAIN fs |-> IF i = n THEN g ELSE fs[i]]
        OBVIOUS
      <3>2. n \in DOMAIN fs /\ \A i \in 1..n : i \in DOMAIN fs
        BY <2>1, <2>2
      <3> HIDE DEF hs, n
      <3> QED
        BY <3>1, <3>2
    <2>4. Len(hs) = n
      <3> HIDE DEF hs, n
      <3>1. hs \in Seq(Frames)
        BY DEF hs, n
      <3> QED
        BY <2>1, <2>2, <3>1
    <2> QED
      BY <2>1, <2>3, <2>4, Zenon
  <1> HIDE DEF hs, n
  <1>2. ASSUME NEW i \in 1..Len(hs), hs[i].op = "migrate"
        PROVE  /\ i \in 1..n /\ fs[i].op = "migrate"
               /\ hs[i].pool = fs[i].pool /\ hs[i].id = fs[i].id
    <2>1. CASE i = n
      BY <1>1, <1>2, <2>1
    <2>2. CASE i # n
      BY <1>1, <1>2, <2>2
    <2> QED
      BY <2>1, <2>2
  <1>3. NoNewMoves(fs, hs)
    BY <1>2, MovesStay DEF n
  <1> QED
    BY <1>3 DEF hs, n

\* The innermost operation ends, and the one beneath may go on.
LEMMA MovesWhenEnded ==
    ASSUME NEW fs \in Seq(Frames), fs # <<>>, NEW g,
           \A f \in Frames : f = Front(fs)[Len(fs) - 1] =>
              g.op = f.op /\ g.pool = f.pool /\ g.id = f.id
    PROVE  /\ NoNewMoves(fs, Front(fs))
           /\ NoNewMoves(fs, [Front(fs) EXCEPT ![Len(fs) - 1] = g])
  <1> DEFINE r == Front(fs)
             hs == [r EXCEPT ![Len(fs) - 1] = g]
             n == Len(fs)
  <1>1. n \in Nat \ {0} /\ r \in Seq(Frames) /\ Len(r) = n - 1 /\ \A i \in 1..(n - 1) : r[i] = fs[i]
    BY FrontFacts
  <1>2. Len(hs) = n - 1 /\ \A i \in 1..(n - 1) : hs[i] = IF i = n - 1 THEN g ELSE r[i]
    BY <1>1
  <1> HIDE DEF r, hs, n
  <1>3. \A i \in 1..Len(r) : i \in 1..n /\ r[i] = fs[i]
    BY <1>1
  <1>4. ASSUME NEW i \in 1..Len(hs)
        PROVE  i \in 1..n /\ hs[i].op = fs[i].op /\ hs[i].pool = fs[i].pool /\ hs[i].id = fs[i].id
    <2>1. CASE i = n - 1
      <3>1. r[n - 1] \in Frames
        BY <1>1, <2>1
      <3>2. g.op = r[n - 1].op /\ g.pool = r[n - 1].pool /\ g.id = r[n - 1].id
        BY <3>1 DEF r, n
      <3> QED
        BY <1>1, <1>2, <2>1, <3>2
    <2>2. CASE i # n - 1
      BY <1>1, <1>2, <2>2
    <2> QED
      BY <2>1, <2>2
  <1>5. NoNewMoves(fs, r) /\ NoNewMoves(fs, hs)
    BY <1>3, <1>4, MovesStay DEF n
  <1> QED
    BY <1>5 DEF r, hs, n

\* The innermost operations are given up.
LEMMA MovesWhenGivenUp ==
    ASSUME NEW fs \in Seq(Frames), NEW n \in 0..Len(fs)
    PROVE  NoNewMoves(fs, SubSeq(fs, 1, n))
  <1> DEFINE hs == SubSeq(fs, 1, n)
  <1>1. Len(hs) = n /\ \A i \in 1..n : hs[i] = fs[i] /\ i \in 1..Len(fs)
    OBVIOUS
  <1> HIDE DEF hs
  <1>2. NoNewMoves(fs, hs)
    BY <1>1, MovesStay
  <1> QED
    BY <1>2 DEF hs

\* What the host begins moves nothing, but for a migration.
LEMMA QuietHost ==
    ASSUME IndInv, RowInv, NEW p \in Pools,
           \/ DestroyPool(p)
           \/ \E id \in Usable(p) :
                \/ Free(p, id)
                \/ \E u \in Uuids : SetUuid(p, id, u)
                \/ \E k \in 1..MaxSlots : SetSiblingIndex(p, id, k)
                \/ \E c \in Components :
                    \/ AddComponent(p, id, c)
                    \/ RemoveComponent(p, id, c)
                    \/ \E k \in 1..Len(comps[p][Slot(id)]) :
                        \/ ReplaceComponent(p, id, k, c)
                        \/ SetComponentIndex(p, id, c, k)
    PROVE  RowInv'
  <1>0. frames \in Seq(Frames)
    BY ProperNow
  <1>1. ASSUME TreesStand, UNCHANGED rowVars, NoNewMoves(frames, frames') PROVE RowInv'
    BY <1>1, QuietStep DEF TreesStand
  <1>2. ASSUME frames' = frames PROVE NoNewMoves(frames, frames')
    BY <1>2, MovesStay
  <1>3. ASSUME NEW g, frames' = Append(frames, g), g.op # "migrate", frames' \in Seq(Frames)
        PROVE  NoNewMoves(frames, frames')
    <2>1. g \in Frames
      <3>1. Len(frames) + 1 \in 1..Len(frames') /\ frames'[Len(frames) + 1] = g
        BY <1>0, <1>3
      <3> QED
        BY <1>3, <3>1
    <2> QED
      BY <1>0, <1>3, <2>1, MovesWhenBegun
  <1>4. IndInv' => frames' \in Seq(Frames)
    BY DEF IndInv, Typed
  <1>5. CASE DestroyPool(p)
    <2>1. TreesStand /\ frames' \in Seq(Frames)
      BY <1>4, <1>5, DestroyPoolKeeps
    <2>2. /\ UNCHANGED rowVars
          /\ frames' = Append(frames, [Frame("destroy", p, NoId) EXCEPT !.at = 0])
      BY <1>5 DEF DestroyPool, Pushed
    <2>3. [Frame("destroy", p, NoId) EXCEPT !.at = 0].op # "migrate"
      BY DEF Frame
    <2> QED
      BY <1>1, <1>3, <2>1, <2>2, <2>3
  <1>6. ASSUME NEW id \in Usable(p), Free(p, id) PROVE RowInv'
    <2> DEFINE g == [Frame("free", p, id) EXCEPT !.old = parent[p][Slot(id)]]
    <2>1. TreesStand /\ frames' \in Seq(Frames)
      BY <1>4, <1>6, FreeKeeps
    <2>2. UNCHANGED rowVars /\ frames' = Append(frames, g)
      BY <1>6 DEF Free, Pushed
    <2>3. g.op # "migrate"
      BY DEF Frame
    <2> QED
      BY <1>1, <1>3, <2>1, <2>2, <2>3
  <1>7. ASSUME NEW id \in Usable(p), NEW u \in Uuids, SetUuid(p, id, u) PROVE RowInv'
    <2>1. TreesStand
      BY <1>7, SetUuidKeeps
    <2>2. UNCHANGED rowVars /\ frames' = frames
      BY <1>7 DEF SetUuid
    <2> QED
      BY <1>1, <1>2, <2>1, <2>2
  <1>8. ASSUME NEW id \in Usable(p), NEW k \in 1..MaxSlots, SetSiblingIndex(p, id, k) PROVE RowInv'
    <2>1. TreesStand
      BY <1>8, SetSiblingIndexKeeps
    <2>2. UNCHANGED rowVars /\ frames' = frames
      BY <1>8 DEF SetSiblingIndex
    <2> QED
      BY <1>1, <1>2, <2>1, <2>2
  <1>9. ASSUME NEW id \in Usable(p), NEW c \in Components, AddComponent(p, id, c) PROVE RowInv'
    <2> DEFINE g == [Frame("add", p, id) EXCEPT !.comp = c, !.at = 1, !.stage = "resolving"]
    <2>1. TreesStand /\ frames' \in Seq(Frames)
      BY <1>4, <1>9, AddComponentKeeps
    <2>2. UNCHANGED rowVars /\ frames' = Append(frames, g)
      BY <1>9 DEF AddComponent, Pushed
    <2>3. g.op # "migrate"
      BY DEF Frame
    <2> QED
      BY <1>1, <1>3, <2>1, <2>2, <2>3
  <1>10. ASSUME NEW id \in Usable(p), NEW c \in Components, RemoveComponent(p, id, c) PROVE RowInv'
    <2> DEFINE g == [Frame("remove", p, id) EXCEPT !.comp = c, !.stage = "removing"]
    <2>1. TreesStand /\ frames' \in Seq(Frames)
      BY <1>4, <1>10, RemoveComponentKeeps
    <2>2. UNCHANGED rowVars /\ frames' = Append(frames, g)
      BY <1>10 DEF RemoveComponent, BeginRemoval, Pushed
    <2>3. g.op # "migrate"
      BY DEF Frame
    <2> QED
      BY <1>1, <1>3, <2>1, <2>2, <2>3
  <1>11. ASSUME NEW id \in Usable(p), NEW c \in Components,
                NEW k \in 1..Len(comps[p][Slot(id)]), ReplaceComponent(p, id, k, c)
         PROVE  RowInv'
    <2> DEFINE e == comps[p][Slot(id)][k]
               g == [[Frame("replace", p, id) EXCEPT !.other = c, !.at = k]
                       EXCEPT !.comp = e, !.stage = "removing"]
    <2>1. TreesStand /\ frames' \in Seq(Frames)
      BY <1>4, <1>11, ReplaceComponentKeeps
    <2>2. UNCHANGED rowVars /\ frames' = Append(frames, g)
      BY <1>11, Zenon DEF ReplaceComponent, BeginRemoval, Pushed
    <2>3. g.op # "migrate"
      BY DEF Frame
    <2> QED
      BY <1>1, <1>3, <2>1, <2>2, <2>3
  <1>12. ASSUME NEW id \in Usable(p), NEW c \in Components,
                NEW k \in 1..Len(comps[p][Slot(id)]), SetComponentIndex(p, id, c, k)
         PROVE  RowInv'
    <2>1. TreesStand
      BY <1>12, SetComponentIndexKeeps
    <2>2. UNCHANGED rowVars /\ frames' = frames
      BY <1>12 DEF SetComponentIndex
    <2> QED
      BY <1>1, <1>2, <2>1, <2>2
  <1> QED
    BY <1>5, <1>6, <1>7, <1>8, <1>9, <1>10, <1>11, <1>12

\* What an operation in progress does next, but for a migration, a new entity
\* and one that leaves its tree, moves nothing.
LEMMA QuietGoing ==
    ASSUME IndInv, RowInv,
           \/ SkipRequirement
           \/ \E d \in Components, retains \in BOOLEAN : MakeRequirement(d, retains)
           \/ AddRaw \/ RemoveReturn \/ ReplaceReturn
           \/ FreeComponent \/ FreeComponentReturn \/ MigrateComponents
    PROVE  RowInv'
  <1>0. frames \in Seq(Frames) /\ Top = Last(frames) /\ Depth = Len(frames)
    BY ProperNow
  <1>1. ASSUME TreesStand, UNCHANGED rowVars, NoNewMoves(frames, frames') PROVE RowInv'
    BY <1>1, QuietStep DEF TreesStand
  <1>2. IndInv' => frames' \in Seq(Frames)
    BY DEF IndInv, Typed
  <1>3. ASSUME NEW g, IndInv', TreesStand, UNCHANGED rowVars, frames # <<>>,
               frames' = [frames EXCEPT ![Depth] = g],
               g.op = Top.op, g.pool = Top.pool, g.id = Top.id
        PROVE  RowInv'
    <2>1. frames' = [frames EXCEPT ![Len(frames)] = g] /\ [frames EXCEPT ![Len(frames)] = g] \in Seq(Frames)
      BY <1>0, <1>2, <1>3
    <2>2. NoNewMoves(frames, [frames EXCEPT ![Len(frames)] = g])
      BY <1>0, <1>3, <2>1, MovesWhenGoing
    <2> QED
      BY <1>1, <1>3, <2>1, <2>2
  <1>a. frames # <<>> => Top \in Frames
    BY <1>0, FrontFacts
  <1>4. CASE SkipRequirement
    <2> DEFINE g == [Top EXCEPT !.at = @ + 1]
    <2>1. IndInv' /\ TreesStand
      BY <1>4, SkipRequirementKeeps
    <2>2. /\ UNCHANGED rowVars /\ frames' = [frames EXCEPT ![Depth] = g] /\ frames # <<>>
      BY <1>4 DEF SkipRequirement, Became, At
    <2>3. g.op = Top.op /\ g.pool = Top.pool /\ g.id = Top.id
      BY <1>a, <2>2 DEF Frames
    <2> HIDE DEF g
    <2> QED
      BY <1>3, <2>1, <2>2, <2>3
  <1>5. CASE \E d \in Components, retains \in BOOLEAN : MakeRequirement(d, retains)
    <2>1. PICK d \in Components, retains \in BOOLEAN : MakeRequirement(d, retains)
      BY <1>5
    <2> DEFINE g == [Frame("add", Top.pool, Top.id) EXCEPT
                        !.comp = d, !.at = 1, !.stage = "resolving", !.made = TRUE]
    <2>2. TreesStand /\ frames' \in Seq(Frames)
      BY <1>2, <2>1, MakeRequirementKeeps
    <2>3. UNCHANGED rowVars /\ frames' = Append(frames, g)
      BY <2>1 DEF MakeRequirement, Pushed
    <2>4. g.op # "migrate"
      BY DEF Frame
    <2> HIDE DEF g
    <2>5. g \in Frames
      <3>1. Len(frames) + 1 \in 1..Len(frames') /\ frames'[Len(frames) + 1] = g
        BY <1>0, <2>2, <2>3
      <3> QED
        BY <2>2, <3>1
    <2> QED
      BY <1>0, <1>1, <2>2, <2>3, <2>4, <2>5, MovesWhenBegun
  <1>6. CASE AddRaw
    <2> DEFINE g == [Top EXCEPT !.stage = "added"]
    <2>1. IndInv' /\ TreesStand
      BY <1>6, AddRawKeeps
    <2>2. UNCHANGED rowVars /\ frames' = [frames EXCEPT ![Depth] = g] /\ frames # <<>>
      BY <1>6 DEF AddRaw, To, Became, At
    <2>3. g.op = Top.op /\ g.pool = Top.pool /\ g.id = Top.id
      BY <1>a, <2>2 DEF Frames
    <2> HIDE DEF g
    <2> QED
      BY <1>3, <2>1, <2>2, <2>3
  <1>7. CASE RemoveReturn
    <2> DEFINE g == [Top EXCEPT !.stage = "published", !.comp = NoComponent, !.other = Top.comp]
    <2>1. IndInv' /\ TreesStand
      BY <1>7, RemoveReturnKeeps
    <2>2. UNCHANGED rowVars /\ frames' = [frames EXCEPT ![Depth] = g] /\ frames # <<>>
      BY <1>7 DEF RemoveReturn, Became, At
    <2>3. g.op = Top.op /\ g.pool = Top.pool /\ g.id = Top.id
      BY <1>a, <2>2 DEF Frames
    <2> HIDE DEF g
    <2> QED
      BY <1>3, <2>1, <2>2, <2>3
  <1>8. CASE ReplaceReturn
    <2> DEFINE g == [Top EXCEPT !.stage = "added", !.comp = Top.other, !.other = Top.comp]
    <2>1. IndInv' /\ TreesStand
      BY <1>8, ReplaceReturnKeeps
    <2>2. UNCHANGED rowVars /\ frames' = [frames EXCEPT ![Depth] = g] /\ frames # <<>>
      BY <1>8 DEF ReplaceReturn, Became, At
    <2>3. g.op = Top.op /\ g.pool = Top.pool /\ g.id = Top.id
      BY <1>a, <2>2 DEF Frames
    <2> HIDE DEF g
    <2> QED
      BY <1>3, <2>1, <2>2, <2>3
  <1>9. CASE FreeComponent
    <2> DEFINE c == Head(comps[Top.pool][Slot(Top.id)])
               g == [Top EXCEPT !.comp = c, !.stage = "removing"]
    <2>1. IndInv' /\ TreesStand
      BY <1>9, FreeComponentKeeps
    <2>2. UNCHANGED rowVars /\ frames' = [frames EXCEPT ![Depth] = g] /\ frames # <<>>
      BY <1>9 DEF FreeComponent, Became, At
    <2>3. g.op = Top.op /\ g.pool = Top.pool /\ g.id = Top.id
      BY <1>a, <2>2 DEF Frames
    <2> HIDE DEF g
    <2> QED
      BY <1>3, <2>1, <2>2, <2>3
  <1>10. CASE FreeComponentReturn
    <2> DEFINE g == [Top EXCEPT !.comp = NoComponent, !.stage = "begin"]
    <2>1. IndInv' /\ TreesStand
      BY <1>10, FreeComponentReturnKeeps
    <2>2. UNCHANGED rowVars /\ frames' = [frames EXCEPT ![Depth] = g] /\ frames # <<>>
      BY <1>10 DEF FreeComponentReturn, Became, At
    <2>3. g.op = Top.op /\ g.pool = Top.pool /\ g.id = Top.id
      BY <1>a, <2>2 DEF Frames
    <2> HIDE DEF g
    <2> QED
      BY <1>3, <2>1, <2>2, <2>3
  <1>11. CASE MigrateComponents
    <2> DEFINE g == [Top EXCEPT !.stage = "children"]
    <2>1. IndInv' /\ TreesStand
      BY <1>11, MigrateComponentsKeeps
    <2>2. UNCHANGED rowVars /\ frames' = [frames EXCEPT ![Depth] = g] /\ frames # <<>>
      BY <1>11 DEF MigrateComponents, To, Became, At
    <2>3. g.op = Top.op /\ g.pool = Top.pool /\ g.id = Top.id
      BY <1>a, <2>2 DEF Frames
    <2> HIDE DEF g
    <2> QED
      BY <1>3, <2>1, <2>2, <2>3
  <1> QED
    BY <1>4, <1>5, <1>6, <1>7, <1>8, <1>9, <1>10, <1>11

\* What ends, or is given up, moves nothing, but for a migration that ends.
LEMMA QuietEnd ==
    ASSUME IndInv, RowInv,
           \/ FailRequirement \/ AddReturn \/ RemoveEnd \/ ReplaceEnd
           \/ FreeEnd \/ DestroyNext \/ DestroyEntity \/ MigrateAbandon
    PROVE  RowInv'
  <1>0. /\ frames \in Seq(Frames) /\ Top = Last(frames) /\ Popped = Front(frames) /\ Depth = Len(frames)
        /\ frames # <<>>
    BY ProperNow DEF FailRequirement, AddReturn, RemoveEnd, ReplaceEnd, FreeEnd, DestroyNext,
                     DestroyEntity, MigrateAbandon, At
  <1>1. ASSUME TreesStand, UNCHANGED rowVars, NoNewMoves(frames, frames') PROVE RowInv'
    BY <1>1, QuietStep DEF TreesStand
  <1>2. IndInv' => frames' \in Seq(Frames)
    BY DEF IndInv, Typed
  <1>3. NoNewMoves(frames, Popped)
    <2>1. \E g : \A f \in Frames : f = Front(frames)[Len(frames) - 1] =>
                    g.op = f.op /\ g.pool = f.pool /\ g.id = f.id
      <3>1. PICK g : g = Front(frames)[Len(frames) - 1]
        OBVIOUS
      <3> QED
        BY <3>1
    <2> QED
      BY <1>0, <2>1, MovesWhenEnded
  <1>4. CASE FailRequirement \/ MigrateAbandon
    <2>1. TreesStand /\ UNCHANGED rowVars
      BY <1>4, FailRequirementKeeps, MigrateAbandonKeeps DEF FailRequirement, MigrateAbandon
    <2>2. Base - 1 \in 0..Len(frames) /\ frames' = SubSeq(frames, 1, Base - 1)
      BY <1>4, BaseFacts DEF FailRequirement, MigrateAbandon, At
    <2> QED
      BY <1>0, <1>1, <2>1, <2>2, MovesWhenGivenUp
  <1>5. CASE RemoveEnd \/ ReplaceEnd
    <2>1. TreesStand /\ UNCHANGED rowVars /\ frames' = Popped
      BY <1>5, RemoveEndKeeps, ReplaceEndKeeps DEF RemoveEnd, ReplaceEnd
    <2> QED
      BY <1>1, <1>3, <2>1
  <1>6. CASE FreeEnd
    <2>1. /\ UNCHANGED rowVars /\ parent' = parent /\ \A r \in Pools : Linked(r)' = Linked(r)
          /\ frames' = Popped
      BY <1>6, FreeEndKeeps DEF FreeEnd, Dies
    <2> QED
      BY <1>3, <2>1, QuietStep
  <1>7. CASE AddReturn
    <2> DEFINE f == Popped[Len(frames) - 1]
               g == [f EXCEPT !.at = @ + 1]
    <2>1. TreesStand /\ UNCHANGED rowVars
      BY <1>7, AddReturnKeeps DEF AddReturn
    <2>2. frames' = IF Top.made THEN [Popped EXCEPT ![Len(frames) - 1] = g] ELSE Popped
      BY <1>0, <1>7 DEF AddReturn
    <2>3. \A h \in Frames : h = f => g.op = h.op /\ g.pool = h.pool /\ g.id = h.id
      BY DEF Frames
    <2> HIDE DEF g
    <2>4. NoNewMoves(frames, [Popped EXCEPT ![Len(frames) - 1] = g])
      BY <1>0, <2>3, MovesWhenEnded
    <2> QED
      BY <1>1, <1>3, <2>1, <2>2, <2>4
  <1>8. CASE DestroyNext
    <2> DEFINE p == Top.pool
               left == {s \in Top.at..(cap[p] - 1) : alive[p][s]}
               s == CHOOSE s \in left : \A x \in left : s <= x
               g == [Top EXCEPT !.stage = "destroying", !.at = s + 1, !.id = IdAt(p, s)]
    <2>1. TreesStand /\ UNCHANGED rowVars /\ frames' \in Seq(Frames) /\ Top.op = "destroy"
      BY <1>2, <1>8, DestroyNextKeeps DEF DestroyNext, At
    <2>2. CASE left = {}
      <3>1. frames' = Popped
        BY <1>8, <2>2 DEF DestroyNext
      <3> QED
        BY <1>1, <1>3, <2>1, <3>1
    <2>3. CASE left # {}
      <3>1. frames' = [frames EXCEPT ![Len(frames)] = g]
        BY <1>0, <1>8, <2>3 DEF DestroyNext, Became
      <3>2. g.op # "migrate"
        <4>1. Top \in Frames
          BY <1>0, FrontFacts
        <4> QED
          BY <2>1, <4>1 DEF Frames
      <3> HIDE DEF g
      <3>3. NoNewMoves(frames, frames')
        BY <1>0, <2>1, <3>1, <3>2, MovesWhenGoing
      <3> QED
        BY <1>1, <2>1, <3>3
    <2> QED
      BY <2>2, <2>3
  <1>9. CASE DestroyEntity
    <2>1. TreesStand /\ UNCHANGED rowVars
      BY <1>9, DestroyEntityKeeps DEF DestroyEntity
    <2> DEFINE g == [Top EXCEPT !.stage = "begin", !.id = NoId]
               h == [Frame("free", Top.pool, Top.id) EXCEPT !.old = parent[Top.pool][Slot(Top.id)],
                                                           !.made = TRUE]
               fs == [frames EXCEPT ![Len(frames)] = g]
    <2>2. Top \in Frames /\ Top.op = "destroy" /\ Len(frames) \in Nat \ {0}
      BY <1>0, <1>9, FrontFacts DEF DestroyEntity, At
    <2>3. g \in Frames /\ g.op = "destroy" /\ h.op = "free"
      BY <2>2 DEF Frames, Frame
    <2>4. frames' = IF Alive(Top.pool, Top.id) THEN fs \o <<h>> ELSE fs
      BY <1>0, <1>9 DEF DestroyEntity
    <2>5. frames' \in Seq(Frames)
      BY <1>2, <1>9, DestroyEntityKeeps
    <2> HIDE DEF g, h
    <2>6. fs \in Seq(Frames)
      BY <1>0, <2>2, <2>3
    <2>7. NoNewMoves(frames, fs)
      BY <1>0, <2>3, <2>6, MovesWhenGoing
    <2> HIDE DEF fs
    <2>8. CASE Alive(Top.pool, Top.id)
      <3>1. frames' = Append(fs, h)
        BY <2>4, <2>6, <2>8
      <3>2. h \in Frames
        <4>1. Len(fs) + 1 \in 1..Len(frames') /\ frames'[Len(fs) + 1] = h
          BY <2>6, <3>1
        <4> QED
          BY <2>5, <4>1
      <3>3. NoNewMoves(fs, frames')
        BY <2>3, <2>6, <3>1, <3>2, MovesWhenBegun
      <3>4. NoNewMoves(frames, frames')
        BY <2>7, <3>3 DEF NoNewMoves
      <3> QED
        BY <1>1, <2>1, <3>4
    <2>9. CASE ~Alive(Top.pool, Top.id)
      BY <1>1, <2>1, <2>4, <2>7, <2>9
    <2> QED
      BY <2>8, <2>9
  <1> QED
    BY <1>4, <1>5, <1>6, <1>7, <1>8, <1>9

\* The host runs in no migration.
LEMMA HostMovesNothing ==
    ASSUME IndInv, HostRuns
    PROVE  \A i \in 1..Len(frames) : frames[i].op # "migrate"
  <1>1. /\ frames \in Seq(Frames) /\ StackOK(World, frames)
        /\ frames # <<>> => Last(frames).stage \in Callbacks
    BY ProperNow DEF Proper
  <1> QED
    BY <1>1, NoMigrationUnderHost

\* Creation, a new parent and data-only components, by the host.
LEMMA HostRows ==
    ASSUME IndInv, RowInv, NEW p \in Pools,
           \/ \E u \in Uuids : Alloc(p, u)
           \/ \E id \in Usable(p) : \/ \E q \in Usable(p) \cup {NoId} : SetParent(p, id, q)
                                    \/ ChangeRow(p, id)
    PROVE  RowInv'
  <1>1. HostRuns /\ frames' = frames
    BY DEF Alloc, SetParent, ChangeRow
  <1>2. /\ \A i \in 1..Len(frames) : frames[i].op # "migrate"
        /\ NoNewMoves(frames, frames')
    BY <1>1, HostMovesNothing, MovesStay
  <1>3. RowsHold
    BY DEF RowInv
  <1>4. ASSUME NEW u \in Uuids, Alloc(p, u) PROVE RowsHold'
    <2>1. Enters(p, NextId(p)) /\ Slot(NextId(p)) = NextSlot(p)
      BY <1>4, AllocKeeps DEF NextId, IdAt, Slot
    <2>2. ForgetRow(p, Slot(NextId(p)))
      BY <1>4, <2>1 DEF Alloc, Allocate
    <2> QED
      BY <1>3, <2>1, <2>2, NewRows
  <1>5. ASSUME NEW id \in Usable(p), NEW q \in Usable(p) \cup {NoId}, SetParent(p, id, q)
        PROVE  RowsHold'
    <2>1. \A r \in Pools : Linked(r)' = Linked(r)
      BY <1>5, SetParentKeeps DEF GoesUnder
    <2>2. UNCHANGED rowVars
      BY <1>5 DEF SetParent
    <2> QED
      BY <1>3, <2>1, <2>2, RowsUntouched
  <1>6. ASSUME NEW id \in Usable(p), ChangeRow(p, id) PROVE RowsHold'
    <2>1. \A r \in Pools : Linked(r)' = Linked(r)
      BY <1>6, ChangeRowKeeps DEF TreesStand
    <2>2. id \in Linked(p)
      BY FramesNow
    <2> QED
      BY <1>3, <1>6, <2>1, <2>2, ChangedRows
  <1>7. RowsHold'
    BY <1>4, <1>5, <1>6
  <1> QED
    BY <1>2, <1>7, NoMovesLeft

\* An entity that is freed gives up its row as it leaves the tree.
LEMMA FreeRows ==
    ASSUME IndInv, RowInv, FreeUnlink
    PROVE  RowInv'
  <1> DEFINE g == [Top EXCEPT !.stage = "published"]
  <1>a. PICK p \in Pools : \E x : p = Top.pool /\ x = Top.id /\ Unlinks(p, x)
    BY FreeUnlinkKeeps
  <1>b. PICK x : p = Top.pool /\ x = Top.id /\ Unlinks(p, x)
    BY ONLY <1>a, ZenonT(30)
  <1>1. /\ frames # <<>> /\ Top.op = "free" /\ DropRow(p, x)
        /\ frames' = [frames EXCEPT ![Depth] = g]
    BY <1>b DEF FreeUnlink, At, To, Became
  <1>2. IndInv'
    BY FreeUnlinkKeeps
  <1>3. /\ frames \in Seq(Frames) /\ Top = Last(frames) /\ Depth = Len(frames)
        /\ StackOK(World, frames) /\ frames' \in Seq(Frames)
    BY <1>2, ProperNow DEF Proper, IndInv, Typed
  <1>4. \A i \in 1..Len(frames) : frames[i].op # "migrate"
    BY <1>1, <1>3, NoMigration
  <1>5. RowsHold'
    <2>1. /\ x \in Linked(p) /\ Linked(p)' = Linked(p) \ {x}
          /\ \A r \in Pools : r # p => Linked(r)' = Linked(r)
      BY <1>b DEF Unlinks
    <2>2. Linked(p) \ {x} \subseteq Linked(p)' /\ Linked(p)' \subseteq Linked(p)
      BY <2>1
    <2>3. RowsHold
      BY DEF RowInv
    <2> QED
      BY <1>1, <2>1, <2>2, <2>3, DroppedRows
  <1>6. NoNewMoves(frames, frames')
    <2>1. g.op # "migrate"
      <3>1. Top \in Frames
        BY <1>1, <1>3, FrontFacts
      <3> QED
        BY <1>1, <3>1 DEF Frames
    <2> HIDE DEF g
    <2> QED
      BY <1>1, <1>3, <2>1, MovesWhenGoing
  <1> QED
    BY <1>4, <1>5, <1>6, NoMovesLeft

\* The entities below one that is migrated stand, when nothing changes in its
\* pool.
LEMMA BareStays ==
    ASSUME NEW L, NEW up, NEW mk, NEW x, BareIn(L, up, mk, x), NEW up2, NEW mk2,
           \A y \in L : up2[Slot(y)] = up[Slot(y)] /\ mk2[Slot(y)] = mk[Slot(y)]
    PROVE  BareIn(L, up2, mk2, x)
  <1>1. PICK C \in SUBSET L : /\ x \in C
                              /\ \A y \in L : up[Slot(y)] \in C => y \in C
                              /\ \A y \in C : mk[Slot(y)] = {}
    BY DEF BareIn
  <1>2. /\ \A y \in L : up2[Slot(y)] \in C => y \in C
        /\ \A y \in C : mk2[Slot(y)] = {}
    BY <1>1
  <1> QED
    BY <1>1, <1>2 DEF BareIn

\* The same, of every migration in progress, when all are from one pool.
LEMMA MovesStayBare ==
    ASSUME NEW fs, NEW hs, NoNewMoves(fs, hs), NEW p,
           \A i \in 1..Len(fs) : fs[i].op = "migrate" => fs[i].pool = p,
           NEW L, NEW up, NEW mk, MovesBareIn(fs, L, up, mk), NEW L2, NEW up2, NEW mk2,
           L2[p] = L[p],
           \A y \in L[p] : up2[p][Slot(y)] = up[p][Slot(y)] /\ mk2[p][Slot(y)] = mk[p][Slot(y)]
    PROVE  MovesBareIn(hs, L2, up2, mk2)
  <1> SUFFICES ASSUME NEW i \in 1..Len(hs), hs[i].op = "migrate"
               PROVE  BareIn(L2[hs[i].pool], up2[hs[i].pool], mk2[hs[i].pool], hs[i].id)
    BY DEF MovesBareIn
  <1>1. PICK j \in 1..Len(fs) : fs[j].op = "migrate" /\ fs[j].pool = hs[i].pool /\ fs[j].id = hs[i].id
    BY DEF NoNewMoves
  <1>2. hs[i].pool = p /\ BareIn(L[p], up[p], mk[p], hs[i].id)
    BY <1>1 DEF MovesBareIn
  <1>3. BareIn(L[p], up2[p], mk2[p], hs[i].id)
    BY <1>2, BareStays
  <1> QED
    BY <1>2, <1>3

\* What is below an entity of a subtree is in it.
LEMMA BelowIsBelow ==
    ASSUME IndInv, NEW p \in Pools, NEW x \in Linked(p), NEW z \in Linked(p),
           parent[p][Slot(z)] \in Subtree(p, x) \cap Linked(p)
    PROVE  z \in Subtree(p, x) \cap Linked(p)
  <1> DEFINE up == parent[p][Slot(z)]
  <1>1. z \in Live(p) /\ x \in Live(p) /\ up \in Linked(p) /\ x \in Chain(p, up) /\ Alive(p, up)
    BY OnePool, FramesNow DEF Subtree
  <1>2. ASSUME NEW D \in SUBSET Live(p), z \in D,
               \A v \in D : Alive(p, parent[p][Slot(v)]) => parent[p][Slot(v)] \in D
        PROVE  x \in D
    <2>1. up \in D
      BY <1>1, <1>2
    <2> HIDE DEF up
    <2> QED
      BY <1>1, <1>2, <2>1 DEF Chain
  <1>3. x \in Chain(p, z)
    BY <1>1, <1>2 DEF Chain
  <1> QED
    BY <1>1, <1>3 DEF Subtree

\* A migration takes an entity of another pool; it is from one pool as long
\* as it lasts.
LEMMA MovesFromOnePool ==
    ASSUME IndInv, frames # <<>>, Top.op = "migrate"
    PROVE  \A i \in 1..Len(frames) : frames[i].op = "migrate" => frames[i].pool = Top.pool
  <1>1. frames \in Seq(Frames) /\ Top = Last(frames) /\ Popped = Front(frames)
    BY ProperNow
  <1>2. /\ Len(frames) \in Nat \ {0} /\ Len(Popped) = Len(frames) - 1 /\ Top = frames[Len(frames)]
        /\ \A i \in 1..(Len(frames) - 1) : Popped[i] = frames[i]
    BY <1>1, FrontFacts
  <1> SUFFICES ASSUME NEW i \in 1..Len(frames), frames[i].op = "migrate"
               PROVE  frames[i].pool = Top.pool
    OBVIOUS
  <1>3. CASE i = Len(frames)
    BY <1>2, <1>3
  <1>4. CASE i # Len(frames)
    <2>1. i \in 1..Len(Popped) /\ Popped[i] = frames[i]
      BY <1>2, <1>4
    <2> QED
      BY <2>1, MigrationNow
  <1> QED
    BY <1>3, <1>4

\* A migration of the host: what it moves has no data-only components.
LEMMA MigrateRows ==
    ASSUME ~MigratesRows, IndInv, RowInv,
           NEW p \in Pools, NEW x \in Usable(p), NEW q \in Pools, Migrate(p, x, q)
    PROVE  RowInv'
  <1> DEFINE g == MigrateFrame(p, x, q, FALSE)
             y == NextId(q)
             C == Subtree(p, x) \cap Linked(p)
  <1>1. /\ HostRuns /\ p # q /\ Allocate(q, uuid[p][Slot(x)]) /\ frames' = Append(frames, g)
        /\ \A z \in Subtree(p, x) : mask[p][Slot(z)] = {}
    BY DEF Migrate, MayBegin, Pushed
  <1>2. Enters(q, y) /\ Slot(y) = NextSlot(q) /\ frames' \in Seq(Frames)
    BY MigrateKeeps DEF NextId, IdAt, Slot, IndInv, Typed
  <1>3. /\ RowsHold'
        /\ \A r \in Pools : r # q => mask'[r] = mask[r]
    <2>1. ForgetRow(q, Slot(y)) /\ RowsHold
      BY <1>1, <1>2 DEF Allocate, RowInv
    <2> HIDE DEF y
    <2> QED
      BY <1>2, <2>1, NewRows
  <1>4. BareIn(Linked(p), parent[p], mask[p], x)
    <2>1. x \in Linked(p) /\ Linked(p) \subseteq Live(p) /\ NoId \notin Linked(p)
      BY FramesNow
    <2>2. x \in C
      BY <2>1 DEF Subtree, Chain
    <2>3. ASSUME NEW z \in Linked(p), parent[p][Slot(z)] \in C PROVE z \in C
      BY <2>1, <2>3, BelowIsBelow
    <2>4. C \subseteq Linked(p) /\ \A z \in C : mask[p][Slot(z)] = {}
      BY <1>1
    <2> HIDE DEF C
    <2> QED
      BY <2>2, <2>3, <2>4 DEF BareIn
  <1>5. /\ g.op = "migrate" /\ g.pool = p /\ g.id = x
        /\ \A i \in 1..Len(frames) : frames[i].op # "migrate"
    BY <1>1, HostMovesNothing DEF MigrateFrame, Frame
  <1>6. BareIn(LinkedOf'[p], parent'[p], mask'[p], x)
    <2>1. Linked(p)' = Linked(p) /\ \A z \in Linked(p) : parent'[p][Slot(z)] = parent[p][Slot(z)]
      BY <1>1, <1>2 DEF Enters
    <2>2. mask'[p] = mask[p]
      BY <1>1, <1>3
    <2>3. BareIn(Linked(p), parent'[p], mask'[p], x)
      BY <1>4, <2>1, <2>2, BareStays
    <2> QED
      BY <2>1, <2>3, PoolNow
  <1>7. MovesBareIn(frames', LinkedOf', parent', mask')
    <2> HIDE DEF g
    <2>1. Len(frames') = Len(frames) + 1 /\ Len(frames) \in Nat /\ frames'[Len(frames) + 1] = g
          /\ \A i \in 1..Len(frames) : frames'[i] = frames[i]
      <3>1. frames \in Seq(Frames)
        BY ProperNow
      <3> QED
        BY <1>1, <3>1
    <2>2. ASSUME NEW i \in 1..Len(frames'), frames'[i].op = "migrate" PROVE frames'[i] = g
      <3>1. i \in 1..Len(frames) \/ i = Len(frames) + 1
        BY <2>1
      <3> QED
        BY <1>5, <2>1, <2>2, <3>1
    <2> QED
      BY <1>5, <1>6, <2>2 DEF MovesBareIn
  <1> QED
    BY <1>3, <1>7 DEF RowInv

\* A migration goes on with a child, which has no data-only components either.
LEMMA MigrateChildRows ==
    ASSUME IndInv, RowInv, MigrateChild
    PROVE  RowInv'
  <1>a. PICK p, q, k : p = Top.pool /\ q = Top.to /\ k = FirstChild
    OBVIOUS
  <1> DEFINE g == MigrateFrame(p, k, q, TRUE)
             y == NextId(q)
  <1>1. /\ frames # <<>> /\ Top.op = "migrate" /\ Allocate(q, uuid[p][Slot(k)])
        /\ frames' = Append(frames, g)
    BY <1>a DEF MigrateChild, At, Pushed
  <1>2. /\ q \in Pools /\ Enters(q, y) /\ Slot(y) = NextSlot(q) /\ frames' \in Seq(Frames)
        /\ k \in Linked(p) /\ parent[p][Slot(k)] = Top.id
    BY <1>a, MigrateChildKeeps DEF NextId, IdAt, Slot, IndInv, Typed
  <1>3. p \in Pools /\ p # q
    BY <1>a, <1>1, MigrationNow
  <1>4. /\ RowsHold'
        /\ \A r \in Pools : r # q => mask'[r] = mask[r]
    <2>1. ForgetRow(q, Slot(y)) /\ RowsHold
      BY <1>1, <1>2 DEF Allocate, RowInv
    <2> HIDE DEF y
    <2> QED
      BY <1>2, <2>1, NewRows
  <1>5. /\ LinkedOf'[p] = LinkedOf[p] /\ LinkedOf[p] = Linked(p)
        /\ \A z \in LinkedOf[p] : /\ parent'[p][Slot(z)] = parent[p][Slot(z)]
                                  /\ mask'[p][Slot(z)] = mask[p][Slot(z)]
    BY <1>2, <1>3, <1>4, PoolNow DEF Enters
  <1>6. MovesBareIn(frames, LinkedOf, parent, mask)
    BY DEF RowInv
  <1>7. MovesBareIn(frames, LinkedOf', parent', mask')
    <2>1. NoNewMoves(frames, frames)
      BY MovesStay
    <2>2. \A i \in 1..Len(frames) : frames[i].op = "migrate" => frames[i].pool = p
      BY <1>a, <1>1, MovesFromOnePool
    <2> DEFINE L == LinkedOf
               L2 == LinkedOf'
               up2 == parent'
               mk2 == mask'
    <2>3. L2[p] = L[p]
      BY <1>5
    <2>4. \A z \in L[p] : up2[p][Slot(z)] = parent[p][Slot(z)] /\ mk2[p][Slot(z)] = mask[p][Slot(z)]
      BY <1>5
    <2>5. MovesBareIn(frames, L, parent, mask)
      BY <1>6
    <2> HIDE DEF L, L2, up2, mk2
    <2>6. MovesBareIn(frames, L2, up2, mk2)
      BY ONLY <2>1, <2>2, <2>3, <2>4, <2>5, MovesStayBare
    <2> QED
      BY <2>6 DEF L2, up2, mk2
  <1>8. BareIn(LinkedOf'[p], parent'[p], mask'[p], k)
    <2>1. Len(frames) \in 1..Len(frames) /\ Top = frames[Len(frames)]
      <3>1. frames \in Seq(Frames) /\ Top = Last(frames)
        BY ProperNow
      <3>2. Len(frames) \in Nat \ {0} /\ Last(frames) = frames[Len(frames)]
        BY ONLY <1>1, <3>1, FrontFacts
      <3> QED
        BY <3>1, <3>2
    <2>2. BareIn(Linked(p), parent[p], mask[p], Top.id)
      BY <1>a, <1>1, <1>5, <1>6, <2>1 DEF MovesBareIn
    <2>3. BareIn(Linked(p), parent[p], mask[p], k)
      BY <1>2, <2>2 DEF BareIn
    <2> QED
      BY <1>5, <2>3, BareStays
  <1>9. g.op = "migrate" /\ g.pool = p /\ g.id = k
    BY DEF MigrateFrame, Frame
  <1>10. MovesBareIn(frames', LinkedOf', parent', mask')
    <2> HIDE DEF g
    <2>1. Len(frames') = Len(frames) + 1 /\ Len(frames) \in Nat /\ frames'[Len(frames) + 1] = g
          /\ \A i \in 1..Len(frames) : frames'[i] = frames[i]
      <3>1. frames \in Seq(Frames)
        BY ProperNow
      <3> QED
        BY <1>1, <3>1
    <2>2. ASSUME NEW i \in 1..Len(frames'), frames'[i].op = "migrate"
          PROVE  BareIn(LinkedOf'[frames'[i].pool], parent'[frames'[i].pool],
                        mask'[frames'[i].pool], frames'[i].id)
      <3>1. CASE i \in 1..Len(frames)
        BY <1>7, <2>1, <2>2, <3>1 DEF MovesBareIn
      <3>2. CASE i = Len(frames) + 1
        BY <1>8, <1>9, <2>1, <3>2
      <3> QED
        BY <2>1, <3>1, <3>2
    <2> QED
      BY <2>2 DEF MovesBareIn
  <1> QED
    BY <1>4, <1>10 DEF RowInv

\* The copy of a child goes under the copy of its parent: in the other pool.
LEMMA MigrateAttachRows ==
    ASSUME IndInv, RowInv, MigrateAttach
    PROVE  RowInv'
  <1>a. PICK p, q, k : p = Top.pool /\ q = Top.to /\ k = Top.old
    OBVIOUS
  <1> DEFINE g == [Top EXCEPT !.stage = "children", !.old = NoId]
  <1>1. /\ frames # <<>> /\ Top.op = "migrate" /\ frames' = [frames EXCEPT ![Depth] = g]
        /\ parent' = [parent EXCEPT ![q][Slot(k)] = Top.copy] /\ UNCHANGED rowVars
    BY <1>a DEF MigrateAttach, At, Became
  <1>2. /\ frames \in Seq(Frames) /\ Top = Last(frames) /\ Depth = Len(frames) /\ Top \in Frames
        /\ parent \in [Pools -> [Slots -> Ids \cup {NoId}]]
    <2>1. /\ frames \in Seq(Frames) /\ Top = Last(frames) /\ Depth = Len(frames)
          /\ parent \in [Pools -> [Slots -> Ids \cup {NoId}]]
      BY ProperNow DEF PoolsTyped
    <2> QED
      BY <1>1, <2>1, FrontFacts
  <1>3. p \in Pools /\ p # q
    BY <1>a, <1>1, MigrationNow
  <1>4. frames' \in Seq(Frames) /\ \A r \in Pools : Linked(r)' = Linked(r)
    BY MigrateAttachKeeps DEF IndInv, Typed, GoesUnder
  <1>5. RowsHold' /\ mask' = mask
    BY <1>1, <1>4, RowsUntouched DEF RowInv, rowVars
  <1>6. NoNewMoves(frames, frames')
    <2>1. g.pool = Top.pool /\ g.id = Top.id /\ g.op = Top.op
      BY <1>2 DEF Frames
    <2> HIDE DEF g
    <2> QED
      BY <1>1, <1>2, <1>4, <2>1, MovesWhenGoing
  <1>7. MovesBareIn(frames', LinkedOf', parent', mask')
    <2> DEFINE L == LinkedOf
               L2 == LinkedOf'
               up2 == parent'
               mk2 == mask'
    <2>1. \A i \in 1..Len(frames) : frames[i].op = "migrate" => frames[i].pool = p
      BY <1>a, <1>1, MovesFromOnePool
    <2>2. L2[p] = L[p]
      BY <1>3, <1>4, PoolNow
    <2>3. \A z \in L[p] : up2[p][Slot(z)] = parent[p][Slot(z)] /\ mk2[p][Slot(z)] = mask[p][Slot(z)]
      <3>1. parent'[p] = parent[p]
        BY <1>1, <1>2, <1>3
      <3> QED
        BY <1>5, <3>1
    <2>4. MovesBareIn(frames, L, parent, mask)
      BY DEF RowInv
    <2>5. PICK hs : hs = frames'
      OBVIOUS
    <2>6. NoNewMoves(frames, hs)
      BY <1>6, <2>5
    <2> HIDE DEF L, L2, up2, mk2
    <2>7. MovesBareIn(hs, L2, up2, mk2)
      BY ONLY <2>1, <2>2, <2>3, <2>4, <2>6, MovesStayBare
    <2> QED
      BY <2>5, <2>7 DEF L2, up2, mk2
  <1> QED
    BY <1>5, <1>7 DEF RowInv

\* An entity that is gone from a pool is gone from those below another.
LEMMA BareWithout ==
    ASSUME NEW L, NEW up, NEW mk, NEW y, BareIn(L, up, mk, y), NEW x, x # y,
           NEW L2, L2 = L \ {x}
    PROVE  BareIn(L2, up, mk, y)
  <1>1. PICK C \in SUBSET L : /\ y \in C
                              /\ \A z \in L : up[Slot(z)] \in C => z \in C
                              /\ \A z \in C : mk[Slot(z)] = {}
    BY DEF BareIn
  <1> DEFINE D == C \ {x}
  <1>2. /\ D \in SUBSET L2 /\ y \in D
        /\ \A z \in L2 : up[Slot(z)] \in D => z \in D
        /\ \A z \in D : mk[Slot(z)] = {}
    BY <1>1
  <1> HIDE DEF D
  <1> QED
    BY <1>2 DEF BareIn

\* The source of a migration dies; it has no row to give up.
LEMMA MigrateEndRows ==
    ASSUME IndInv, RowInv, MigrateEnd
    PROVE  RowInv'
  <1>0. PICK p \in Pools : \E y : p = Top.pool /\ y = Top.id /\ SourceDies(p, y)
    BY MigrateEndKeeps
  <1>a. PICK x : p = Top.pool /\ x = Top.id /\ SourceDies(p, x)
    BY <1>0
  <1>b. PICK c : c = Top.copy
    OBVIOUS
  <1> DEFINE f == Popped[Depth - 1]
             g == [f EXCEPT !.stage = "attach", !.old = c]
  <1>1. /\ frames # <<>> /\ Top.op = "migrate" /\ UNCHANGED rowVars
        /\ frames' = IF Top.made THEN [Popped EXCEPT ![Depth - 1] = g] ELSE Popped
    BY <1>b DEF MigrateEnd, At
  <1>2. /\ x \in Linked(p) /\ Linked(p)' = Linked(p) \ {x} /\ parent' = parent
        /\ \A r \in Pools : r # p => Linked(r)' = Linked(r)
    BY <1>a DEF SourceDies
  <1>3. /\ frames \in Seq(Frames) /\ Top = Last(frames) /\ Popped = Front(frames) /\ Depth = Len(frames)
        /\ Popped \in Seq(Frames) /\ Len(Popped) = Depth - 1 /\ Depth \in Nat \ {0}
        /\ Top = frames[Depth] /\ \A i \in 1..(Depth - 1) : Popped[i] = frames[i]
    <2>1. /\ frames \in Seq(Frames) /\ Top = Last(frames) /\ Popped = Front(frames) /\ Depth = Len(frames)
      BY ProperNow
    <2>2. frames # <<>>
      BY <1>1
    <2> QED
      BY ONLY <2>1, <2>2, FrontFacts
  <1>4. mask' = mask /\ row' = row /\ rows' = rows /\ memory' = memory /\ written' = written
    BY <1>1 DEF rowVars
  <1>5. /\ MovesBareIn(frames, LinkedOf, parent, mask) /\ LinkedOf[p] = Linked(p)
        /\ LinkedOf'[p] = Linked(p) \ {x}
    BY <1>2, PoolNow DEF RowInv
  <1>6. mask[p][Slot(x)] = {}
    <2>1. Depth \in 1..Len(frames) /\ frames[Depth] = Top
      BY <1>3
    <2>2. BareIn(Linked(p), parent[p], mask[p], x)
      BY <1>a, <1>1, <1>5, <2>1 DEF MovesBareIn
    <2> QED
      BY <2>2 DEF BareIn
  <1>7. RowsHold'
    <2>1. /\ TablesOK(Linked(p), mask[p], row[p], rows[p], memory[p], written[p]) /\ RowsHold
      BY DEF RowInv, RowsHold, RowsIn
    <2>2. TablesOK(Linked(p)', mask[p], row[p], rows[p], memory[p], written[p])
      BY <1>2, <1>6, <2>1, RowlessGoes
    <2>3. TablesBecome(p, mask[p], row[p], rows[p], memory[p], written[p])
      BY <1>4, <2>1 DEF TablesBecome, RowsHold, RowsTypeOK
    <2> QED
      BY <1>2, <2>1, <2>2, <2>3, OnePoolRows
  <1>8. \A i \in 1..Len(Popped) : Popped[i].op = "migrate" =>
           /\ Popped[i].pool = p /\ Popped[i].id # x
           /\ BareIn(LinkedOf'[p], parent[p], mask[p], Popped[i].id)
    <2> SUFFICES ASSUME NEW i \in 1..Len(Popped), Popped[i].op = "migrate"
                 PROVE  /\ Popped[i].pool = p /\ Popped[i].id # x
                        /\ BareIn(LinkedOf'[p], parent[p], mask[p], Popped[i].id)
      OBVIOUS
    <2>1. Popped[i].pool = p /\ Popped[i].id # x
      BY <1>a, <1>1, MigrationNow
    <2>2. i \in 1..Len(frames) /\ Popped[i] = frames[i]
      BY <1>3
    <2>3. BareIn(Linked(p), parent[p], mask[p], Popped[i].id)
      BY <1>5, <2>1, <2>2 DEF MovesBareIn
    <2> QED
      BY <1>5, <2>1, <2>3, BareWithout
  <1>9. NoNewMoves(Popped, frames')
    <2>1. CASE ~Top.made \/ Popped = <<>>
      <3>1. frames' = Popped
        <4>1. CASE ~Top.made
          BY <1>1, <4>1
        <4>2. CASE Popped = <<>>
          <5>1. StackOK(World, frames)
            BY ProperNow DEF Proper
          <5>2. Front(frames) = <<>> => ~Last(frames).made
            BY <1>1, <1>3, <5>1, StackTop
          <5>3. ~Top.made
            BY <1>3, <4>2, <5>2
          <5> QED
            BY <1>1, <5>3
        <4> QED
          BY <2>1, <4>1, <4>2
      <3> QED
        BY <3>1, MovesStay
    <2>2. CASE Top.made /\ Popped # <<>>
      <3>1. f \in Frames /\ f = Last(Popped)
        <4>1. Last(Popped) = Popped[Len(Popped)] /\ Last(Popped) \in Frames
          BY <1>3, <2>2, FrontFacts
        <4> QED
          BY <1>3, <4>1
      <3>2. g.op = f.op /\ g.pool = f.pool /\ g.id = f.id
        BY <3>1 DEF Frames
      <3> HIDE DEF g, f
      <3>3. frames' = [Popped EXCEPT ![Len(Popped)] = g]
        BY <1>1, <1>3, <2>2
      <3>4. frames' \in Seq(Frames)
        BY MigrateEndKeeps DEF IndInv, Typed
      <3> QED
        BY <1>3, <2>2, <3>1, <3>2, <3>3, <3>4, MovesWhenGoing
    <2> QED
      BY <2>1, <2>2
  <1>10. MovesBareIn(frames', LinkedOf', parent', mask')
    <2> SUFFICES ASSUME NEW i \in 1..Len(frames'), frames'[i].op = "migrate"
                 PROVE  BareIn(LinkedOf'[frames'[i].pool], parent'[frames'[i].pool],
                               mask'[frames'[i].pool], frames'[i].id)
      BY DEF MovesBareIn
    <2>1. PICK j \in 1..Len(Popped) : /\ Popped[j].op = "migrate" /\ Popped[j].pool = frames'[i].pool
                                      /\ Popped[j].id = frames'[i].id
      BY <1>9 DEF NoNewMoves
    <2> QED
      BY <1>2, <1>4, <1>8, <2>1
  <1> QED
    BY <1>7, <1>10 DEF RowInv

\* The tables of a new pool are empty.
LEMMA NewPoolRows ==
    ASSUME Init
    PROVE  RowInv
  <1>1. /\ mask = [p \in Pools |-> [s \in Slots |-> {}]]
        /\ row = [p \in Pools |-> [s \in Slots |-> 0]]
        /\ rows = [p \in Pools |-> [m \in Tables |-> <<>>]]
        /\ memory = [p \in Pools |-> [m \in Tables |-> <<>>]]
        /\ written = [p \in Pools |-> [s \in Slots |-> Zeroed]]
        /\ frames = <<>>
    BY DEF Init, RowsInit
  <1>2. RowsTypeOK
    <2>1. Zeroed \in Fields
      BY RowsAssumption DEF Zeroed, Fields
    <2>2. mask \in [Pools -> [Slots -> Tables]] /\ row \in [Pools -> [Slots -> Nat]]
      BY <1>1 DEF Tables
    <2>3. rows \in [Pools -> [Tables -> Seq(Ids)]] /\ memory \in [Pools -> [Tables -> Seq(Fields)]]
      <3>1. <<>> \in Seq(Ids) /\ <<>> \in Seq(Fields)
        OBVIOUS
      <3> QED
        BY <1>1, <3>1
    <2> QED
      BY <1>1, <2>1, <2>2, <2>3 DEF RowsTypeOK, Fields
  <1>3. ASSUME NEW p \in Pools PROVE RowsIn(p)
    <2>1. /\ mask[p] = [s \in Slots |-> {}] /\ \A m \in Tables : rows[p][m] = <<>> /\ memory[p][m] = <<>>
      BY <1>1
    <2>2. Linked(p) = {}
      <3>1. Live(p) = {}
        BY DEF Init, Live
      <3> QED
        BY <3>1 DEF Linked
    <2>3. RowsTyped(mask[p], row[p], rows[p], memory[p], written[p])
      BY <1>2 DEF RowsTypeOK, RowsTyped, Fields
    <2>4. ASSUME NEW m \in Tables \ {{}}
          PROVE  TableOK(Having(Linked(p), mask[p], m), m, row[p], rows[p][m], memory[p][m], written[p])
      <3>1. Having(Linked(p), mask[p], m) = {}
        BY <2>2 DEF Having
      <3>2. rows[p][m] = <<>> /\ memory[p][m] = <<>>
        BY <2>1
      <3>3. TableOK({}, m, row[p], <<>>, <<>>, written[p])
        BY DEF TableOK, TableHolds, FieldsHold
      <3> QED
        BY <3>1, <3>2, <3>3
    <2>5. rows[p][{}] = <<>>
      BY <2>1 DEF Tables
    <2> QED
      BY <2>3, <2>4, <2>5 DEF RowsIn, TablesOK
  <1>4. MovesBareIn(frames, LinkedOf, parent, mask)
    BY <1>1 DEF MovesBareIn
  <1> QED
    BY <1>2, <1>3, <1>4 DEF RowInv, RowsHold

\* Every step keeps the tables, when the host migrates no entity that has
\* data-only components.
LEMMA RowsStep ==
    ASSUME ~MigratesRows, IndInv, RowInv, [Next]_vars
    PROVE  RowInv'
  <1>1. CASE Host
    <2>1. ASSUME NEW p \in Pools, NEW u \in Uuids, Alloc(p, u) PROVE RowInv'
      BY <2>1, HostRows
    <2>2. ASSUME NEW p \in Pools, DestroyPool(p) PROVE RowInv'
      BY <2>2, QuietHost
    <2>3. ASSUME NEW p \in Pools, NEW id \in Usable(p),
                 Free(p, id) \/ \E u \in Uuids : SetUuid(p, id, u)
          PROVE  RowInv'
      BY <2>3, QuietHost
    <2>4. ASSUME NEW p \in Pools, NEW id \in Usable(p),
                 \E q \in Usable(p) \cup {NoId} : SetParent(p, id, q)
          PROVE  RowInv'
      BY <2>4, HostRows
    <2>5. ASSUME NEW p \in Pools, NEW id \in Usable(p), \E k \in 1..MaxSlots : SetSiblingIndex(p, id, k)
          PROVE  RowInv'
      BY <2>5, QuietHost
    <2>6. ASSUME NEW p \in Pools, NEW id \in Usable(p), NEW q \in Pools, Migrate(p, id, q)
          PROVE  RowInv'
      BY <2>6, MigrateRows
    <2>7. ASSUME NEW p \in Pools, NEW id \in Usable(p), ChangeRow(p, id) PROVE RowInv'
      BY <2>7, HostRows
    <2>8. ASSUME NEW p \in Pools, NEW id \in Usable(p), NEW c \in Components,
                 \/ AddComponent(p, id, c)
                 \/ RemoveComponent(p, id, c)
                 \/ \E k \in 1..Len(comps[p][Slot(id)]) :
                     \/ ReplaceComponent(p, id, k, c)
                     \/ SetComponentIndex(p, id, c, k)
          PROVE  RowInv'
      BY <2>8, QuietHost
    <2>9. ASSUME NEW c \in Components, CreateComponent(c) \/ TakeReference(c) \/ LetGo(c)
          PROVE  RowInv'
      <3>1. TreesStand
        BY <2>9, ReferencesKeep
      <3>2. UNCHANGED rowVars /\ frames' = frames
        BY <2>9 DEF CreateComponent, TakeReference, LetGo
      <3>3. NoNewMoves(frames, frames')
        BY <3>2, MovesStay
      <3> QED
        BY <3>1, <3>2, <3>3, QuietStep DEF TreesStand
    <2> QED
      BY <1>1, <2>1, <2>2, <2>3, <2>4, <2>5, <2>6, <2>7, <2>8, <2>9 DEF Host
  <1>2. CASE Continue
    <2>1. CASE \/ SkipRequirement
               \/ \E d \in Components, retains \in BOOLEAN : MakeRequirement(d, retains)
               \/ AddRaw \/ RemoveReturn \/ ReplaceReturn
               \/ FreeComponent \/ FreeComponentReturn \/ MigrateComponents
      BY <2>1, QuietGoing
    <2>2. CASE \/ FailRequirement \/ AddReturn \/ RemoveEnd \/ ReplaceEnd
               \/ FreeEnd \/ DestroyNext \/ DestroyEntity \/ MigrateAbandon
      BY <2>2, QuietEnd
    <2>3. CASE FreeUnlink
      BY <2>3, FreeRows
    <2>4. CASE MigrateChild \/ MigrateEnd \/ MigrateAttach
      BY <2>4, MigrateChildRows, MigrateEndRows, MigrateAttachRows
    <2>5. CASE MigrateSkip
      <3>1. TreesStand /\ UNCHANGED rowVars /\ frames' = frames
        BY <2>5, MigrateSkipKeeps DEF MigrateSkip
      <3>2. NoNewMoves(frames, frames')
        BY <3>1, MovesStay
      <3> QED
        BY <3>1, <3>2, QuietStep DEF TreesStand
    <2> QED
      BY <1>2, <2>1, <2>2, <2>3, <2>4, <2>5 DEF Continue
  <1>3. CASE UNCHANGED vars
    <2>1. /\ gen' = gen /\ parent' = parent /\ alive' = alive /\ frames' = frames /\ UNCHANGED rowVars
      BY <1>3 DEF vars, slotVars, treeVars, rowVars
    <2>2. \A r \in Pools : Linked(r)' = Linked(r)
      BY <2>1, WorldNow
    <2>3. NoNewMoves(frames, frames')
      BY <2>1, MovesStay
    <2> QED
      BY <2>1, <2>2, <2>3, QuietStep
  <1> QED
    BY <1>1, <1>2, <1>3 DEF Next

-----------------------------------------------------------------------------
(* What the invariant says of the rows, in the terms of their property.    *)

\* The entities with their tables and rows, and the rows of the tables.
LEMMA RowsAgree ==
    ASSUME NEW L, NEW mk, NEW rw, NEW rs, NEW mem, NEW wr, TablesOK(L, mk, rw, rs, mem, wr),
           \A x \in L : Slot(x) \in Slots
    PROVE  {<<mk[Slot(x)], rw[Slot(x)], x>> : x \in {x \in L : mk[Slot(x)] # {}}} =
           UNION {{<<m, k, rs[m][k]>> : k \in 1..Len(rs[m])} : m \in Tables}
  <1> DEFINE A == {<<mk[Slot(x)], rw[Slot(x)], x>> : x \in {x \in L : mk[Slot(x)] # {}}}
             R(m) == {<<m, k, rs[m][k]>> : k \in 1..Len(rs[m])}
             B == UNION {R(m) : m \in Tables}
  <1>1. /\ mk \in [Slots -> Tables] /\ rs[{}] = <<>>
        /\ \A m \in Tables \ {{}} : TableHolds(Having(L, mk, m), rw, rs[m])
    BY DEF TablesOK, RowsTyped, TableOK
  <1>2. ASSUME NEW e \in A PROVE e \in B
    <2>1. PICK x \in L : mk[Slot(x)] # {} /\ e = <<mk[Slot(x)], rw[Slot(x)], x>>
      BY <1>2
    <2>2. PICK m \in Tables \ {{}} : m = mk[Slot(x)]
      BY <1>1, <2>1
    <2>3. x \in Having(L, mk, m)
      BY <2>2 DEF Having
    <2>4. rw[Slot(x)] \in 1..Len(rs[m]) /\ rs[m][rw[Slot(x)]] = x
      BY <1>1, <2>3 DEF TableHolds
    <2>5. e \in R(m)
      BY <2>1, <2>2, <2>4
    <2> QED
      BY <2>5
  <1>3. ASSUME NEW e \in B PROVE e \in A
    <2>1. PICK m \in Tables : e \in R(m)
      BY <1>3
    <2>2. PICK k \in 1..Len(rs[m]) : e = <<m, k, rs[m][k]>>
      BY <2>1
    <2>3. m # {}
      <3>1. ASSUME m = {} PROVE FALSE
        <4>1. Len(rs[m]) = 0
          BY <1>1, <3>1
        <4> QED
          BY <2>2, <4>1
      <3> QED
        BY <3>1
    <2>4. rs[m][k] \in Having(L, mk, m) /\ rw[Slot(rs[m][k])] = k
      BY <1>1, <2>3 DEF TableHolds
    <2>5. PICK x : x = rs[m][k]
      OBVIOUS
    <2>6. x \in L /\ mk[Slot(x)] = m
      BY <2>4, <2>5 DEF Having
    <2> QED
      BY <2>2, <2>3, <2>4, <2>5, <2>6
  <1> HIDE DEF A, B
  <1>4. A = B
    BY <1>2, <1>3
  <1> QED
    BY <1>4 DEF A, B

\* Rows and entities agree in every pool.
LEMMA RowsAreConsistent ==
    ASSUME IndInv, RowsHold, NEW p \in Pools
    PROVE  RowsConsistent(p)
  <1>1. TablesOK(Linked(p), mask[p], row[p], rows[p], memory[p], written[p])
    BY DEF RowsHold, RowsIn
  <1>2. \A x \in Linked(p) : Slot(x) \in Slots
    BY FramesNow DEF Ids, Slot
  <1> QED
    BY <1>1, <1>2, RowsAgree DEF RowsConsistent, TableOf, RowOf

\* Every field that is initialised is where its entity finds it.
LEMMA FieldsAreExact ==
    ASSUME IndInv, RowsHold, InitTypes = RowTypes
    PROVE  FieldsExact
  <1> SUFFICES ASSUME NEW p \in Pools, NEW x \in Linked(p), NEW t \in mask[p][Slot(x)]
               PROVE  memory[p][mask[p][Slot(x)]][row[p][Slot(x)]][t] = written[p][Slot(x)][t]
    BY DEF FieldsExact, TableOf, RowOf
  <1>1. TablesOK(Linked(p), mask[p], row[p], rows[p], memory[p], written[p])
    BY DEF RowsHold, RowsIn
  <1>2. PICK m : m = mask[p][Slot(x)]
    OBVIOUS
  <1>3. m \in Tables \ {{}} /\ t \in m /\ t \in InitTypes
    <2>1. Slot(x) \in Slots
      BY FramesNow DEF Ids, Slot
    <2> QED
      BY <1>2, <2>1 DEF RowsHold, RowsTypeOK, Tables
  <1>4. x \in Having(Linked(p), mask[p], m)
    BY <1>2 DEF Having
  <1>5. FieldsHold(Having(Linked(p), mask[p], m), m, row[p], memory[p][m], written[p])
    BY <1>1, <1>3 DEF TablesOK, TableOK
  <1> QED
    BY <1>2, <1>3, <1>4, <1>5 DEF FieldsHold

\* The tables stand in every reachable state.
LEMMA RowInvHolds ==
    ASSUME ~MigratesRows
    PROVE  Spec => []RowInv
  <1>1. Init => RowInv
    BY NewPoolRows
  <1>2. IndInv /\ RowInv /\ [Next]_vars => RowInv'
    BY RowsStep
  <1>3. Spec => []IndInv
    BY InvariantHolds
  <1> QED
    BY <1>1, <1>2, <1>3, PTL DEF Spec

(* Every entity with data-only components has one row, in the table of its *)
(* types, and no other row names it, as long as no entity that is migrated *)
(* has data-only components.                                               *)
THEOREM RowsStayConsistent ==
    ASSUME ~MigratesRows
    PROVE  Spec => [](\A p \in Pools : RowsConsistent(p))
  <1>1. IndInv /\ RowInv => \A p \in Pools : RowsConsistent(p)
    BY RowsAreConsistent DEF RowInv
  <1>2. (Spec => []IndInv) /\ (Spec => []RowInv)
    BY InvariantHolds, RowInvHolds
  <1> QED
    BY <1>1, <1>2, PTL

(* And it finds there the fields it was given last, whatever rows it and   *)
(* others have moved to since and whoever had its row before: when, too,   *)
(* every type has an init function.                                        *)
THEOREM RowsStayExact ==
    ASSUME ~MigratesRows, InitTypes = RowTypes
    PROVE  Spec => []RowsExact
  <1>1. IndInv /\ RowInv => RowsExact
    BY RowsAreConsistent, FieldsAreExact DEF RowInv, RowsExact
  <1>2. (Spec => []IndInv) /\ (Spec => []RowInv)
    BY InvariantHolds, RowInvHolds
  <1> QED
    BY <1>1, <1>2, PTL

-----------------------------------------------------------------------------
(* Who owns a component, and who holds a reference to it: the owners, the  *)
(* arrays, the scene's side and the counts, as one value.                  *)

Ledger == [born |-> born, owner |-> owner, registered |-> registered, refs |-> refs,
           held |-> held, retained |-> retained, comps |-> comps]

Ledgers ==
    [born : SUBSET Components, owner : [Components -> (Pools \X Ids) \cup {NoOwner}],
     registered : [Components -> Pools \cup {NoPool}], refs : [Components -> Nat],
     held : SUBSET Components, retained : [Components -> BOOLEAN],
     comps : [Pools -> [Slots -> Seq(Components)]]]

ArrayOf(l, f) == l.comps[f.pool][Slot(f.id)]
Waits(l, c) == c \in l.born /\ l.owner[c] = NoOwner
Replacing(f) == f.op = "replace" /\ f.stage = "removing"

(* The array of the entity of f is empty from here on. *)
Emptied(f) ==
    \/ f.op = "free" /\ f.stage = "published"
    \/ f.op = "migrate" /\ f.stage # "begin"

(* The components an operation names, by its stage. *)
StagesOK(f) ==
    /\ f.op = "add" => f.stage \in {"resolving", "added"} /\ f.at > 0
    /\ f.op = "replace" => f.stage \in {"removing", "added"}
    /\ f.stage = "resolving" => f.op = "add"
    /\ f.comp # NoComponent <=> f.stage \in {"resolving", "removing", "added"}
    /\ f.other # NoComponent <=> f.op = "replace" \/ (f.op = "remove" /\ f.stage = "published")
    /\ f.op \in {"migrate", "destroy"} => f.comp = NoComponent

(* What an operation in progress may rely on of its components. *)
ArrayHolds(l, f) ==
    /\ Replacing(f) => f.at \in 1..Len(ArrayOf(l, f)) /\ ArrayOf(l, f)[f.at] = f.comp
    /\ Emptied(f) => ArrayOf(l, f) = <<>>

FrameHolds(l, f) ==
    /\ f.stage \in {"removing", "added"} => l.owner[f.comp] = <<f.pool, f.id>>
    /\ f.stage = "resolving" => Waits(l, f.comp) /\ (f.made => f.comp \notin l.held)
    /\ Replacing(f) => Waits(l, f.other)
    /\ ArrayHolds(l, f)

(* The components f leaves to nobody else. *)
WorksOn(f, c) == c = f.comp \/ (f.stage = "removing" /\ c = f.other)

(* g was begun while f was in progress. *)
ApartOK(f, g) ==
    /\ \A c \in Components : c = g.comp \/ c = g.other => ~WorksOn(f, c)
    /\ g.stage = "resolving" /\ g.made => f.other # g.comp
    /\ Replacing(f) /\ g.op \in {"remove", "replace"} /\ f.pool = g.pool => f.id # g.id

(* f waits for g, which it has made because it requires it. *)
BegunOK(f, g) == g.op = "add" /\ g.made => f.stage = "resolving"

FitsOn(l, fs, g) ==
    /\ StagesOK(g) /\ FrameHolds(l, g)
    /\ \A i \in 1..Len(fs) : ApartOK(fs[i], g)
    /\ fs # <<>> => BegunOK(fs[Len(fs)], g)

WorkOK(l, fs) ==
    /\ \A i \in 1..Len(fs) : StagesOK(fs[i]) /\ FrameHolds(l, fs[i])
    /\ \A i, j \in 1..Len(fs) : i < j => ApartOK(fs[i], fs[j])
    /\ \A i \in 1..(Len(fs) - 1) : BegunOK(fs[i], fs[i + 1])

(* The arrays and the owners. *)
OwnedBy(l, p, x) == {c \in Components : l.owner[c] = <<p, x>>}

ArrayIs(list, S) == IsInjective(list) /\ ToSet(list) = S

ArraysOK(l, g) ==
    \A p \in Pools, s \in Slots : ArrayIs(l.comps[p][s], OwnedBy(l, p, <<s, g[p][s]>>))

OwnersLive(l, live) ==
    \A c \in Components : \A p \in Pools : \A x \in Ids : l.owner[c] = <<p, x>> => x \in live[p]

(* The references. *)
Owes(f, c) == f.other = c /\ f.stage # "removing"
OwedIn(fs, c) == Cardinality({i \in 1..Len(fs) : Owes(fs[i], c)})
Removes(f, c) == f.comp = c /\ f.stage = "removing"
RemovedIn(fs, c) == \E i \in 1..Len(fs) : Removes(fs[i], c)
Makes(f, c) == f.comp = c /\ f.made
MadeIn(fs, c) == \E i \in 1..Len(fs) : Makes(fs[i], c)

CountOK(l, fs, c) ==
    /\ l.refs[c] = One(l.owner[c] # NoOwner) + One(c \in l.held) + One(l.retained[c]) + OwedIn(fs, c)
    /\ l.refs[c] > 0 => c \in l.born
    /\ c \in l.born => l.refs[c] > 0 \/ MadeIn(fs, c)

SceneOK(l, fs, c) ==
    /\ l.owner[c] = NoOwner \/ RemovedIn(fs, c) => l.registered[c] = NoPool
    /\ l.owner[c] # NoOwner /\ ~RemovedIn(fs, c) => l.registered[c] = l.owner[c][1]

Settles(l, fs) == \A c \in Components : CountOK(l, fs, c) /\ SceneOK(l, fs, c)

OwnInv ==
    /\ open \subseteq Pools /\ Ledger \in Ledgers
    /\ WorkOK(Ledger, frames)
    /\ ArraysOK(Ledger, gen)
    /\ OwnersLive(Ledger, World.live)
    /\ Settles(Ledger, frames)

\* The fields of the ledger, now and after a step.
LEMMA LedgerNow ==
    /\ Ledger.born = born /\ Ledger.owner = owner /\ Ledger.registered = registered
    /\ Ledger.refs = refs /\ Ledger.held = held /\ Ledger.retained = retained /\ Ledger.comps = comps
    /\ (Ledger').born = born' /\ (Ledger').owner = owner' /\ (Ledger').registered = registered'
    /\ (Ledger').refs = refs' /\ (Ledger').held = held' /\ (Ledger').retained = retained'
    /\ (Ledger').comps = comps'
  BY DEF Ledger

\* The fields of a ledger.
LEMMA LedgerFields ==
    ASSUME NEW l \in Ledgers
    PROVE  /\ l.born \subseteq Components /\ l.held \subseteq Components
           /\ l.owner \in [Components -> (Pools \X Ids) \cup {NoOwner}]
           /\ l.registered \in [Components -> Pools \cup {NoPool}]
           /\ l.refs \in [Components -> Nat] /\ l.retained \in [Components -> BOOLEAN]
           /\ l.comps \in [Pools -> [Slots -> Seq(Components)]]
  BY DEF Ledgers

\* The components of a stack, and of what is beneath its top.
LEMMA WorkOnTop ==
    ASSUME NEW l, NEW fs \in Seq(Frames), NEW g \in Frames
    PROVE  WorkOK(l, Append(fs, g)) <=> WorkOK(l, fs) /\ FitsOn(l, fs, g)
  <1> DEFINE r == Append(fs, g)
             n == Len(fs)
  <1>1. /\ n \in Nat /\ Len(r) = n + 1 /\ r[n + 1] = g
        /\ \A i \in 1..n : r[i] = fs[i]
    BY AppendFacts
  <1>2. /\ \A i \in 1..(n + 1) : i = n + 1 \/ i \in 1..n
        /\ \A i \in 1..n : i \in 1..(n + 1) /\ i < n + 1
        /\ \A i \in 1..(n - 1) : i \in 1..n /\ i + 1 \in 1..n
        /\ n + 1 \in 1..(n + 1)
        /\ fs # <<>> <=> n # 0
    BY <1>1, EmptySeq
  <1> HIDE DEF r, n
  <1>3. ASSUME WorkOK(l, r) PROVE WorkOK(l, fs) /\ FitsOn(l, fs, g)
    <2>1. /\ \A i \in 1..(n + 1) : StagesOK(r[i]) /\ FrameHolds(l, r[i])
          /\ \A i, j \in 1..(n + 1) : i < j => ApartOK(r[i], r[j])
          /\ \A i \in 1..n : BegunOK(r[i], r[i + 1])
      BY <1>1, <1>3 DEF WorkOK
    <2>2. \A i \in 1..n : StagesOK(fs[i]) /\ FrameHolds(l, fs[i]) /\ ApartOK(fs[i], g)
      BY <1>1, <1>2, <2>1
    <2>3. \A i, j \in 1..n : i < j => ApartOK(fs[i], fs[j])
      BY <1>1, <1>2, <2>1
    <2>4. \A i \in 1..(n - 1) : BegunOK(fs[i], fs[i + 1])
      BY <1>1, <1>2, <2>1
    <2>5. fs # <<>> => BegunOK(fs[n], g)
      <3>1. fs # <<>> => n \in 1..n
        BY <1>1, <1>2
      <3> QED
        BY <1>1, <2>1, <3>1
    <2>6. StagesOK(g) /\ FrameHolds(l, g)
      BY <1>1, <1>2, <2>1
    <2> QED
      BY <2>2, <2>3, <2>4, <2>5, <2>6 DEF WorkOK, FitsOn, n
  <1>4. ASSUME WorkOK(l, fs), FitsOn(l, fs, g) PROVE WorkOK(l, r)
    <2>1. /\ \A i \in 1..n : StagesOK(fs[i]) /\ FrameHolds(l, fs[i])
          /\ \A i, j \in 1..n : i < j => ApartOK(fs[i], fs[j])
          /\ \A i \in 1..(n - 1) : BegunOK(fs[i], fs[i + 1])
          /\ StagesOK(g) /\ FrameHolds(l, g)
          /\ \A i \in 1..n : ApartOK(fs[i], g)
          /\ fs # <<>> => BegunOK(fs[n], g)
      BY <1>4 DEF WorkOK, FitsOn, n
    <2>2. \A i \in 1..(n + 1) : StagesOK(r[i]) /\ FrameHolds(l, r[i])
      BY <1>1, <1>2, <2>1
    <2>3. ASSUME NEW i \in 1..(n + 1), NEW j \in 1..(n + 1), i < j PROVE ApartOK(r[i], r[j])
      <3>1. i \in 1..n
        BY <1>1, <2>3
      <3>2. CASE j = n + 1
        BY <1>1, <2>1, <3>1, <3>2
      <3>3. CASE j \in 1..n
        BY <1>1, <2>1, <2>3, <3>1, <3>3
      <3> QED
        BY <1>2, <3>2, <3>3
    <2>4. ASSUME NEW i \in 1..n PROVE BegunOK(r[i], r[i + 1])
      <3>1. CASE i = n
        BY <1>1, <1>2, <2>1, <3>1
      <3>2. CASE i # n
        <4>1. i \in 1..(n - 1) /\ i + 1 \in 1..n
          BY <1>1, <3>2
        <4> QED
          BY <1>1, <2>1, <4>1
      <3> QED
        BY <3>1, <3>2
    <2>5. 1..(Len(r) - 1) = 1..n /\ 1..Len(r) = 1..(n + 1)
      BY <1>1
    <2> QED
      BY <2>2, <2>3, <2>4, <2>5 DEF WorkOK
  <1> QED
    BY <1>3, <1>4 DEF r

\* The operations that are left when the innermost ones are given up.
LEMMA WorkPrefix ==
    ASSUME NEW l, NEW fs \in Seq(Frames), WorkOK(l, fs), NEW k \in 0..Len(fs)
    PROVE  WorkOK(l, SubSeq(fs, 1, k))
  <1> DEFINE r == SubSeq(fs, 1, k)
  <1>1. Len(r) = k /\ (\A i \in 1..k : r[i] = fs[i]) /\ k \in Nat /\ Len(fs) \in Nat /\ k <= Len(fs)
    OBVIOUS
  <1>2. /\ \A i \in 1..k : i \in 1..Len(fs)
        /\ \A i \in 1..(k - 1) : i \in 1..k /\ i + 1 \in 1..k /\ i \in 1..(Len(fs) - 1)
    BY <1>1
  <1> HIDE DEF r
  <1> QED
    BY <1>1, <1>2 DEF WorkOK, r

\* What the operations rely on holds as long as it does for each.
LEMMA WorkStands ==
    ASSUME NEW l, NEW m, NEW fs, WorkOK(l, fs),
           \A i \in 1..Len(fs) : FrameHolds(m, fs[i])
    PROVE  WorkOK(m, fs)
  BY DEF WorkOK

\* The operations that owe a component, remove it or have made it, with one
\* more on top.
LEMMA TallyOnTop ==
    ASSUME NEW fs \in Seq(Frames), NEW g \in Frames, NEW c
    PROVE  /\ OwedIn(fs, c) \in Nat
           /\ OwedIn(Append(fs, g), c) = OwedIn(fs, c) + One(Owes(g, c))
           /\ RemovedIn(Append(fs, g), c) <=> RemovedIn(fs, c) \/ Removes(g, c)
           /\ MadeIn(Append(fs, g), c) <=> MadeIn(fs, c) \/ Makes(g, c)
  <1> DEFINE r == Append(fs, g)
             n == Len(fs)
             I == {i \in 1..n : Owes(fs[i], c)}
             J == {i \in 1..Len(r) : Owes(r[i], c)}
  <1>1. /\ n \in Nat /\ Len(r) = n + 1 /\ r[n + 1] = g
        /\ \A i \in 1..n : r[i] = fs[i]
    BY AppendFacts
  <1>2. /\ \A i \in 1..(n + 1) : i = n + 1 \/ i \in 1..n
        /\ \A i \in 1..n : i \in 1..(n + 1)
        /\ n + 1 \in 1..(n + 1) /\ n + 1 \notin 1..n
    BY <1>1
  <1>3. IsFiniteSet(I) /\ Cardinality(I) \in Nat
    <2>1. IsFiniteSet(1..n)
      BY <1>1, FS_Interval
    <2>2. I \subseteq 1..n
      OBVIOUS
    <2> QED
      BY <2>1, <2>2, FS_Subset, FS_CardinalityType
  <1> HIDE DEF r, n
  <1>4. J = IF Owes(g, c) THEN I \cup {n + 1} ELSE I
    BY <1>1, <1>2
  <1>5. n + 1 \notin I
    BY <1>2
  <1>6. Cardinality(J) = Cardinality(I) + One(Owes(g, c))
    <2> HIDE DEF I, J
    <2>1. CASE Owes(g, c)
      <3>1. Cardinality(I \cup {n + 1}) = Cardinality(I) + 1
        BY <1>3, <1>5, FS_AddElement
      <3> QED
        BY <1>4, <2>1, <3>1 DEF One
    <2>2. CASE ~Owes(g, c)
      BY <1>3, <1>4, <2>2 DEF One
    <2> QED
      BY <2>1, <2>2
  <1>7. RemovedIn(r, c) <=> RemovedIn(fs, c) \/ Removes(g, c)
    BY <1>1, <1>2 DEF RemovedIn, n
  <1>8. MadeIn(r, c) <=> MadeIn(fs, c) \/ Makes(g, c)
    BY <1>1, <1>2 DEF MadeIn, n
  <1>9. OwedIn(r, c) = Cardinality(J) /\ OwedIn(fs, c) = Cardinality(I)
    BY DEF OwedIn, n
  <1> QED
    BY <1>3, <1>6, <1>7, <1>8, <1>9 DEF r

\* The tallies of two stacks that differ in what says nothing of a component.
LEMMA TallyOfPrefix ==
    ASSUME NEW fs \in Seq(Frames), NEW k \in 0..Len(fs), NEW c,
           \A i \in (k + 1)..Len(fs) : ~Owes(fs[i], c) /\ ~Removes(fs[i], c)
    PROVE  /\ OwedIn(SubSeq(fs, 1, k), c) = OwedIn(fs, c)
           /\ RemovedIn(SubSeq(fs, 1, k), c) <=> RemovedIn(fs, c)
           /\ MadeIn(fs, c) =>
                MadeIn(SubSeq(fs, 1, k), c) \/ \E i \in (k + 1)..Len(fs) : Makes(fs[i], c)
  <1> DEFINE r == SubSeq(fs, 1, k)
             n == Len(fs)
  <1>1. Len(r) = k /\ (\A i \in 1..k : r[i] = fs[i]) /\ k \in Nat /\ n \in Nat /\ k <= n
    OBVIOUS
  <1>2. /\ \A i \in 1..n : i \in 1..k \/ i \in (k + 1)..n
        /\ \A i \in 1..k : i \in 1..n
    BY <1>1
  <1> HIDE DEF r, n
  <1>3. {i \in 1..k : Owes(r[i], c)} = {i \in 1..n : Owes(fs[i], c)}
    BY <1>1, <1>2 DEF n
  <1>4. OwedIn(r, c) = OwedIn(fs, c)
    BY <1>1, <1>3 DEF OwedIn, n
  <1>5. RemovedIn(r, c) <=> RemovedIn(fs, c)
    BY <1>1, <1>2 DEF RemovedIn, n
  <1>6. MadeIn(fs, c) => MadeIn(r, c) \/ \E i \in (k + 1)..n : Makes(fs[i], c)
    BY <1>1, <1>2 DEF MadeIn, n
  <1> QED
    BY <1>4, <1>5, <1>6 DEF r, n

\* Nothing is owed when no operation owes it, and something when one does.
LEMMA NothingOwed ==
    ASSUME NEW fs \in Seq(Frames), NEW c
    PROVE  /\ OwedIn(fs, c) \in Nat
           /\ OwedIn(fs, c) = 0 <=> \A i \in 1..Len(fs) : ~Owes(fs[i], c)
  <1> DEFINE I == {i \in 1..Len(fs) : Owes(fs[i], c)}
  <1>1. IsFiniteSet(I)
    <2>1. IsFiniteSet(1..Len(fs)) /\ I \subseteq 1..Len(fs)
      BY FS_Interval
    <2> QED
      BY <2>1, FS_Subset
  <1>2. Cardinality(I) \in Nat /\ (Cardinality(I) = 0 <=> I = {})
    BY <1>1, FS_CardinalityType, FS_EmptySet
  <1> QED
    BY <1>2 DEF OwedIn

-----------------------------------------------------------------------------
(* What stands when the ledger changes elsewhere.                          *)

Extends(a, b) ==
    /\ Len(a) \in Nat /\ Len(b) \in Nat /\ Len(a) <= Len(b)
    /\ \A k \in 1..Len(a) : b[k] = a[k]

(* The component is where it was for the operation that works on it.       *)
StaysFor(l, m, c) ==
    /\ m.owner[c] = l.owner[c]
    /\ Waits(l, c) => c \in m.born
    /\ Waits(l, c) /\ c \in m.held => c \in l.held

(* The array of the entity of f is as f needs it.                          *)
ArrayStays(l, m, f) ==
    /\ Replacing(f) => Extends(ArrayOf(l, f), ArrayOf(m, f))
    /\ Emptied(f) => ArrayOf(m, f) = <<>>

LeavesAlone(l, m, f) ==
    /\ \A c \in Components : WorksOn(f, c) => StaysFor(l, m, c)
    /\ ArrayStays(l, m, f)

\* The array an operation relies on has been added to, at most.
LEMMA ArrayHoldsStill ==
    ASSUME NEW l, NEW m, NEW f \in Frames, ArrayHolds(l, f), ArrayStays(l, m, f)
    PROVE  ArrayHolds(m, f)
  <1> DEFINE a == ArrayOf(l, f)
             b == ArrayOf(m, f)
  <1>1. Replacing(f) => Extends(a, b)
    BY DEF ArrayStays
  <1>2. Emptied(f) => b = <<>>
    BY DEF ArrayStays
  <1>3. Replacing(f) => f.at \in 1..Len(a) /\ a[f.at] = f.comp
    BY DEF ArrayHolds
  <1> HIDE DEF a, b
  <1>4. Replacing(f) => f.at \in 1..Len(b) /\ b[f.at] = f.comp
    BY <1>1, <1>3 DEF Extends
  <1> QED
    BY <1>2, <1>4 DEF ArrayHolds, a, b

\* What an operation may rely on, when its components are left alone.
LEMMA FrameStands ==
    ASSUME NEW l, NEW m, NEW f \in Frames, StagesOK(f), FrameHolds(l, f), LeavesAlone(l, m, f)
    PROVE  FrameHolds(m, f)
  <1>1. ArrayHolds(m, f)
    BY ArrayHoldsStill DEF FrameHolds, LeavesAlone
  <1>2. f.stage \in {"resolving", "removing", "added"} => f.comp \in Components /\ StaysFor(l, m, f.comp)
    <2>1. f.stage \in {"resolving", "removing", "added"} => f.comp \in Components
      BY FrameFields DEF StagesOK
    <2> QED
      BY <2>1 DEF LeavesAlone, WorksOn
  <1>3. Replacing(f) => f.other \in Components /\ StaysFor(l, m, f.other)
    <2>1. Replacing(f) => f.other \in Components /\ f.stage = "removing"
      BY FrameFields DEF StagesOK, Replacing
    <2> QED
      BY <2>1 DEF LeavesAlone, WorksOn
  <1>4. f.stage \in {"removing", "added"} => m.owner[f.comp] = <<f.pool, f.id>>
    BY <1>2 DEF FrameHolds, StaysFor
  <1>5. f.stage = "resolving" => Waits(m, f.comp) /\ (f.made => f.comp \notin m.held)
    BY <1>2 DEF FrameHolds, StaysFor, Waits
  <1>6. Replacing(f) => Waits(m, f.other)
    BY <1>3 DEF FrameHolds, StaysFor, Waits
  <1> QED
    BY <1>1, <1>4, <1>5, <1>6 DEF FrameHolds

(* What is entered for c is the same in m as in l, and in hs as in fs.     *)
SameEntry(l, m, c) ==
    /\ m.owner[c] = l.owner[c] /\ m.registered[c] = l.registered[c]
    /\ m.refs[c] = l.refs[c] /\ m.retained[c] = l.retained[c]
    /\ c \in m.held <=> c \in l.held
    /\ c \in m.born <=> c \in l.born

SameTally(l, fs, hs, c) ==
    /\ OwedIn(hs, c) = OwedIn(fs, c)
    /\ RemovedIn(hs, c) <=> RemovedIn(fs, c)
    /\ MadeIn(fs, c) => MadeIn(hs, c) \/ l.refs[c] > 0

\* Nothing has changed for this component.
LEMMA EntryStands ==
    ASSUME NEW l, NEW m, NEW fs, NEW hs, NEW c, CountOK(l, fs, c), SceneOK(l, fs, c),
           SameEntry(l, m, c), SameTally(l, fs, hs, c)
    PROVE  CountOK(m, hs, c) /\ SceneOK(m, hs, c)
  <1>1. CountOK(m, hs, c)
    BY DEF CountOK, SameEntry, SameTally
  <1>2. SceneOK(m, hs, c)
    BY DEF SceneOK, SameEntry, SameTally
  <1> QED
    BY <1>1, <1>2

\* The top frame says of a component what the one in its place does.
LEMMA TallyInstead ==
    ASSUME NEW l, NEW fs \in Seq(Frames), NEW g \in Frames, NEW h \in Frames, NEW c,
           Owes(g, c) <=> Owes(h, c), Removes(g, c) <=> Removes(h, c),
           Makes(g, c) => Makes(h, c) \/ l.refs[c] > 0
    PROVE  SameTally(l, Append(fs, g), Append(fs, h), c)
  <1>1. One(Owes(g, c)) = One(Owes(h, c))
    BY DEF One
  <1>2. /\ OwedIn(Append(fs, g), c) = OwedIn(fs, c) + One(Owes(g, c))
        /\ RemovedIn(Append(fs, g), c) <=> RemovedIn(fs, c) \/ Removes(g, c)
        /\ MadeIn(Append(fs, g), c) <=> MadeIn(fs, c) \/ Makes(g, c)
    BY TallyOnTop
  <1>3. /\ OwedIn(Append(fs, h), c) = OwedIn(fs, c) + One(Owes(h, c))
        /\ RemovedIn(Append(fs, h), c) <=> RemovedIn(fs, c) \/ Removes(h, c)
        /\ MadeIn(Append(fs, h), c) <=> MadeIn(fs, c) \/ Makes(h, c)
    BY TallyOnTop
  <1> QED
    BY <1>1, <1>2, <1>3 DEF SameTally

\* A frame that says nothing of a component is begun, or ends.
LEMMA TallyWithout ==
    ASSUME NEW l, NEW fs \in Seq(Frames), NEW g \in Frames, NEW c,
           ~Owes(g, c), ~Removes(g, c)
    PROVE  /\ SameTally(l, fs, Append(fs, g), c)
           /\ (Makes(g, c) => l.refs[c] > 0) => SameTally(l, Append(fs, g), fs, c)
  <1>1. One(Owes(g, c)) = 0
    BY DEF One
  <1>2. /\ OwedIn(fs, c) \in Nat
        /\ OwedIn(Append(fs, g), c) = OwedIn(fs, c) + One(Owes(g, c))
        /\ RemovedIn(Append(fs, g), c) <=> RemovedIn(fs, c) \/ Removes(g, c)
        /\ MadeIn(Append(fs, g), c) <=> MadeIn(fs, c) \/ Makes(g, c)
    BY TallyOnTop
  <1> QED
    BY <1>1, <1>2 DEF SameTally

-----------------------------------------------------------------------------
(* The arrays.                                                             *)

(* A component stands in the array of its owner, which is alive, and the   *)
(* array of an entity that is not is empty.                                *)
OwnersAre(l, g, live, p) ==
    /\ \A c \in Components : \A x \in Ids :
         l.owner[c] = <<p, x>> =>
             /\ x \in live[p] /\ Slot(x) \in Slots /\ x = <<Slot(x), g[p][Slot(x)]>>
             /\ c \in ToSet(l.comps[p][Slot(x)])
    /\ \A s \in Slots :
         /\ l.comps[p][s] \in Seq(Components) /\ IsInjective(l.comps[p][s])
         /\ <<s, g[p][s]>> \in Ids
         /\ \A c \in Components :
              c \in ToSet(l.comps[p][s]) <=> l.owner[c] = <<p, <<s, g[p][s]>>>>
         /\ <<s, g[p][s]>> \notin live[p] => l.comps[p][s] = <<>>

\* It is what the ledger says of a pool.
LEMMA OwnersFacts ==
    ASSUME NEW l \in Ledgers, NEW g \in [Pools -> [Slots -> Nat]], NEW live,
           ArraysOK(l, g), OwnersLive(l, live),
           NEW p \in Pools, Stamped(live[p], g[p])
    PROVE  OwnersAre(l, g, live, p)
  <1>1. \A s \in Slots : /\ l.comps[p][s] \in Seq(Components) /\ g[p] \in [Slots -> Nat]
                         /\ ArrayIs(l.comps[p][s], OwnedBy(l, p, <<s, g[p][s]>>))
    BY LedgerFields DEF ArraysOK
  <1>2. \A s \in Slots :
           /\ IsInjective(l.comps[p][s])
           /\ \A c \in Components :
                c \in ToSet(l.comps[p][s]) <=> l.owner[c] = <<p, <<s, g[p][s]>>>>
    BY <1>1 DEF ArrayIs, OwnedBy
  <1>3. \A s \in Slots : <<s, g[p][s]>> \in Ids
    BY <1>1 DEF Ids
  <1>4. ASSUME NEW c \in Components, NEW x \in Ids, l.owner[c] = <<p, x>>
        PROVE  /\ x \in live[p] /\ Slot(x) \in Slots /\ x = <<Slot(x), g[p][Slot(x)]>>
               /\ c \in ToSet(l.comps[p][Slot(x)])
    <2>1. x \in live[p]
      BY <1>4 DEF OwnersLive
    <2>2. x = <<Slot(x), g[p][Slot(x)]>> /\ Slot(x) \in Slots
      BY <2>1 DEF Stamped, Ids, Slot
    <2> QED
      BY <1>2, <1>4, <2>1, <2>2
  <1>5. ASSUME NEW s \in Slots, <<s, g[p][s]>> \notin live[p] PROVE l.comps[p][s] = <<>>
    <2> DEFINE list == l.comps[p][s]
    <2>1. \A c \in Components : c \notin ToSet(list)
      BY <1>2, <1>3, <1>5 DEF OwnersLive
    <2>2. list \in Seq(Components)
      BY <1>1
    <2> HIDE DEF list
    <2>4. ToSet(list) = {list[i] : i \in 1..Len(list)} /\ ToSet(list) \subseteq Components
      BY <2>2, ToSetFacts
    <2>3. ASSUME list # <<>> PROVE FALSE
      <3>1. Len(list) \in Nat \ {0}
        BY <2>2, <2>3, EmptySeq
      <3>2. list[1] \in ToSet(list)
        BY <2>4, <3>1
      <3> QED
        BY <2>1, <2>4, <3>2
    <2> QED
      BY <2>3 DEF list
  <1> QED
    BY <1>1, <1>2, <1>3, <1>4, <1>5 DEF OwnersAre

\* One array changes, and the owner of nothing that is not in it.
LEMMA OneArrayOwned ==
    ASSUME NEW l, NEW m, NEW g \in [Pools -> [Slots -> Nat]], ArraysOK(l, g), NEW p \in Pools, NEW s \in Slots,
           \A q \in Pools, r \in Slots : q # p \/ r # s => m.comps[q][r] = l.comps[q][r],
           ArrayIs(m.comps[p][s], OwnedBy(m, p, <<s, g[p][s]>>)),
           \A c \in Components : m.owner[c] # l.owner[c] =>
              /\ l.owner[c] \in {NoOwner, <<p, <<s, g[p][s]>>>>}
              /\ m.owner[c] \in {NoOwner, <<p, <<s, g[p][s]>>>>}
    PROVE  ArraysOK(m, g)
  <1>1. \A q \in Pools, r \in Slots : <<q, <<r, g[q][r]>>>> # NoOwner
    <2>1. \A q \in Pools, r \in Slots : <<r, g[q][r]>> \in Ids
      BY DEF Ids
    <2> QED
      BY <2>1, PoolAssumption
  <1>2. ASSUME NEW q \in Pools, NEW r \in Slots, q # p \/ r # s
        PROVE  ArrayIs(m.comps[q][r], OwnedBy(m, q, <<r, g[q][r]>>))
    <2>1. OwnedBy(m, q, <<r, g[q][r]>>) = OwnedBy(l, q, <<r, g[q][r]>>)
      <3>1. <<q, <<r, g[q][r]>>>> \notin {NoOwner, <<p, <<s, g[p][s]>>>>}
        BY <1>1, <1>2
      <3> DEFINE o == <<q, <<r, g[q][r]>>>>
                 y == <<p, <<s, g[p][s]>>>>
      <3>2. o \notin {NoOwner, y}
        BY <3>1
      <3> HIDE DEF o, y
      <3>3. \A c \in Components : m.owner[c] = o <=> l.owner[c] = o
        BY <3>2 DEF y
      <3> QED
        BY <3>3 DEF OwnedBy, o
    <2>2. m.comps[q][r] = l.comps[q][r] /\ ArrayIs(l.comps[q][r], OwnedBy(l, q, <<r, g[q][r]>>))
      BY <1>2 DEF ArraysOK
    <2> QED
      BY <2>1, <2>2
  <1> QED
    BY <1>2 DEF ArraysOK

-----------------------------------------------------------------------------
(* The operations in progress, and what is beneath the innermost one.      *)

\* The live ids, the generations and the ledger of a state.
LEMMA LiveNow ==
    ASSUME IndInv, NEW p \in Pools
    PROVE  /\ World.live[p] = Live(p) /\ Live(p) = LiveOf(alive[p], gen[p])
           /\ Live(p)' = LiveOf(alive'[p], gen'[p]) /\ (World').live[p] = Live(p)'
           /\ Live(p) \subseteq Ids /\ Stamped(Live(p), gen[p])
           /\ gen \in [Pools -> [Slots -> Nat]] /\ alive \in [Pools -> [Slots -> BOOLEAN]]
           /\ \A x, y \in Live(p) : Slot(x) = Slot(y) => x = y
           /\ \A x \in Ids : Slot(x) \in Slots /\ (x \in Live(p) => x = <<Slot(x), gen[p][Slot(x)]>>)
  <1> DEFINE L == Live(p)
             g == gen[p]
  <1>1. /\ L \subseteq Ids /\ Stamped(L, g) /\ g \in [Slots -> Nat]
        /\ gen \in [Pools -> [Slots -> Nat]] /\ alive \in [Pools -> [Slots -> BOOLEAN]]
    BY WorldIsSane DEF IndInv, Typed, PoolsTyped
  <1> HIDE DEF L, g
  <1>2. /\ \A x, y \in L : Slot(x) = Slot(y) => x = y
        /\ \A x \in L : x = <<Slot(x), g[Slot(x)]>>
    BY <1>1, StampedFacts
  <1>3. \A x \in Ids : Slot(x) \in Slots
    BY DEF Ids, Slot
  <1> QED
    BY <1>1, <1>2, <1>3, WorldNow DEF L, g

\* A frame of the stack: its entity is alive and its array is a list.
LEMMA FrameNow ==
    ASSUME IndInv, OwnInv, NEW i \in 1..Len(frames)
    PROVE  /\ frames[i] \in Frames /\ frames[i].pool \in Pools
           /\ StagesOK(frames[i]) /\ FrameHolds(Ledger, frames[i])
           /\ frames[i].op # "destroy" =>
                /\ frames[i].id \in Live(frames[i].pool) /\ frames[i].id \in Ids
                /\ Slot(frames[i].id) \in Slots
                /\ ArrayOf(Ledger, frames[i]) = comps[frames[i].pool][Slot(frames[i].id)]
                /\ ArrayOf(Ledger, frames[i]) \in Seq(Components)
           /\ Emptied(frames[i]) => frames[i].op # "destroy" /\ ArrayOf(Ledger, frames[i]) = <<>>
  <1> DEFINE f == frames[i]
  <1>1. f \in Frames /\ FrameOK(World, f) /\ f.pool \in Pools
    BY ProperNow, FrameFields DEF Proper, StackOK
  <1>2. StagesOK(f) /\ FrameHolds(Ledger, f)
    BY DEF OwnInv, WorkOK
  <1> HIDE DEF f
  <1>3. ASSUME f.op # "destroy" PROVE f.id \in Live(f.pool) /\ f.id \in Ids /\ Slot(f.id) \in Slots
    BY <1>1, <1>3, LiveNow DEF FrameOK
  <1>4. ArrayOf(Ledger, f) = comps[f.pool][Slot(f.id)]
    BY LedgerNow DEF ArrayOf
  <1>5. comps \in [Pools -> [Slots -> Seq(Components)]]
    BY DEF IndInv, Typed
  <1>6. Emptied(f) => f.op # "destroy" /\ ArrayOf(Ledger, f) = <<>>
    BY <1>2 DEF Emptied, FrameHolds, ArrayHolds
  <1> QED
    BY <1>1, <1>2, <1>3, <1>4, <1>5, <1>6 DEF f

\* An array nobody has changed.
LEMMA SameArray ==
    ASSUME IndInv, OwnInv, NEW i \in 1..Len(frames), NEW m,
           frames[i].op # "destroy" => ArrayOf(m, frames[i]) = ArrayOf(Ledger, frames[i])
    PROVE  ArrayStays(Ledger, m, frames[i])
  <1> DEFINE f == frames[i]
             a == ArrayOf(Ledger, f)
  <1>1. /\ f.op # "destroy" => a \in Seq(Components) /\ ArrayOf(m, f) = a
        /\ Emptied(f) => f.op # "destroy" /\ a = <<>>
    BY FrameNow
  <1> HIDE DEF a, f
  <1>2. f.op # "destroy" => Extends(a, a)
    BY <1>1 DEF Extends
  <1>3. ArrayStays(Ledger, m, f)
    BY <1>1, <1>2 DEF ArrayStays, Replacing, a
  <1> QED
    BY <1>3 DEF f

\* The innermost operation, and the others beneath it.
LEMMA TopWork ==
    ASSUME IndInv, OwnInv, frames # <<>>
    PROVE  /\ Top \in Frames /\ Popped \in Seq(Frames) /\ frames = Append(Popped, Top)
           /\ Ledger \in Ledgers /\ WorkOK(Ledger, Popped) /\ FitsOn(Ledger, Popped, Top)
           /\ StagesOK(Top) /\ FrameHolds(Ledger, Top)
           /\ Settles(Ledger, Append(Popped, Top))
           /\ \A i \in 1..Len(Popped) : Popped[i] \in Frames /\ ApartOK(Popped[i], Top)
           /\ \A g \in Frames : [frames EXCEPT ![Depth] = g] = Append(Popped, g)
  <1>1. /\ Top \in Frames /\ Popped \in Seq(Frames) /\ frames = Append(Popped, Top)
        /\ \A g \in Frames : [frames EXCEPT ![Depth] = g] = Append(Popped, g)
        /\ \A i \in 1..Len(Popped) : Popped[i] \in Frames
    BY TopNow, Beneath
  <1>2. Ledger \in Ledgers /\ WorkOK(Ledger, frames) /\ Settles(Ledger, frames)
    BY DEF OwnInv
  <1>3. WorkOK(Ledger, Append(Popped, Top)) /\ Settles(Ledger, Append(Popped, Top))
    BY <1>1, <1>2
  <1>4. WorkOK(Ledger, Popped) /\ FitsOn(Ledger, Popped, Top)
    BY <1>1, <1>3, WorkOnTop
  <1>5. /\ StagesOK(Top) /\ FrameHolds(Ledger, Top)
        /\ \A i \in 1..Len(Popped) : ApartOK(Popped[i], Top)
    BY <1>4 DEF FitsOn
  <1> QED
    BY <1>1, <1>2, <1>3, <1>4, <1>5

\* What is beneath works on other entities, unless a component is added.
LEMMA BelowTop ==
    ASSUME IndInv, OwnInv, frames # <<>>, NEW i \in 1..Len(Popped), NEW f, f = Popped[i]
    PROVE  /\ i \in 1..Len(frames) /\ f = frames[i] /\ f \in Frames
           /\ Replacing(f) /\ f.pool = Top.pool /\ f.id = Top.id => Top.op = "add"
           /\ Emptied(f) /\ f.pool = Top.pool => f.id # Top.id
           /\ Top.op = "migrate" =>
                /\ f.comp # NoComponent /\ f.pool = Top.pool => f.id # Top.id
                /\ f.op # "destroy" /\ f.pool = Top.to => f.id # Top.copy
           /\ Top.op = "free" /\ f.comp # NoComponent /\ f.pool = Top.pool => f.id # Top.id
  <1>1. /\ f = frames[i] /\ f \in Frames /\ PairOK(f, Top) /\ Top \in Frames
        /\ i \in 1..Len(frames) /\ ApartOK(f, Top) /\ Depth \in 1..Len(frames) /\ Top = frames[Depth]
    <2>1. /\ f = frames[i] /\ f \in Frames /\ PairOK(f, Top) /\ ApartOK(f, Top)
          /\ Len(Popped) = Depth - 1
      BY Beneath, TopWork
    <2>2. /\ Top \in Frames /\ Depth = Len(frames) /\ Len(frames) \in Nat \ {0}
          /\ Top = frames[Depth]
      BY TopNow
    <2> QED
      BY <2>1, <2>2
  <1>2. StagesOK(f)
    BY <1>1, FrameNow
  <1>3. ASSUME Top.op = "migrate", f.comp # NoComponent, f.pool = Top.pool PROVE f.id # Top.id
    <2>1. f.op \notin {"migrate", "destroy"}
      BY <1>2, <1>3 DEF StagesOK
    <2>2. Apart(World, frames, Top)
      BY <1>1, <1>3, ProperNow DEF Proper, MovesApart
    <2>3. PICK C : /\ Top.id \in C
                   /\ \A k \in 1..Len(frames) :
                        frames[k].pool = Top.pool /\ frames[k].op \notin {"migrate", "destroy"}
                          => frames[k].id \notin C
      BY <2>2 DEF Apart
    <2> QED
      BY <1>1, <1>3, <2>1, <2>3
  <1>4. ASSUME Top.op = "migrate", f.op # "destroy", f.pool = Top.to PROVE f.id # Top.copy
    <2>1. FrameOK(World, Top)
      BY TopNow
    <2> QED
      BY <1>1, <1>4, <2>1 DEF PairOK, FrameOK, MigrationOK
  <1>5. Top.op = "free" /\ f.comp # NoComponent /\ f.pool = Top.pool => f.id # Top.id
    BY <1>1, <1>2 DEF PairOK, StagesOK
  <1>6. Emptied(f) /\ f.pool = Top.pool => f.id # Top.id
    BY <1>1 DEF PairOK, Emptied
  <1>7. ASSUME Replacing(f), f.pool = Top.pool, f.id = Top.id PROVE Top.op = "add"
    <2>1. f.comp # NoComponent
      BY <1>2, <1>7 DEF StagesOK, Replacing
    <2>2. Top.op \notin {"remove", "replace"}
      BY <1>1, <1>7 DEF ApartOK
    <2>3. Top.op # "free" /\ Top.op # "migrate"
      BY <1>3, <1>5, <1>7, <2>1
    <2>4. Top.op # "destroy"
      BY <1>1, <1>7 DEF PairOK, Replacing
    <2>5. Top.op \in {"free", "remove", "add", "replace", "migrate", "destroy"}
      BY <1>1 DEF Frames
    <2> QED
      BY <2>2, <2>3, <2>4, <2>5
  <1> QED
    BY <1>1, <1>3, <1>4, <1>5, <1>6, <1>7

\* The innermost operation changes the array of its entity only: those
\* beneath find theirs as they need it.
LEMMA ArraysBeneath ==
    ASSUME IndInv, OwnInv, frames # <<>>, Top.op # "destroy", NEW m,
           \A q \in Pools, r \in Slots :
              q # Top.pool \/ r # Slot(Top.id) => m.comps[q][r] = comps[q][r],
           Top.op = "add" => Extends(comps[Top.pool][Slot(Top.id)], m.comps[Top.pool][Slot(Top.id)])
    PROVE  \A i \in 1..Len(Popped) : ArrayStays(Ledger, m, Popped[i])
  <1> SUFFICES ASSUME NEW i \in 1..Len(Popped) PROVE ArrayStays(Ledger, m, Popped[i])
    OBVIOUS
  <1> DEFINE f == Popped[i]
             t == Top
  <1>1. /\ i \in 1..Len(frames) /\ f = frames[i] /\ f \in Frames
        /\ Replacing(f) /\ f.pool = t.pool /\ f.id = t.id => t.op = "add"
        /\ Emptied(f) /\ f.pool = t.pool => f.id # t.id
    BY BelowTop
  <1>2. /\ f.pool \in Pools
        /\ f.op # "destroy" =>
             /\ f.id \in Live(f.pool) /\ Slot(f.id) \in Slots
             /\ ArrayOf(Ledger, f) = comps[f.pool][Slot(f.id)]
             /\ ArrayOf(Ledger, f) \in Seq(Components)
        /\ Emptied(f) => f.op # "destroy" /\ ArrayOf(Ledger, f) = <<>>
    BY <1>1, FrameNow
  <1>3. t.pool \in Pools /\ t.id \in Live(t.pool)
    BY TopNow
  <1>4. f.op # "destroy" /\ f.pool = t.pool /\ Slot(f.id) = Slot(t.id) => f.id = t.id
    BY <1>2, <1>3, LiveNow
  <1>5. t.op = "add" => Extends(comps[t.pool][Slot(t.id)], m.comps[t.pool][Slot(t.id)])
    OBVIOUS
  <1>6. \A q \in Pools, r \in Slots : q # t.pool \/ r # Slot(t.id) => m.comps[q][r] = comps[q][r]
    OBVIOUS
  <1> HIDE DEF f, t
  <1>7. CASE f.op # "destroy" /\ f.pool = t.pool /\ f.id = t.id
    <2>1. ~Emptied(f)
      BY <1>1, <1>7
    <2>2. Replacing(f) => Extends(ArrayOf(Ledger, f), ArrayOf(m, f))
      BY <1>1, <1>2, <1>5, <1>7 DEF ArrayOf
    <2>3. ArrayStays(Ledger, m, f)
      BY <2>1, <2>2 DEF ArrayStays
    <2> QED
      BY <2>3 DEF f
  <1>8. CASE f.op = "destroy" \/ f.pool # t.pool \/ f.id # t.id
    <2>1. f.op # "destroy" => ArrayOf(m, f) = ArrayOf(Ledger, f)
      BY <1>2, <1>4, <1>6, <1>8 DEF ArrayOf
    <2>2. ArrayStays(Ledger, m, frames[i])
      BY <1>1, <2>1, SameArray
    <2> QED
      BY <1>1, <2>2 DEF f
  <1> QED
    BY <1>7, <1>8

\* The operations beneath, when the innermost one changes the ledger.
LEMMA WorkBeneath ==
    ASSUME IndInv, OwnInv, frames # <<>>, NEW m,
           \A i \in 1..Len(Popped) : ArrayStays(Ledger, m, Popped[i]),
           \A i \in 1..Len(Popped) : \A c \in Components :
              WorksOn(Popped[i], c) => StaysFor(Ledger, m, c)
    PROVE  WorkOK(m, Popped)
  <1>1. ASSUME NEW i \in 1..Len(Popped) PROVE FrameHolds(m, Popped[i])
    <2> DEFINE f == Popped[i]
    <2>1. i \in 1..Len(frames) /\ f = frames[i]
      BY BelowTop
    <2>2. f \in Frames /\ StagesOK(f) /\ FrameHolds(Ledger, f)
      BY <2>1, FrameNow
    <2>3. LeavesAlone(Ledger, m, f)
      BY DEF LeavesAlone
    <2> HIDE DEF f
    <2>4. FrameHolds(m, f)
      BY <2>2, <2>3, FrameStands
    <2> QED
      BY <2>4 DEF f
  <1> QED
    BY <1>1, TopWork, WorkStands

\* All operations in progress, when the host changes the ledger.
LEMMA WorkOfAll ==
    ASSUME IndInv, OwnInv, NEW m,
           \A i \in 1..Len(frames) : LeavesAlone(Ledger, m, frames[i])
    PROVE  WorkOK(m, frames)
  <1>1. ASSUME NEW i \in 1..Len(frames) PROVE FrameHolds(m, frames[i])
    BY FrameNow, FrameStands
  <1> QED
    BY <1>1, WorkStands DEF OwnInv

-----------------------------------------------------------------------------
(* Steps that change no owner, array or count.                             *)

Steady ==
    /\ Ledger' = Ledger
    /\ open' \subseteq Pools /\ gen' = gen
    /\ \A p \in Pools : Live(p) \subseteq Live(p)'

\* A free, a destruction or a migration that works on no component.
Plain(g) ==
    /\ g.op \in {"free", "destroy", "migrate"}
    /\ g.stage \notin {"resolving", "removing", "added"}
    /\ g.comp = NoComponent /\ g.other = NoComponent

LEMMA PlainFrame ==
    ASSUME NEW l, NEW fs \in Seq(Frames), NEW g \in Frames, Plain(g),
           Emptied(g) => ArrayOf(l, g) = <<>>
    PROVE  /\ FitsOn(l, fs, g)
           /\ \A c \in Components : ~Owes(g, c) /\ ~Removes(g, c) /\ ~Makes(g, c)
  <1>1. NoComponent \notin Components
    BY PoolAssumption
  <1>2. /\ g.op # "add" /\ g.op # "replace" /\ g.op # "remove"
        /\ g.stage # "resolving" /\ g.stage # "removing" /\ g.stage # "added"
        /\ g.comp = NoComponent /\ g.other = NoComponent
    BY DEF Plain
  <1>3. StagesOK(g)
    BY <1>2 DEF StagesOK
  <1>4. FrameHolds(l, g)
    BY <1>2 DEF FrameHolds, ArrayHolds, Replacing
  <1>5. \A f : ApartOK(f, g) /\ BegunOK(f, g)
    BY <1>1, <1>2 DEF ApartOK, BegunOK
  <1> QED
    BY <1>1, <1>2, <1>3, <1>4, <1>5 DEF FitsOn, Owes, Removes, Makes

\* The ledger is what it was, the operations have what they rely on, and owe,
\* remove and have made what they did.
LEMMA LedgerStands ==
    ASSUME IndInv, OwnInv, Steady, WorkOK(Ledger, frames'),
           \A c \in Components : SameTally(Ledger, frames, frames', c)
    PROVE  OwnInv'
  <1>1. Ledger' = Ledger /\ gen' = gen /\ open' \subseteq Pools
    BY DEF Steady
  <1>2. ASSUME NEW c \in Components
        PROVE  CountOK(Ledger, frames', c) /\ SceneOK(Ledger, frames', c)
    <2>1. CountOK(Ledger, frames, c) /\ SceneOK(Ledger, frames, c)
      BY DEF OwnInv, Settles
    <2>2. SameEntry(Ledger, Ledger, c)
      BY DEF SameEntry
    <2> QED
      BY <2>1, <2>2, EntryStands
  <1>3. Settles(Ledger', frames')
    BY <1>1, <1>2 DEF Settles
  <1>4. OwnersLive(Ledger', (World').live)
    <2>1. \A p \in Pools : World.live[p] \subseteq (World').live[p]
      BY LiveNow DEF Steady
    <2>2. OwnersLive(Ledger, World.live)
      BY DEF OwnInv
    <2> QED
      BY <1>1, <2>1, <2>2 DEF OwnersLive
  <1>5. ArraysOK(Ledger', gen') /\ Ledger' \in Ledgers /\ WorkOK(Ledger', frames')
    BY <1>1 DEF OwnInv
  <1> QED
    BY <1>1, <1>3, <1>4, <1>5 DEF OwnInv

\* The operations in progress are what they were.
LEMMA SameWork ==
    ASSUME IndInv, OwnInv, Steady, frames' = frames
    PROVE  OwnInv'
  <1>1. WorkOK(Ledger, frames')
    BY DEF OwnInv
  <1>2. \A c \in Components : SameTally(Ledger, frames, frames', c)
    BY DEF SameTally
  <1> QED
    BY <1>1, <1>2, LedgerStands

\* One more is begun.
LEMMA WorkBegun ==
    ASSUME IndInv, OwnInv, Steady, NEW g \in Frames, FitsOn(Ledger, frames, g),
           \A c \in Components : ~Owes(g, c) /\ ~Removes(g, c),
           frames' = Append(frames, g)
    PROVE  OwnInv'
  <1>1. frames \in Seq(Frames) /\ WorkOK(Ledger, frames)
    BY ProperNow DEF OwnInv
  <1>2. WorkOK(Ledger, frames')
    BY <1>1, WorkOnTop
  <1>3. \A c \in Components : SameTally(Ledger, frames, frames', c)
    BY <1>1, TallyWithout
  <1> QED
    BY <1>2, <1>3, LedgerStands

\* The innermost is at its end.
LEMMA WorkEnded ==
    ASSUME IndInv, OwnInv, Steady, frames # <<>>,
           \A c \in Components : ~Owes(Top, c) /\ ~Removes(Top, c),
           \A c \in Components : Makes(Top, c) => refs[c] > 0,
           frames' = Popped
    PROVE  OwnInv'
  <1>1. /\ Top \in Frames /\ Popped \in Seq(Frames) /\ frames = Append(Popped, Top)
        /\ WorkOK(Ledger, Popped)
    BY TopWork
  <1>2. \A c \in Components : SameTally(Ledger, Append(Popped, Top), Popped, c)
    BY <1>1, TallyWithout, LedgerNow
  <1> QED
    BY <1>1, <1>2, LedgerStands

\* The innermost goes on.
LEMMA WorkGoesOn ==
    ASSUME IndInv, OwnInv, Steady, frames # <<>>, NEW g \in Frames, FitsOn(Ledger, Popped, g),
           \A c \in Components : /\ Owes(Top, c) <=> Owes(g, c)
                                 /\ Removes(Top, c) <=> Removes(g, c)
                                 /\ Makes(Top, c) => Makes(g, c) \/ refs[c] > 0,
           frames' = Append(Popped, g)
    PROVE  OwnInv'
  <1>1. /\ Top \in Frames /\ Popped \in Seq(Frames) /\ frames = Append(Popped, Top)
        /\ WorkOK(Ledger, Popped)
    BY TopWork
  <1>2. WorkOK(Ledger, frames')
    BY <1>1, WorkOnTop
  <1>3. ASSUME NEW c \in Components
        PROVE  SameTally(Ledger, Append(Popped, Top), Append(Popped, g), c)
    BY <1>1, TallyInstead, LedgerNow
  <1> QED
    BY <1>1, <1>2, <1>3, LedgerStands
\* No slot, owner, array or count changes.
LEMMA NothingChanges ==
    ASSUME IndInv, OwnInv, open' \subseteq Pools, gen' = gen, alive' = alive, UNCHANGED componentVars
    PROVE  Steady
  <1>1. Ledger' = Ledger
    BY DEF Ledger, componentVars, lifeVars
  <1>2. \A p \in Pools : Live(p)' = Live(p)
    BY LiveNow
  <1> QED
    BY <1>1, <1>2 DEF Steady

LEMMA SlotsUnchanged ==
    ASSUME IndInv, OwnInv, UNCHANGED slotVars
    PROVE  open' \subseteq Pools /\ gen' = gen /\ alive' = alive
  BY DEF OwnInv, slotVars

\* A component no operation works on.
LEMMA NotWorking ==
    ASSUME IndInv, NEW c, c \notin Working
    PROVE  \A i \in 1..Len(frames) : ~WorksOn(frames[i], c)
  <1> SUFFICES ASSUME NEW i \in 1..Len(frames), WorksOn(frames[i], c) PROVE FALSE
    OBVIOUS
  <1> DEFINE f == frames[i]
             W(h) == {h.comp} \cup (IF h.stage = "removing" THEN {h.other} ELSE {})
  <1>1. f \in Running
    <2>1. Pools # {}
      BY ProperNow, FrameFields
    <2> QED
      BY <2>1, FramesNow
  <1>2. c \in W(f)
    BY DEF WorksOn
  <1>3. Working = UNION {W(h) : h \in Running}
    BY DEF Working
  <1> HIDE DEF f, W
  <1> QED
    BY <1>1, <1>2, <1>3

\* The component an add is asked to put on.
LEMMA AddComponentOwns ==
    ASSUME IndInv, OwnInv, IndInv', NEW p \in Pools, NEW id \in Usable(p), NEW c \in Components,
           AddComponent(p, id, c)
    PROVE  OwnInv'
  <1> DEFINE g == [Frame("add", p, id) EXCEPT !.comp = c, !.at = 1, !.stage = "resolving"]
  <1>1. /\ c \in born /\ c \notin Working /\ owner[c] = NoOwner
        /\ UNCHANGED slotVars /\ UNCHANGED componentVars
        /\ frames' = Append(frames, g)
    BY DEF AddComponent, Pushed
  <1>2. Steady
    BY <1>1, NothingChanges, SlotsUnchanged
  <1>3. /\ g.op = "add" /\ g.stage = "resolving" /\ g.comp = c /\ g.other = NoComponent
        /\ g.at = 1 /\ g.made = FALSE
    BY DEF Frame
  <1>4. g \in Frames
    <2>1. id \in Ids
      BY FramesNow
    <2> QED
      BY <2>1 DEF Frame, Frames
  <1> HIDE DEF g
  <1>5. NoComponent \notin Components /\ c # NoComponent
    BY PoolAssumption
  <1>6. StagesOK(g)
    BY <1>3, <1>5 DEF StagesOK
  <1>7. FrameHolds(Ledger, g)
    <2>1. Waits(Ledger, c)
      BY <1>1, LedgerNow DEF Waits
    <2>2. ArrayHolds(Ledger, g)
      BY <1>3 DEF ArrayHolds, Replacing, Emptied
    <2> QED
      BY <1>3, <2>1, <2>2 DEF FrameHolds, Replacing
  <1>8. ASSUME NEW i \in 1..Len(frames)
        PROVE  ApartOK(frames[i], g)
    BY <1>1, <1>3, <1>5, NotWorking DEF ApartOK
  <1>9. FitsOn(Ledger, frames, g)
    BY <1>3, <1>6, <1>7, <1>8 DEF FitsOn, BegunOK
  <1>10. \A d \in Components : ~Owes(g, d) /\ ~Removes(g, d)
    BY <1>3, <1>5 DEF Owes, Removes
  <1> QED
    BY <1>1, <1>2, <1>4, <1>9, <1>10, WorkBegun

\* An operation that works on no component begins.
LEMMA PlainBegun ==
    ASSUME IndInv, OwnInv, IndInv', Steady, NEW g, Plain(g), ~Emptied(g), frames' = Append(frames, g)
    PROVE  OwnInv'
  <1>1. frames \in Seq(Frames) /\ Append(frames, g) \in Seq(Frames)
    BY ProperNow DEF IndInv, Typed
  <1>2. g \in Frames
    <2>1. /\ Len(frames) + 1 \in 1..Len(Append(frames, g))
          /\ Append(frames, g)[Len(frames) + 1] = g
      BY <1>1
    <2> QED
      BY <1>1, <2>1
  <1> QED
    BY <1>1, <1>2, PlainFrame, WorkBegun

LEMMA FreeOwns ==
    ASSUME IndInv, OwnInv, IndInv', NEW p \in Pools, NEW id \in Usable(p), Free(p, id)
    PROVE  OwnInv'
  <1> DEFINE g == [Frame("free", p, id) EXCEPT !.old = parent[p][Slot(id)]]
  <1>1. /\ UNCHANGED slotVars /\ UNCHANGED componentVars
        /\ frames' = Append(frames, g)
    BY DEF Free, Pushed
  <1>2. Plain(g) /\ ~Emptied(g)
    BY DEF Plain, Emptied, Frame
  <1> QED
    BY <1>1, <1>2, NothingChanges, SlotsUnchanged, PlainBegun

LEMMA DestroyPoolOwns ==
    ASSUME IndInv, OwnInv, IndInv', NEW p \in Pools, DestroyPool(p)
    PROVE  OwnInv'
  <1> DEFINE g == [Frame("destroy", p, NoId) EXCEPT !.at = 0]
  <1>1. /\ UNCHANGED slotVars /\ UNCHANGED componentVars
        /\ frames' = Append(frames, g)
    BY DEF DestroyPool, Pushed
  <1>2. Plain(g) /\ ~Emptied(g)
    BY DEF Plain, Emptied, Frame
  <1> QED
    BY <1>1, <1>2, NothingChanges, SlotsUnchanged, PlainBegun

\* Who owns what: the entities of a pool and their arrays.
LEMMA OwnersNow ==
    ASSUME IndInv, OwnInv, NEW p \in Pools
    PROVE  /\ \A c \in Components : \A x \in Ids :
                owner[c] = <<p, x>> =>
                    /\ x \in Live(p) /\ Slot(x) \in Slots /\ x = <<Slot(x), gen[p][Slot(x)]>>
                    /\ c \in ToSet(comps[p][Slot(x)])
           /\ \A s \in Slots :
                /\ comps[p][s] \in Seq(Components) /\ IsInjective(comps[p][s])
                /\ <<s, gen[p][s]>> \in Ids
                /\ \A c \in Components :
                     c \in ToSet(comps[p][s]) <=> owner[c] = <<p, <<s, gen[p][s]>>>>
                /\ <<s, gen[p][s]>> \notin Live(p) => comps[p][s] = <<>>
  <1>1. PICK l, g, live : l = Ledger /\ g = gen /\ live = World.live
    OBVIOUS
  <1>2. l.owner = owner /\ l.comps = comps /\ live[p] = Live(p) /\ g = gen
    BY <1>1, LedgerNow, LiveNow
  <1>3. /\ l \in Ledgers /\ g \in [Pools -> [Slots -> Nat]]
        /\ ArraysOK(l, g) /\ OwnersLive(l, live) /\ Stamped(live[p], g[p])
    BY <1>1, LiveNow DEF OwnInv
  <1>4. OwnersAre(l, g, live, p)
    BY ONLY <1>3, p \in Pools, OwnersFacts
  <1> QED
    BY ONLY <1>2, <1>4 DEF OwnersAre

\* The slot of a new entity has an empty array already: no entity has it.
LEMMA EntityEnters ==
    ASSUME IndInv, OwnInv, NEW p \in Pools, NEW u, MayCreate(p), Allocate(p, u),
           NextId(p) \notin Live(p), owner' = owner, registered' = registered, UNCHANGED lifeVars
    PROVE  Steady
  <1> DEFINE s == NextSlot(p)
  <1>1. s \in Slots /\ NextId(p) = <<s, gen[p][s]>>
    BY NextSlotFacts DEF NextId, IdAt
  <1>2. /\ alive' = [alive EXCEPT ![p][s] = TRUE] /\ gen' = gen /\ open' = open
        /\ comps' = [comps EXCEPT ![p][s] = <<>>]
    BY DEF Allocate
  <1> HIDE DEF s
  <1>3. comps[p][s] = <<>>
    BY <1>1, OwnersNow
  <1>4. comps' = comps
    <2>1. comps \in [Pools -> [Slots -> Seq(Components)]]
      BY DEF IndInv, Typed
    <2> QED
      BY <1>1, <1>2, <1>3, <2>1
  <1>5. Ledger' = Ledger
    BY <1>4 DEF Ledger, lifeVars
  <1>6. ASSUME NEW q \in Pools
        PROVE  Live(q) \subseteq Live(q)'
    <2>1. /\ alive \in [Pools -> [Slots -> BOOLEAN]] /\ gen \in [Pools -> [Slots -> Nat]]
          /\ Live(q) = LiveOf(alive[q], gen[q]) /\ Live(q)' = LiveOf(alive'[q], gen[q])
      BY <1>2, LiveNow
    <2>2. /\ alive'[q] \in [Slots -> BOOLEAN] /\ alive[q] \in [Slots -> BOOLEAN] /\ gen[q] \in [Slots -> Nat]
          /\ \A r \in Slots : alive[q][r] => alive'[q][r]
      BY <1>1, <1>2, <2>1
    <2>3. LiveOf(alive[q], gen[q]) \subseteq Ids
      BY <2>2, LiveFacts
    <2>4. \A x \in Ids : x \in LiveOf(alive[q], gen[q]) => x \in LiveOf(alive'[q], gen[q])
      <3>1. \A x \in Ids : Slot(x) \in Slots
        BY DEF Ids, Slot
      <3> QED
        BY <2>2, <3>1, LiveFacts
    <2> QED
      BY <2>1, <2>3, <2>4
  <1> QED
    BY <1>2, <1>5, <1>6 DEF Steady, OwnInv

LEMMA AllocOwns ==
    ASSUME IndInv, OwnInv, IndInv', NEW p \in Pools, NEW u \in Uuids, Alloc(p, u)
    PROVE  OwnInv'
  <1>1. /\ MayCreate(p) /\ Allocate(p, u) /\ frames' = frames
        /\ owner' = owner /\ registered' = registered /\ UNCHANGED lifeVars
    BY DEF Alloc
  <1>2. NextId(p) \notin Live(p)
    BY AllocKeeps DEF Enters
  <1> QED
    BY <1>1, <1>2, EntityEnters, SameWork

LEMMA MigrateOwns ==
    ASSUME IndInv, OwnInv, IndInv', NEW p \in Pools, NEW x \in Usable(p), NEW q \in Pools, Migrate(p, x, q)
    PROVE  OwnInv'
  <1> DEFINE g == MigrateFrame(p, x, q, FALSE)
  <1>1. /\ MayCreate(q) /\ Allocate(q, uuid[p][Slot(x)]) /\ frames' = Append(frames, g)
        /\ owner' = owner /\ registered' = registered /\ UNCHANGED lifeVars
    BY DEF Migrate, Pushed
  <1>2. NextId(q) \notin Live(q)
    BY MigrateKeeps DEF Enters
  <1>3. Plain(g) /\ ~Emptied(g)
    BY DEF Plain, Emptied, MigrateFrame, Frame
  <1> HIDE DEF g
  <1>4. Steady
    BY <1>1, <1>2, EntityEnters
  <1> QED
    BY <1>1, <1>3, <1>4, PlainBegun

LEMMA MigrateChildOwns ==
    ASSUME IndInv, OwnInv, IndInv', MigrateChild
    PROVE  OwnInv'
  <1> DEFINE q == Top.to
             g == MigrateFrame(Top.pool, FirstChild, q, TRUE)
  <1>1. /\ MayCreate(q) /\ Allocate(q, uuid[Top.pool][Slot(FirstChild)]) /\ frames' = Append(frames, g)
        /\ owner' = owner /\ registered' = registered /\ UNCHANGED lifeVars
    BY DEF MigrateChild, Pushed
  <1>2. q \in Pools /\ NextId(q) \notin Live(q)
    <2>1. PICK r \in Pools : r = Top.to /\ Enters(r, NextId(r))
      BY MigrateChildKeeps
    <2> QED
      BY <2>1 DEF Enters
  <1>3. Plain(g) /\ ~Emptied(g)
    BY DEF Plain, Emptied, MigrateFrame, Frame
  <1> HIDE DEF g
  <1>4. Steady
    <2>1. PICK r, u : r = q /\ u = uuid[Top.pool][Slot(FirstChild)]
      OBVIOUS
    <2> HIDE DEF q
    <2> QED
      BY <1>1, <1>2, <2>1, EntityEnters
  <1> QED
    BY <1>1, <1>3, <1>4, PlainBegun
-----------------------------------------------------------------------------
(* Operations that work on no component go on, and end.                    *)

LEMMA PlainTop ==
    ASSUME IndInv, OwnInv, NEW i \in 1..Len(frames),
           frames[i].op \in {"destroy", "migrate", "free"},
           frames[i].op = "free" => frames[i].stage \in {"begin", "published"}
    PROVE  /\ Plain(frames[i]) /\ frames[i] \in Frames
           /\ \A c \in Components : ~Owes(frames[i], c) /\ ~Removes(frames[i], c) /\ ~Makes(frames[i], c)
  <1> DEFINE f == frames[i]
  <1>1. StagesOK(f) /\ f \in Frames
    BY FrameNow
  <1>2. f.op \in {"destroy", "migrate", "free"} /\ (f.op = "free" => f.stage \in {"begin", "published"})
    OBVIOUS
  <1>3. NoComponent \notin Components
    BY PoolAssumption
  <1> HIDE DEF f
  <1>4. Plain(f)
    BY <1>1, <1>2 DEF Plain, StagesOK
  <1>5. \A c \in Components : ~Owes(f, c) /\ ~Removes(f, c) /\ ~Makes(f, c)
    BY <1>3, <1>4 DEF Plain, Owes, Removes, Makes
  <1> QED
    BY <1>1, <1>4, <1>5 DEF f

LEMMA TopIndex ==
    ASSUME IndInv, frames # <<>>
    PROVE  Len(frames) \in 1..Len(frames) /\ Top = frames[Len(frames)] /\ Depth = Len(frames)
  BY TopNow

\* The innermost becomes another that works on no component either.
LEMMA PlainGoesOn ==
    ASSUME IndInv, OwnInv, Steady, frames # <<>>, Plain(Top), NEW g \in Frames, Plain(g),
           Emptied(g) => ArrayOf(Ledger, g) = <<>>,
           frames' = [frames EXCEPT ![Depth] = g]
    PROVE  OwnInv'
  <1>1. /\ Popped \in Seq(Frames) /\ frames' = Append(Popped, g)
        /\ Top \in Frames
    BY TopWork
  <1>2. /\ FitsOn(Ledger, Popped, g)
        /\ \A c \in Components : ~Owes(g, c) /\ ~Removes(g, c) /\ ~Makes(g, c)
    BY <1>1, PlainFrame
  <1>3. \A c \in Components : ~Owes(Top, c) /\ ~Removes(Top, c) /\ ~Makes(Top, c)
    BY PoolAssumption DEF Plain, Owes, Removes, Makes
  <1> QED
    BY <1>1, <1>2, <1>3, WorkGoesOn

LEMMA FreeUnlinkOwns ==
    ASSUME IndInv, OwnInv, FreeUnlink
    PROVE  OwnInv'
  <1> DEFINE g == [Top EXCEPT !.stage = "published"]
  <1>1. /\ frames # <<>> /\ Top.op = "free" /\ Top.stage = "begin"
        /\ comps[Top.pool][Slot(Top.id)] = <<>>
        /\ frames' = [frames EXCEPT ![Depth] = g]
        /\ UNCHANGED slotVars /\ UNCHANGED componentVars
    BY DEF FreeUnlink, At, To, Became
  <1>2. Plain(Top) /\ Top \in Frames
    BY <1>1, TopIndex, PlainTop
  <1>3. /\ g \in Frames /\ g.op = "free" /\ g.stage = "published" /\ g.pool = Top.pool /\ g.id = Top.id
        /\ g.comp = Top.comp /\ g.other = Top.other
    BY <1>1, <1>2 DEF Frames
  <1> HIDE DEF g
  <1>4. Plain(g) /\ ArrayOf(Ledger, g) = <<>>
    BY <1>1, <1>2, <1>3, LedgerNow DEF Plain, ArrayOf
  <1> QED
    BY <1>1, <1>2, <1>3, <1>4, NothingChanges, SlotsUnchanged, PlainGoesOn

LEMMA MigrateAttachOwns ==
    ASSUME IndInv, OwnInv, MigrateAttach
    PROVE  OwnInv'
  <1> DEFINE g == [Top EXCEPT !.stage = "children", !.old = NoId]
  <1>1. /\ frames # <<>> /\ Top.op = "migrate" /\ Top.stage = "attach"
        /\ frames' = [frames EXCEPT ![Depth] = g]
        /\ UNCHANGED slotVars /\ UNCHANGED componentVars
    BY DEF MigrateAttach, At, Became
  <1>2. Plain(Top) /\ Top \in Frames /\ FrameHolds(Ledger, Top)
    BY <1>1, TopIndex, PlainTop, TopWork
  <1>3. /\ g \in Frames /\ g.op = "migrate" /\ g.stage = "children" /\ g.pool = Top.pool /\ g.id = Top.id
        /\ g.comp = Top.comp /\ g.other = Top.other
    BY <1>1, <1>2 DEF Frames
  <1> HIDE DEF g
  <1>4. Plain(g) /\ ArrayOf(Ledger, g) = <<>>
    <2>1. ArrayOf(Ledger, Top) = <<>>
      BY <1>1, <1>2 DEF FrameHolds, ArrayHolds, Emptied
    <2> QED
      BY <1>1, <1>2, <1>3, <2>1 DEF Plain, ArrayOf
  <1> QED
    BY <1>1, <1>2, <1>3, <1>4, NothingChanges, SlotsUnchanged, PlainGoesOn

\* The next entity of a pool that is being destroyed, or the end of the pool.
LEMMA DestroyNextOwns ==
    ASSUME IndInv, OwnInv, IndInv', DestroyNext
    PROVE  OwnInv'
  <1> DEFINE p == Top.pool
             left == {s \in Top.at..(cap[p] - 1) : alive[p][s]}
             s == CHOOSE s \in left : \A x \in left : s <= x
             g == [Top EXCEPT !.stage = "destroying", !.at = s + 1, !.id = IdAt(p, s)]
  <1>1. /\ frames # <<>> /\ Top.op = "destroy" /\ Top.stage = "begin"
        /\ UNCHANGED componentVars
    BY DEF DestroyNext, At
  <1>2. /\ Plain(Top) /\ Top \in Frames
        /\ \A c \in Components : ~Owes(Top, c) /\ ~Removes(Top, c) /\ ~Makes(Top, c)
    BY <1>1, TopIndex, PlainTop
  <1>3. CASE left = {}
    <2>1. frames' = Popped /\ open' = open \ {p} /\ gen' = gen /\ alive' = alive
      BY <1>3 DEF DestroyNext
    <2>2. open' \subseteq Pools
      BY <2>1 DEF OwnInv
    <2> QED
      BY <1>1, <1>2, <2>1, <2>2, NothingChanges, WorkEnded
  <1>4. CASE left # {}
    <2>1. frames' = [frames EXCEPT ![Depth] = g] /\ UNCHANGED slotVars
      BY <1>4 DEF DestroyNext, Became
    <2> HIDE DEF left, s
    <2>2. g.op = "destroy" /\ g.stage = "destroying" /\ g.comp = Top.comp /\ g.other = Top.other
      BY <1>1, <1>2 DEF Frames
    <2> HIDE DEF g
    <2>3. g \in Frames
      <3>1. frames' \in Seq(Frames) /\ Len(frames') = Len(frames) /\ frames'[Len(frames)] = g
        BY <1>1, <2>1, TopIndex, ProperNow DEF IndInv, Typed
      <3> QED
        BY <1>1, <3>1, TopIndex
    <2>4. Plain(g) /\ ~Emptied(g)
      BY <1>2, <2>2 DEF Plain, Emptied
    <2> QED
      BY <1>1, <1>2, <2>1, <2>3, <2>4, NothingChanges, SlotsUnchanged, PlainGoesOn
  <1> QED
    BY <1>3, <1>4

\* The pool goes on to the next entity, and frees this one if it is alive.
LEMMA DestroyEntityOwns ==
    ASSUME IndInv, OwnInv, IndInv', DestroyEntity
    PROVE  OwnInv'
  <1> DEFINE p == Top.pool
             g == [Top EXCEPT !.stage = "begin", !.id = NoId]
             h == [Frame("free", p, Top.id) EXCEPT !.old = parent[p][Slot(Top.id)], !.made = TRUE]
  <1>1. /\ frames # <<>> /\ Top.op = "destroy" /\ Top.stage = "destroying"
        /\ UNCHANGED slotVars /\ UNCHANGED componentVars
        /\ frames' = IF Alive(p, Top.id) THEN [frames EXCEPT ![Depth] = g] \o <<h>>
                     ELSE [frames EXCEPT ![Depth] = g]
    BY DEF DestroyEntity, At
  <1>2. /\ Plain(Top) /\ Top \in Frames /\ Popped \in Seq(Frames)
        /\ \A c \in Components : ~Owes(Top, c) /\ ~Removes(Top, c) /\ ~Makes(Top, c)
        /\ \A f \in Frames : [frames EXCEPT ![Depth] = f] = Append(Popped, f)
        /\ frames = Append(Popped, Top) /\ WorkOK(Ledger, Popped)
    BY <1>1, TopIndex, PlainTop, TopWork
  <1>3. /\ g \in Frames /\ g.op = "destroy" /\ g.stage = "begin" /\ g.comp = Top.comp /\ g.other = Top.other
    BY <1>1, <1>2 DEF Frames
  <1>4. Plain(h) /\ ~Emptied(h)
    BY DEF Plain, Emptied, Frame
  <1> HIDE DEF g, h
  <1>5. Plain(g) /\ ~Emptied(g)
    BY <1>2, <1>3 DEF Plain, Emptied
  <1>6. Steady
    BY <1>1, NothingChanges, SlotsUnchanged
  <1>7. CASE ~Alive(p, Top.id)
    BY <1>1, <1>2, <1>3, <1>5, <1>6, <1>7, PlainGoesOn
  <1>8. CASE Alive(p, Top.id)
    <2> DEFINE fs == Append(Popped, g)
    <2>1. fs \in Seq(Frames) /\ frames' = fs \o <<h>>
      <3>1. fs = [frames EXCEPT ![Depth] = g]
        BY <1>2, <1>3
      <3>2. frames' = [frames EXCEPT ![Depth] = g] \o <<h>>
        BY <1>1, <1>8
      <3>3. fs \in Seq(Frames)
        BY <1>2, <1>3
      <3> QED
        BY ONLY <3>1, <3>2, <3>3
    <2> HIDE DEF fs
    <2>2. frames' = Append(fs, h)
      BY <2>1
    <2>3. h \in Frames
      <3>1. frames' \in Seq(Frames)
        BY DEF IndInv, Typed
      <3>2. Len(frames') = Len(fs) + 1 /\ frames'[Len(fs) + 1] = h /\ Len(fs) \in Nat
        BY <2>1, <2>2
      <3> QED
        BY <3>1, <3>2
    <2>4. /\ FitsOn(Ledger, Popped, g)
          /\ \A c \in Components : ~Owes(g, c) /\ ~Removes(g, c) /\ ~Makes(g, c)
      BY <1>2, <1>3, <1>5, PlainFrame
    <2>5. /\ FitsOn(Ledger, fs, h)
          /\ \A c \in Components : ~Owes(h, c) /\ ~Removes(h, c) /\ ~Makes(h, c)
      BY <1>4, <2>1, <2>3, PlainFrame
    <2>6. WorkOK(Ledger, fs)
      BY <1>2, <1>3, <2>4, WorkOnTop DEF fs
    <2>7. WorkOK(Ledger, Append(fs, h))
      BY <2>1, <2>3, <2>5, <2>6, WorkOnTop
    <2>8. ASSUME NEW c \in Components
          PROVE  SameTally(Ledger, frames, frames', c)
      <3>1. SameTally(Ledger, Append(Popped, Top), fs, c)
        BY <1>2, <1>3, <2>4, TallyInstead DEF fs
      <3>2. SameTally(Ledger, fs, Append(fs, h), c)
        BY <2>1, <2>3, <2>5, TallyWithout
      <3> QED
        BY <1>2, <2>2, <3>1, <3>2 DEF SameTally
    <2> QED
      BY <1>6, <2>2, <2>7, <2>8, LedgerStands
  <1> QED
    BY <1>7, <1>8

\* Every migration in progress is given up.
LEMMA MigrateAbandonOwns ==
    ASSUME IndInv, OwnInv, MigrateAbandon
    PROVE  OwnInv'
  <1> DEFINE k == Base - 1
  <1>1. /\ frames # <<>> /\ Top.op = "migrate" /\ frames' = SubSeq(frames, 1, k)
        /\ UNCHANGED slotVars /\ UNCHANGED componentVars
    BY DEF MigrateAbandon, At
  <1>2. /\ k \in 0..Len(frames) /\ frames \in Seq(Frames) /\ Base \in 1..Len(frames)
        /\ \A i \in Base..Len(frames) : frames[i].op = "migrate"
    BY <1>1, BaseFacts, ProperNow
  <1>3. (k + 1)..Len(frames) = Base..Len(frames) /\ (k + 1)..Len(frames) \subseteq 1..Len(frames)
    BY <1>2
  <1> HIDE DEF k
  <1>4. \A i \in (k + 1)..Len(frames) : \A c \in Components :
           ~Owes(frames[i], c) /\ ~Removes(frames[i], c) /\ ~Makes(frames[i], c)
    BY <1>2, <1>3, PlainTop
  <1>5. \A c \in Components : SameTally(Ledger, frames, frames', c)
    BY <1>1, <1>2, <1>4, TallyOfPrefix DEF SameTally
  <1>6. WorkOK(Ledger, frames')
    BY <1>1, <1>2, WorkPrefix DEF OwnInv
  <1> QED
    BY <1>1, <1>5, <1>6, NothingChanges, SlotsUnchanged, LedgerStands
\* The calls that change only names, the tree or the rows.
LEMMA OthersOwn ==
    ASSUME IndInv, OwnInv, NEW p \in Pools, NEW id,
           \/ \E u \in Uuids : SetUuid(p, id, u)
           \/ \E q : SetParent(p, id, q)
           \/ \E k : SetSiblingIndex(p, id, k)
           \/ ChangeRow(p, id)
    PROVE  OwnInv'
  <1>1. UNCHANGED slotVars /\ UNCHANGED componentVars /\ frames' = frames
    BY DEF SetUuid, SetParent, SetSiblingIndex, ChangeRow
  <1> QED
    BY <1>1, NothingChanges, SlotsUnchanged, SameWork

-----------------------------------------------------------------------------
(* An entity dies: its slot gets the next generation.                      *)

LEMMA EntityDies ==
    ASSUME IndInv, OwnInv, Ledger' = Ledger, open' \subseteq Pools,
           NEW p \in Pools, NEW x \in Live(p), Bury(p, Slot(x)), comps[p][Slot(x)] = <<>>,
           WorkOK(Ledger, frames'),
           \A c \in Components : SameTally(Ledger, frames, frames', c)
    PROVE  OwnInv'
  <1> DEFINE s == Slot(x)
  <1>1. /\ Live(p)' = Live(p) \ {x} /\ \A r \in Pools : r # p => Live(r)' = Live(r) /\ gen'[r] = gen[r]
        /\ gen'[p][s] = gen[p][s] + 1 /\ \A t \in Slots : t # s => gen'[p][t] = gen[p][t]
    BY BuryFacts
  <1>2. /\ x \in Ids /\ s \in Slots /\ x = <<s, gen[p][s]>> /\ gen[p][s] \in Nat
        /\ owner = Ledger.owner /\ comps = Ledger.comps /\ Live(p) \subseteq Ids
    BY LiveNow, LedgerNow
  <1> HIDE DEF s
  <1>3. \A c \in Components : c \notin ToSet(comps[p][s])
    BY <1>2, ToSetFacts DEF s, ToSet
  <1>4. \A c \in Components : owner[c] # <<p, x>>
    BY <1>2, <1>3, OwnersNow DEF s
  <1>5. \A c \in Components : owner[c] # <<p, <<s, gen[p][s] + 1>>>>
    <2> SUFFICES ASSUME NEW c \in Components, owner[c] = <<p, <<s, gen[p][s] + 1>>>> PROVE FALSE
      OBVIOUS
    <2> DEFINE y == <<s, gen[p][s] + 1>>
    <2>1. y \in Ids /\ Slot(y) = s /\ y # <<s, gen[p][s]>>
      BY <1>2 DEF Ids, Slot
    <2>2. y = <<Slot(y), gen[p][Slot(y)]>>
      <3>1. owner[c] = <<p, y>>
        OBVIOUS
      <3> HIDE DEF y
      <3> QED
        BY <2>1, <3>1, OwnersNow
    <2> QED
      BY <2>1, <2>2
  <1>6. ArraysOK(Ledger, gen')
    <2> SUFFICES ASSUME NEW r \in Pools, NEW t \in Slots
                 PROVE  ArrayIs(Ledger.comps[r][t], OwnedBy(Ledger, r, <<t, gen'[r][t]>>))
      BY DEF ArraysOK
    <2>1. ArrayIs(Ledger.comps[r][t], OwnedBy(Ledger, r, <<t, gen[r][t]>>))
      BY DEF OwnInv, ArraysOK
    <2>2. CASE r # p \/ t # s
      BY <1>1, <2>1, <2>2
    <2>3. CASE r = p /\ t = s
      <3>1. OwnedBy(Ledger, r, <<t, gen'[r][t]>>) = {}
        BY <1>1, <1>2, <1>5, <2>3 DEF OwnedBy
      <3>2. OwnedBy(Ledger, r, <<t, gen[r][t]>>) = {}
        BY <1>2, <1>4, <2>3 DEF OwnedBy
      <3> QED
        BY <2>1, <3>1, <3>2
    <2> QED
      BY <2>2, <2>3
  <1>7. OwnersLive(Ledger, (World').live)
    <2> SUFFICES ASSUME NEW c \in Components, NEW r \in Pools, NEW y \in Ids, Ledger.owner[c] = <<r, y>>
                 PROVE  y \in (World').live[r]
      BY DEF OwnersLive
    <2>1. y \in World.live[r]
      BY DEF OwnInv, OwnersLive
    <2>2. World.live[r] = Live(r) /\ (World').live[r] = Live(r)'
      BY LiveNow
    <2>3. CASE r = p
      BY <1>1, <1>2, <1>4, <2>1, <2>2, <2>3
    <2>4. CASE r # p
      BY <1>1, <2>1, <2>2, <2>4
    <2> QED
      BY <2>3, <2>4
  <1>8. Settles(Ledger, frames')
    <2> SUFFICES ASSUME NEW c \in Components
                 PROVE  CountOK(Ledger, frames', c) /\ SceneOK(Ledger, frames', c)
      BY DEF Settles
    <2>1. CountOK(Ledger, frames, c) /\ SceneOK(Ledger, frames, c)
      BY DEF OwnInv, Settles
    <2>2. SameEntry(Ledger, Ledger, c)
      BY DEF SameEntry
    <2> QED
      BY <2>1, <2>2, EntryStands
  <1>9. Ledger \in Ledgers
    BY DEF OwnInv
  <1> QED
    BY <1>6, <1>7, <1>8, <1>9 DEF OwnInv

LEMMA FreeEndOwns ==
    ASSUME IndInv, OwnInv, FreeEnd
    PROVE  OwnInv'
  <1>a. PICK p, x : p = Top.pool /\ x = Top.id
    OBVIOUS
  <1>1. /\ frames # <<>> /\ Top.op = "free" /\ Top.stage = "published"
        /\ Bury(p, Slot(x)) /\ frames' = Popped /\ UNCHANGED componentVars
    BY <1>a DEF FreeEnd, At
  <1>2. /\ p \in Pools /\ x \in Live(p)
    BY <1>1, <1>a, TopNow
  <1>3. /\ Top \in Frames /\ Popped \in Seq(Frames) /\ WorkOK(Ledger, Popped) /\ frames = Append(Popped, Top)
        /\ FrameHolds(Ledger, Top)
        /\ \A c \in Components : ~Owes(Top, c) /\ ~Removes(Top, c) /\ ~Makes(Top, c)
    BY <1>1, TopIndex, PlainTop, TopWork
  <1>4. comps[p][Slot(x)] = <<>>
    <2>1. ArrayOf(Ledger, Top) = <<>>
      BY <1>1, <1>3 DEF FrameHolds, ArrayHolds, Emptied
    <2> QED
      BY <1>a, <2>1, LedgerNow DEF ArrayOf
  <1>5. Ledger' = Ledger /\ open' \subseteq Pools
    BY <1>1 DEF Ledger, componentVars, lifeVars, Bury, OwnInv
  <1>6. \A c \in Components : SameTally(Ledger, frames, frames', c)
    BY <1>1, <1>3, TallyWithout
  <1> QED
    BY <1>1, <1>2, <1>3, <1>4, <1>5, <1>6, EntityDies

LEMMA MigrateEndOwns ==
    ASSUME IndInv, OwnInv, MigrateEnd
    PROVE  OwnInv'
  <1>a. PICK p, x : p = Top.pool /\ x = Top.id
    OBVIOUS
  <1> DEFINE rest == Popped
             f == Last(rest)
             g == [f EXCEPT !.stage = "attach", !.old = Top.copy]
  <1>1. /\ frames # <<>> /\ Top.op = "migrate" /\ Top.stage = "children"
        /\ Bury(p, Slot(x)) /\ UNCHANGED componentVars
        /\ frames' = IF Top.made
                     THEN [rest EXCEPT ![Depth - 1] = [rest[Depth - 1] EXCEPT !.stage = "attach", !.old = Top.copy]]
                     ELSE rest
    BY <1>a DEF MigrateEnd, At
  <1>2. p \in Pools /\ x \in Live(p)
    BY <1>1, <1>a, TopNow
  <1>3. /\ Top \in Frames /\ rest \in Seq(Frames) /\ WorkOK(Ledger, rest) /\ frames = Append(rest, Top)
        /\ FrameHolds(Ledger, Top)
        /\ \A c \in Components : ~Owes(Top, c) /\ ~Removes(Top, c) /\ ~Makes(Top, c)
    BY <1>1, TopIndex, PlainTop, TopWork
  <1>4. comps[p][Slot(x)] = <<>>
    <2>1. ArrayOf(Ledger, Top) = <<>>
      BY <1>1, <1>3 DEF FrameHolds, ArrayHolds, Emptied
    <2> QED
      BY <1>a, <2>1, LedgerNow DEF ArrayOf
  <1>5. Ledger' = Ledger /\ open' \subseteq Pools
    BY <1>1 DEF Ledger, componentVars, lifeVars, Bury, OwnInv
  <1>6. \A c \in Components : SameTally(Ledger, frames, rest, c)
    BY <1>3, TallyWithout
  <1>7. CASE ~Top.made
    BY <1>1, <1>2, <1>3, <1>4, <1>5, <1>6, <1>7, EntityDies
  <1>8. CASE Top.made
    <2>1. /\ rest # <<>> /\ Len(rest) = Depth - 1 /\ f = rest[Len(rest)]
          /\ NestOK(World, f, Top)
      BY <1>1, <1>8, Beneath
    <2>2. /\ Front(rest) \in Seq(Frames) /\ rest = Append(Front(rest), f) /\ f \in Frames
          /\ \A h \in Frames : [rest EXCEPT ![Len(rest)] = h] = Append(Front(rest), h)
      BY <1>3, <2>1, StackParts
    <2>3. Top.copy \in Ids
      BY <1>1, MigrationNow, FramesNow
    <2>4. f.op = "migrate" /\ f.stage = "children"
      BY <1>1, <1>8, <2>1 DEF NestOK
    <2> DEFINE bot == Front(rest)
    <2> HIDE DEF rest, f
    <2>5. /\ g \in Frames /\ g.op = "migrate" /\ g.stage = "attach" /\ g.pool = f.pool /\ g.id = f.id
          /\ g.comp = f.comp /\ g.other = f.other
      BY <2>2, <2>3, <2>4 DEF Frames
    <2>6. frames' = Append(bot, g)
      BY <1>1, <1>8, <2>1, <2>2, <2>5
    <2> HIDE DEF g, bot
    <2>7. WorkOK(Ledger, bot) /\ FitsOn(Ledger, bot, f)
      BY <1>3, <2>2, WorkOnTop DEF bot
    <2>8. ArrayOf(Ledger, f) = <<>> /\ StagesOK(f)
      BY <2>4, <2>7 DEF FitsOn, FrameHolds, ArrayHolds, Emptied
    <2>9. Plain(g) /\ ArrayOf(Ledger, g) = <<>> /\ Plain(f)
      BY <2>4, <2>5, <2>8 DEF Plain, StagesOK, ArrayOf
    <2>10. bot \in Seq(Frames) /\ rest = Append(bot, f)
      BY <2>2 DEF bot
    <2>11. /\ FitsOn(Ledger, bot, g)
           /\ \A c \in Components : /\ ~Owes(g, c) /\ ~Removes(g, c) /\ ~Makes(g, c)
                                    /\ ~Owes(f, c) /\ ~Removes(f, c) /\ ~Makes(f, c)
      BY <2>2, <2>5, <2>8, <2>9, <2>10, PlainFrame
    <2>12. WorkOK(Ledger, frames')
      BY <2>5, <2>6, <2>7, <2>10, <2>11, WorkOnTop
    <2>13. ASSUME NEW c \in Components PROVE SameTally(Ledger, frames, frames', c)
      <3>1. SameTally(Ledger, Append(bot, f), Append(bot, g), c)
        BY <2>2, <2>5, <2>10, <2>11, TallyInstead
      <3>2. SameTally(Ledger, frames, rest, c)
        BY <1>6
      <3> QED
        BY <2>6, <2>10, <3>1, <3>2 DEF SameTally
    <2> QED
      BY <1>1, <1>2, <1>4, <1>5, <2>12, <2>13, EntityDies
  <1> QED
    BY <1>7, <1>8
-----------------------------------------------------------------------------
(* A requirement that is there.                                            *)

\* The two owe, remove and have made the same.
SameMarks(f, g) ==
    \A c \in Components : /\ Owes(f, c) <=> Owes(g, c)
                          /\ Removes(f, c) <=> Removes(g, c)
                          /\ Makes(f, c) <=> Makes(g, c)

\* An add goes on to its next requirement.
LEMMA OneRequirementMore ==
    ASSUME NEW l, NEW fs \in Seq(Frames), NEW f \in Frames, FitsOn(l, fs, f),
           f.op = "add", f.stage = "resolving",
           NEW g, g = [f EXCEPT !.at = @ + 1]
    PROVE  g \in Frames /\ FitsOn(l, fs, g) /\ SameMarks(f, g)
  <1>1. f.at \in Nat
    BY FrameFields
  <1>2. /\ g \in Frames /\ g.op = "add" /\ g.stage = "resolving" /\ g.pool = f.pool /\ g.id = f.id
        /\ g.comp = f.comp /\ g.other = f.other /\ g.made = f.made /\ g.at = f.at + 1
    BY <1>1 DEF Frames
  <1>3. StagesOK(f) /\ FrameHolds(l, f) /\ ArrayHolds(l, f)
    BY DEF FitsOn, FrameHolds
  <1> HIDE DEF FitsOn
  <1>4. ArrayHolds(l, g)
    BY <1>2 DEF ArrayHolds, Replacing, Emptied
  <1>5. StagesOK(g) /\ FrameHolds(l, g)
    BY <1>1, <1>2, <1>3, <1>4 DEF StagesOK, FrameHolds, Replacing
  <1>6. \A h : (ApartOK(h, f) => ApartOK(h, g)) /\ (BegunOK(h, f) => BegunOK(h, g))
    BY <1>2 DEF ApartOK, BegunOK
  <1>7. FitsOn(l, fs, g)
    BY <1>5, <1>6 DEF FitsOn
  <1>8. \A c \in Components : /\ Owes(f, c) <=> Owes(g, c)
                              /\ Removes(f, c) <=> Removes(g, c)
                              /\ Makes(f, c) <=> Makes(g, c)
    BY <1>2 DEF Owes, Removes, Makes
  <1> QED
    BY <1>2, <1>7, <1>8 DEF SameMarks

LEMMA SkipRequirementOwns ==
    ASSUME IndInv, OwnInv, SkipRequirement
    PROVE  OwnInv'
  <1> DEFINE g == [Top EXCEPT !.at = @ + 1]
  <1>1. /\ frames # <<>> /\ Top.op = "add" /\ Top.stage = "resolving"
        /\ frames' = [frames EXCEPT ![Depth] = g]
        /\ UNCHANGED slotVars /\ UNCHANGED componentVars
    BY DEF SkipRequirement, At, Became
  <1>2. /\ Top \in Frames /\ Popped \in Seq(Frames) /\ FitsOn(Ledger, Popped, Top)
        /\ \A h \in Frames : [frames EXCEPT ![Depth] = h] = Append(Popped, h)
    BY <1>1, TopWork
  <1>4. PICK h : h = g
    OBVIOUS
  <1> HIDE DEF g
  <1>5. h \in Frames /\ FitsOn(Ledger, Popped, h) /\ SameMarks(Top, h)
    BY <1>1, <1>2, <1>4, OneRequirementMore DEF g
  <1>6. frames' = Append(Popped, h)
    BY <1>1, <1>2, <1>4, <1>5
  <1>7. \A c \in Components : /\ Owes(Top, c) <=> Owes(h, c)
                              /\ Removes(Top, c) <=> Removes(h, c)
                              /\ Makes(Top, c) <=> Makes(h, c)
    BY <1>5 DEF SameMarks
  <1> QED
    BY <1>1, <1>5, <1>6, <1>7, NothingChanges, SlotsUnchanged, WorkGoesOn

\* What is owned, or owed, or held has a reference.
LEMMA CountNow ==
    ASSUME OwnInv, NEW c \in Components
    PROVE  /\ refs[c] \in Nat
           /\ refs[c] = One(owner[c] # NoOwner) + One(c \in held) + One(retained[c]) + OwedIn(frames, c)
           /\ refs[c] > 0 => c \in born
           /\ c \in born => refs[c] > 0 \/ MadeIn(frames, c)
           /\ owner[c] # NoOwner => refs[c] > 0
           /\ OwedIn(frames, c) \in Nat /\ (OwedIn(frames, c) > 0 => refs[c] > 0)
           /\ owner[c] = NoOwner \/ RemovedIn(frames, c) => registered[c] = NoPool
           /\ owner[c] # NoOwner /\ ~RemovedIn(frames, c) => registered[c] = owner[c][1]
  <1>1. CountOK(Ledger, frames, c) /\ SceneOK(Ledger, frames, c) /\ refs[c] \in Nat
    BY LedgerFields, LedgerNow DEF OwnInv, Settles
  <1>2. OwedIn(frames, c) \in Nat
    <2>1. IsFiniteSet(1..Len(frames))
      BY FS_Interval
    <2> QED
      BY <2>1, FS_Subset, FS_CardinalityType DEF OwedIn
  <1>3. /\ One(owner[c] # NoOwner) \in Nat /\ One(c \in held) \in Nat /\ One(retained[c]) \in Nat
        /\ owner[c] # NoOwner => One(owner[c] # NoOwner) = 1
    BY DEF One
  <1>4. /\ refs[c] = One(owner[c] # NoOwner) + One(c \in held) + One(retained[c]) + OwedIn(frames, c)
        /\ refs[c] > 0 => c \in born
        /\ c \in born => refs[c] > 0 \/ MadeIn(frames, c)
    BY <1>1, LedgerNow DEF CountOK
  <1>6. owner[c] # NoOwner => refs[c] > 0
    BY <1>2, <1>3, <1>4
  <1>7. OwedIn(frames, c) > 0 => refs[c] > 0
    BY <1>2, <1>3, <1>4
  <1>8. /\ owner[c] = NoOwner \/ RemovedIn(frames, c) => registered[c] = NoPool
        /\ owner[c] # NoOwner /\ ~RemovedIn(frames, c) => registered[c] = owner[c][1]
    BY <1>1, LedgerNow DEF SceneOK
  <1> QED
    BY <1>1, <1>2, <1>4, <1>6, <1>7, <1>8

\* A component an operation has put on is in the array of its entity.
LEMMA AddReturnOwns ==
    ASSUME IndInv, OwnInv, AddReturn
    PROVE  OwnInv'
  <1>1. /\ frames # <<>> /\ Top.op = "add" /\ Top.stage = "added"
        /\ frames' = IF Top.made THEN [Popped EXCEPT ![Depth - 1].at = @ + 1] ELSE Popped
        /\ UNCHANGED slotVars /\ UNCHANGED componentVars
    BY DEF AddReturn, At
  <1>2. /\ Top \in Frames /\ Popped \in Seq(Frames) /\ FitsOn(Ledger, Popped, Top)
        /\ WorkOK(Ledger, Popped) /\ frames = Append(Popped, Top)
        /\ StagesOK(Top) /\ FrameHolds(Ledger, Top)
    BY <1>1, TopWork
  <1>3. Steady
    BY <1>1, NothingChanges, SlotsUnchanged
  <1>4. /\ Top.comp \in Components /\ owner[Top.comp] = <<Top.pool, Top.id>> /\ owner[Top.comp] # NoOwner
        /\ \A c \in Components : ~Owes(Top, c) /\ ~Removes(Top, c)
    <2>1. Top.pool \in Pools /\ Top.id \in Ids
      BY <1>1, TopNow
    <2>2. Top.comp \in Components /\ Top.other = NoComponent /\ owner[Top.comp] = <<Top.pool, Top.id>>
      BY <1>1, <1>2, FrameFields, LedgerNow DEF StagesOK, FrameHolds
    <2> QED
      BY <1>1, <2>1, <2>2, PoolAssumption DEF Owes, Removes
  <1>5. \A c \in Components : Makes(Top, c) => refs[c] > 0
    BY <1>4, CountNow DEF Makes
  <1>6. CASE ~Top.made
    BY <1>1, <1>3, <1>4, <1>5, <1>6, WorkEnded
  <1>7. CASE Top.made
    <2> DEFINE rest == Popped
               f == Last(rest)
               bot == Front(rest)
    <2>1. /\ rest # <<>> /\ Len(rest) = Depth - 1 /\ f = rest[Len(rest)]
          /\ NestOK(World, f, Top)
      BY <1>1, <1>7, Beneath
    <2>2. /\ bot \in Seq(Frames) /\ rest = Append(bot, f) /\ f \in Frames
          /\ \A h \in Frames : [rest EXCEPT ![Len(rest)] = h] = Append(bot, h)
      BY <1>2, <2>1, StackParts
    <2>3. PICK g : g = [f EXCEPT !.at = @ + 1]
      OBVIOUS
    <2>4. /\ f.op = "add" /\ f.pool = Top.pool /\ f.id = Top.id
      BY <1>1, <1>7, <2>1 DEF NestOK
    <2>5. BegunOK(f, Top)
      BY <1>2, <2>1 DEF FitsOn
    <2>6. frames' = [rest EXCEPT ![Len(rest)] = g]
      BY <1>1, <1>7, <2>1, <2>3
    <2> HIDE DEF rest, f, bot
    <2>7. f.stage = "resolving"
      BY <1>1, <1>7, <2>5 DEF BegunOK
    <2>9. WorkOK(Ledger, bot) /\ FitsOn(Ledger, bot, f)
      BY <1>2, <2>2, WorkOnTop DEF rest
    <2>10. g \in Frames /\ FitsOn(Ledger, bot, g) /\ SameMarks(f, g)
      BY <2>2, <2>3, <2>4, <2>7, <2>9, OneRequirementMore
    <2>11. frames' = Append(bot, g)
      BY <2>2, <2>6, <2>10
    <2>12. WorkOK(Ledger, frames')
      BY <2>2, <2>9, <2>10, <2>11, WorkOnTop
    <2>13. ASSUME NEW c \in Components PROVE SameTally(Ledger, frames, frames', c)
      <3>1. SameTally(Ledger, Append(rest, Top), rest, c)
        BY <1>2, <1>4, <1>5, TallyWithout, LedgerNow DEF rest
      <3>2. SameTally(Ledger, Append(bot, f), Append(bot, g), c)
        <4>1. /\ Owes(f, c) <=> Owes(g, c)
              /\ Removes(f, c) <=> Removes(g, c)
              /\ Makes(f, c) <=> Makes(g, c)
          BY <2>10 DEF SameMarks
        <4> QED
          BY <2>2, <2>10, <4>1, TallyInstead
      <3>3. frames = Append(rest, Top)
        BY <1>2 DEF rest
      <3> QED
        BY <2>2, <2>11, <3>1, <3>2, <3>3 DEF SameTally
    <2> QED
      BY <1>3, <2>12, <2>13, LedgerStands
  <1> QED
    BY <1>6, <1>7
-----------------------------------------------------------------------------
(* Steps that change what is owned or counted.                             *)

\* Waiting, owned, held and in the arrays, all is what it was.
LEMMA SameHolds ==
    ASSUME NEW l, NEW m, m.born = l.born, m.owner = l.owner, m.held = l.held, m.comps = l.comps
    PROVE  /\ \A f : FrameHolds(m, f) <=> FrameHolds(l, f)
           /\ \A fs : WorkOK(m, fs) <=> WorkOK(l, fs)
           /\ \A fs, g : FitsOn(m, fs, g) <=> FitsOn(l, fs, g)
  <1>1. /\ \A f : ArrayOf(m, f) = ArrayOf(l, f)
        /\ \A c : Waits(m, c) <=> Waits(l, c)
    BY DEF ArrayOf, Waits
  <1>2. \A f : ArrayHolds(m, f) <=> ArrayHolds(l, f)
    BY <1>1 DEF ArrayHolds
  <1>3. \A f : FrameHolds(m, f) <=> FrameHolds(l, f)
    BY <1>1, <1>2 DEF FrameHolds
  <1> QED
    BY <1>3 DEF WorkOK, FitsOn

\* One entry changes; for the others the operations do what they did.
LEMMA OthersSettle ==
    ASSUME NEW l, NEW m, NEW fs, NEW hs, NEW S, Settles(l, fs),
           \A d \in Components : d \notin S => SameEntry(l, m, d) /\ SameTally(l, fs, hs, d),
           \A c \in Components : c \in S => CountOK(m, hs, c) /\ SceneOK(m, hs, c)
    PROVE  Settles(m, hs)
  <1> SUFFICES ASSUME NEW d \in Components PROVE CountOK(m, hs, d) /\ SceneOK(m, hs, d)
    BY DEF Settles
  <1>1. CASE d \in S
    BY <1>1
  <1>2. CASE d \notin S
    BY <1>2, EntryStands DEF Settles
  <1> QED
    BY <1>1, <1>2

\* The pools and the slots are what they were.
LEMMA LedgerChanges ==
    ASSUME IndInv, OwnInv, UNCHANGED slotVars, Ledger' \in Ledgers, WorkOK(Ledger', frames'),
           ArraysOK(Ledger', gen), OwnersLive(Ledger', World.live), Settles(Ledger', frames')
    PROVE  OwnInv'
  <1>1. open' = open /\ gen' = gen /\ alive' = alive
    BY DEF slotVars
  <1>2. \A p \in Pools : (World').live[p] = World.live[p]
    BY <1>1, LiveNow
  <1>3. OwnersLive(Ledger', (World').live)
    BY <1>2 DEF OwnersLive
  <1>4. open' \subseteq Pools /\ ArraysOK(Ledger', gen')
    BY <1>1 DEF OwnInv
  <1> QED
    BY <1>3, <1>4 DEF OwnInv

\* No array and no owner changes.
LEMMA OwnersUnchanged ==
    ASSUME IndInv, OwnInv, UNCHANGED slotVars, comps' = comps, owner' = owner,
           Ledger' \in Ledgers, WorkOK(Ledger', frames'), Settles(Ledger', frames')
    PROVE  OwnInv'
  <1>1. (Ledger').owner = Ledger.owner /\ (Ledger').comps = Ledger.comps
    BY LedgerNow
  <1>2. ArraysOK(Ledger', gen)
    BY <1>1 DEF OwnInv, ArraysOK, OwnedBy
  <1>3. OwnersLive(Ledger', World.live)
    BY <1>1 DEF OwnInv, OwnersLive
  <1> QED
    BY <1>2, <1>3, LedgerChanges

LEMMA LedgerNext ==
    ASSUME OwnInv, born' \subseteq Components, held' \subseteq Components,
           owner' \in [Components -> (Pools \X Ids) \cup {NoOwner}],
           registered' \in [Components -> Pools \cup {NoPool}],
           refs' \in [Components -> Nat], retained' \in [Components -> BOOLEAN],
           comps' \in [Pools -> [Slots -> Seq(Components)]]
    PROVE  Ledger' \in Ledgers
  BY DEF Ledger, Ledgers

LEMMA LedgerTyped ==
    ASSUME OwnInv
    PROVE  /\ born \subseteq Components /\ held \subseteq Components
           /\ owner \in [Components -> (Pools \X Ids) \cup {NoOwner}]
           /\ registered \in [Components -> Pools \cup {NoPool}]
           /\ refs \in [Components -> Nat] /\ retained \in [Components -> BOOLEAN]
           /\ comps \in [Pools -> [Slots -> Seq(Components)]]
  BY LedgerFields, LedgerNow DEF OwnInv

-----------------------------------------------------------------------------
(* References the host takes and lets go.                                  *)

OthersCount(c) ==
    \A d \in Components : d # c =>
        /\ refs'[d] = refs[d]
        /\ d \in born' <=> d \in born
        /\ d \in held' <=> d \in held

LEMMA ReferencesChange ==
    ASSUME IndInv, OwnInv, NEW c \in Components, UNCHANGED slotVars, comps' = comps, owner' = owner,
           registered' = registered, retained' = retained, frames' = frames,
           refs' \in [Components -> Nat], born' \subseteq Components, held' \subseteq Components,
           OthersCount(c),
           \A i \in 1..Len(frames) : WorksOn(frames[i], c) => StaysFor(Ledger, Ledger', c),
           CountOK(Ledger', frames, c)
    PROVE  OwnInv'
  <1> DEFINE m == Ledger'
  <1>1. /\ m.born = born' /\ m.owner = owner /\ m.registered = registered /\ m.refs = refs'
        /\ m.held = held' /\ m.retained = retained /\ m.comps = comps
    BY LedgerNow
  <1>2. m \in Ledgers
    BY LedgerTyped, LedgerNext
  <1> HIDE DEF m
  <1>3. ASSUME NEW d \in Components, d # c
        PROVE  SameEntry(Ledger, m, d) /\ StaysFor(Ledger, m, d) /\ SameTally(Ledger, frames, frames, d)
    BY <1>1, <1>3, LedgerNow DEF OthersCount, SameEntry, StaysFor, SameTally, Waits
  <1>4. SceneOK(m, frames, c)
    <2>1. SceneOK(Ledger, frames, c)
      BY DEF OwnInv, Settles
    <2> QED
      BY <1>1, <2>1, LedgerNow DEF SceneOK
  <1>5. Settles(m, frames)
    <2>1. Settles(Ledger, frames) /\ CountOK(m, frames, c)
      BY DEF OwnInv, m
    <2>2. /\ \A d \in Components : d \notin {c} => SameEntry(Ledger, m, d) /\ SameTally(Ledger, frames, frames, d)
          /\ \A d \in Components : d \in {c} => CountOK(m, frames, d) /\ SceneOK(m, frames, d)
      BY <1>3, <1>4, <2>1
    <2> QED
      BY ONLY <2>1, <2>2, OthersSettle
  <1>6. ASSUME NEW i \in 1..Len(frames)
        PROVE  LeavesAlone(Ledger, m, frames[i])
    <2>1. ArrayStays(Ledger, m, frames[i])
      BY <1>1, LedgerNow, SameArray DEF ArrayOf
    <2>2. \A d \in Components : WorksOn(frames[i], d) => StaysFor(Ledger, m, d)
      BY <1>3 DEF m
    <2> QED
      BY <2>1, <2>2 DEF LeavesAlone
  <1>7. WorkOK(m, frames)
    BY <1>6, WorkOfAll
  <1> QED
    BY <1>2, <1>5, <1>7, OwnersUnchanged DEF m

LEMMA ReferencesOwn ==
    ASSUME IndInv, OwnInv, NEW c \in Components, CreateComponent(c) \/ TakeReference(c) \/ LetGo(c)
    PROVE  OwnInv'
  <1>1. /\ UNCHANGED slotVars /\ comps' = comps /\ owner' = owner
        /\ registered' = registered /\ retained' = retained /\ frames' = frames
    BY DEF CreateComponent, TakeReference, LetGo
  <1>2. /\ refs[c] \in Nat /\ refs[c] > 0 <=> refs[c] # 0
        /\ refs[c] = One(owner[c] # NoOwner) + One(c \in held) + One(retained[c]) + OwedIn(frames, c)
        /\ refs[c] > 0 => c \in born
        /\ c \in born => refs[c] > 0 \/ MadeIn(frames, c)
        /\ OwedIn(frames, c) \in Nat
        /\ One(owner[c] # NoOwner) \in Nat /\ One(retained[c]) \in Nat
        /\ One(TRUE) = 1 /\ One(FALSE) = 0
    BY CountNow DEF One
  <1>3. refs \in [Components -> Nat] /\ born \subseteq Components /\ held \subseteq Components
    BY LedgerTyped
  <1> DEFINE m == Ledger'
  <1>4. /\ m.born = born' /\ m.owner = owner /\ m.refs = refs' /\ m.held = held' /\ m.retained = retained
        /\ Ledger.born = born /\ Ledger.owner = owner /\ Ledger.held = held
    BY <1>1, LedgerNow
  <1> HIDE DEF m
  <1>5. CASE CreateComponent(c)
    <2>1. c \notin born /\ born' = born \cup {c} /\ refs' = [refs EXCEPT ![c] = 1] /\ held' = held \cup {c}
      BY <1>5 DEF CreateComponent
    <2>2. refs[c] = 0 /\ c \notin held
      <3>1. refs[c] = 0
        BY <1>2, <2>1
      <3>2. c \in held => One(c \in held) = 1
        BY DEF One
      <3> QED
        BY <1>2, <3>1, <3>2
    <2>3. One(c \in held) = 0 /\ One(c \in held') = 1 /\ refs'[c] = 1
      BY <1>3, <2>1, <2>2 DEF One
    <2>4. CountOK(m, frames, c)
      <3>1. refs'[c] = One(owner[c] # NoOwner) + One(c \in held') + One(retained[c]) + OwedIn(frames, c)
        BY <1>2, <2>2, <2>3
      <3> QED
        BY <1>4, <2>1, <2>3, <3>1 DEF CountOK
    <2>5. StaysFor(Ledger, m, c)
      BY <1>4, <2>1 DEF StaysFor, Waits
    <2>6. /\ refs' \in [Components -> Nat] /\ born' \subseteq Components /\ held' \subseteq Components
          /\ OthersCount(c)
      BY <1>3, <2>1 DEF OthersCount
    <2> QED
      BY <1>1, <2>4, <2>5, <2>6, ReferencesChange DEF m
  <1>6. CASE TakeReference(c)
    <2>1. /\ owner[c] # NoOwner /\ c \notin held /\ refs' = [refs EXCEPT ![c] = @ + 1]
          /\ held' = held \cup {c} /\ born' = born
      BY <1>6 DEF TakeReference
    <2>2. One(c \in held) = 0 /\ One(c \in held') = 1 /\ refs'[c] = refs[c] + 1
      BY <1>3, <2>1 DEF One
    <2>3. CountOK(m, frames, c)
      <3>1. refs'[c] = One(owner[c] # NoOwner) + One(c \in held') + One(retained[c]) + OwedIn(frames, c)
        BY <1>2, <2>2
      <3>2. refs'[c] > 0 /\ c \in born
        BY <2>1, <2>2, CountNow
      <3> QED
        BY <1>4, <2>1, <3>1, <3>2 DEF CountOK
    <2>4. StaysFor(Ledger, m, c)
      BY <1>4, <2>1 DEF StaysFor, Waits
    <2>5. /\ refs' \in [Components -> Nat] /\ born' \subseteq Components /\ held' \subseteq Components
          /\ OthersCount(c)
      <3>1. refs' \in [Components -> Nat]
        BY <1>3, <2>1
      <3> QED
        BY <1>3, <2>1, <3>1 DEF OthersCount
    <2> QED
      BY <1>1, <2>3, <2>4, <2>5, ReferencesChange DEF m
  <1>7. CASE LetGo(c)
    <2>1. /\ c \in held /\ (c \in Working => refs[c] > 1) /\ refs' = [refs EXCEPT ![c] = @ - 1]
          /\ held' = held \ {c} /\ born' = IF refs[c] = 1 THEN born \ {c} ELSE born
      BY <1>7 DEF LetGo, Release
    <2>2. One(c \in held) = 1 /\ One(c \in held') = 0 /\ refs[c] > 0 /\ c \in born
      <3>1. One(c \in held) = 1 /\ One(c \in held') = 0
        BY <2>1 DEF One
      <3> QED
        BY <1>2, <3>1
    <2>3. refs[c] - 1 \in Nat /\ refs'[c] = refs[c] - 1 /\ refs' \in [Components -> Nat]
      BY <1>2, <1>3, <2>1, <2>2
    <2>4. CountOK(m, frames, c)
      <3>1. refs'[c] = One(owner[c] # NoOwner) + One(c \in held') + One(retained[c]) + OwedIn(frames, c)
        BY <1>2, <2>2, <2>3
      <3>2. /\ refs'[c] > 0 => c \in born'
            /\ c \in born' => refs'[c] > 0
        BY <1>2, <2>1, <2>2, <2>3
      <3> QED
        BY <1>4, <3>1, <3>2 DEF CountOK
    <2>5. ASSUME NEW i \in 1..Len(frames), WorksOn(frames[i], c)
          PROVE  StaysFor(Ledger, m, c)
      <3>1. c \in Working
        BY <2>5, NotWorking
      <3>2. born' = born
        BY <1>2, <2>1, <3>1
      <3> QED
        BY <1>4, <2>1, <3>2 DEF StaysFor, Waits
    <2>6. /\ born' \subseteq Components /\ held' \subseteq Components
          /\ OthersCount(c)
      BY <1>3, <2>1 DEF OthersCount
    <2> QED
      BY <1>1, <2>3, <2>4, <2>5, <2>6, ReferencesChange DEF m
  <1> QED
    BY <1>5, <1>6, <1>7
-----------------------------------------------------------------------------
(* One array changes.                                                      *)

\* It is injective, and has the components the entity owns now.
LEMMA ArrayChanges ==
    ASSUME IndInv, OwnInv, NEW p \in Pools, NEW x \in Live(p), NEW list \in Seq(Components),
           comps' = [comps EXCEPT ![p][Slot(x)] = list], IsInjective(list),
           \A c \in Components : c \in ToSet(list) <=> owner'[c] = <<p, x>>,
           \A c \in Components : owner'[c] # owner[c] =>
              owner[c] \in {NoOwner, <<p, x>>} /\ owner'[c] \in {NoOwner, <<p, x>>}
    PROVE  /\ ArraysOK(Ledger', gen) /\ OwnersLive(Ledger', World.live)
           /\ comps' \in [Pools -> [Slots -> Seq(Components)]]
           /\ \A q \in Pools, r \in Slots :
                q # p \/ r # Slot(x) => (Ledger').comps[q][r] = comps[q][r]
           /\ (Ledger').comps[p][Slot(x)] = list
  <1> DEFINE m == Ledger'
             s == Slot(x)
  <1>1. /\ m.owner = owner' /\ m.comps = comps' /\ Ledger.owner = owner /\ Ledger.comps = comps
    BY LedgerNow
  <1>2. /\ x \in Ids /\ s \in Slots /\ x = <<s, gen[p][s]>>
        /\ gen \in [Pools -> [Slots -> Nat]] /\ World.live[p] = Live(p)
    BY LiveNow
  <1>3. comps \in [Pools -> [Slots -> Seq(Components)]]
    BY LedgerTyped
  <1> HIDE DEF m, s
  <1>4. /\ comps' \in [Pools -> [Slots -> Seq(Components)]]
        /\ \A q \in Pools, r \in Slots : q # p \/ r # s => m.comps[q][r] = comps[q][r]
        /\ m.comps[p][s] = list
    BY <1>1, <1>2, <1>3 DEF s
  <1>5. ArrayIs(list, OwnedBy(m, p, x))
    <2>1. ToSet(list) \subseteq Components
      BY ToSetFacts
    <2> QED
      BY <1>1, <2>1 DEF ArrayIs, OwnedBy
  <1>6. ArraysOK(m, gen)
    <2>1. ArraysOK(Ledger, gen)
      BY DEF OwnInv
    <2>2. \A c \in Components : m.owner[c] # Ledger.owner[c] =>
             /\ Ledger.owner[c] \in {NoOwner, <<p, <<s, gen[p][s]>>>>}
             /\ m.owner[c] \in {NoOwner, <<p, <<s, gen[p][s]>>>>}
      BY <1>1, <1>2
    <2>3. ArrayIs(m.comps[p][s], OwnedBy(m, p, <<s, gen[p][s]>>))
      BY <1>2, <1>4, <1>5
    <2>4. \A q \in Pools, r \in Slots : q # p \/ r # s => m.comps[q][r] = Ledger.comps[q][r]
      BY <1>1, <1>4
    <2> QED
      BY ONLY <1>2, <2>1, <2>2, <2>3, <2>4, p \in Pools, OneArrayOwned
  <1>7. OwnersLive(m, World.live)
    <2> SUFFICES ASSUME NEW c \in Components, NEW q \in Pools, NEW y \in Ids, owner'[c] = <<q, y>>
                 PROVE  y \in World.live[q]
      BY <1>1 DEF OwnersLive
    <2>1. owner[c] = <<q, y>> => y \in World.live[q]
      BY <1>1 DEF OwnInv, OwnersLive
    <2>2. <<q, y>> # NoOwner
      BY PoolAssumption
    <2>3. CASE owner'[c] # owner[c]
      <3>1. <<q, y>> = <<p, x>>
        BY <2>2, <2>3
      <3>2. q = p /\ y = x
        BY ONLY <3>1
      <3> QED
        BY <1>2, <3>2
    <2> QED
      BY <2>1, <2>3
  <1> QED
    BY <1>4, <1>6, <1>7 DEF m, s

\* The array of a live entity.
LEMMA ArrayNow ==
    ASSUME IndInv, OwnInv, NEW p \in Pools, NEW x \in Live(p)
    PROVE  /\ x \in Ids /\ Slot(x) \in Slots
           /\ comps[p][Slot(x)] \in Seq(Components) /\ IsInjective(comps[p][Slot(x)])
           /\ \A c \in Components : c \in ToSet(comps[p][Slot(x)]) <=> owner[c] = <<p, x>>
           /\ <<p, x>> # NoOwner
           /\ \A y \in Live(p) : y # x => Slot(y) # Slot(x)
  <1>1. x \in Ids /\ Slot(x) \in Slots /\ x = <<Slot(x), gen[p][Slot(x)]>>
        /\ \A y \in Live(p) : y # x => Slot(y) # Slot(x)
    BY LiveNow
  <1>2. PICK s : s = Slot(x)
    OBVIOUS
  <1>3. /\ comps[p][s] \in Seq(Components) /\ IsInjective(comps[p][s])
        /\ \A c \in Components : c \in ToSet(comps[p][s]) <=> owner[c] = <<p, <<s, gen[p][s]>>>>
    BY <1>1, <1>2, OwnersNow
  <1>4. x = <<s, gen[p][s]>>
    BY <1>1, <1>2
  <1>5. \A c \in Components : c \in ToSet(comps[p][s]) <=> owner[c] = <<p, x>>
    BY <1>3, <1>4
  <1>6. <<p, x>> # NoOwner
    BY <1>1, PoolAssumption
  <1> QED
    BY <1>1, <1>2, <1>3, <1>5, <1>6

LEMMA SetComponentIndexOwns ==
    ASSUME IndInv, OwnInv, NEW p \in Pools, NEW id \in Usable(p), NEW c \in Components,
           NEW k \in 1..Len(comps[p][Slot(id)]), SetComponentIndex(p, id, c, k)
    PROVE  OwnInv'
  <1> DEFINE list == comps[p][Slot(id)]
  <1>1. /\ UNCHANGED slotVars /\ owner' = owner /\ registered' = registered /\ UNCHANGED lifeVars
        /\ frames' = frames /\ comps' = [comps EXCEPT ![p][Slot(id)] = Moved(list, c, k)]
        /\ Settled(p, id) /\ HostRuns /\ owner[c] = <<p, id>>
    BY DEF SetComponentIndex
  <1>2. id \in Live(p) /\ id \notin Leaving(p)
    BY FramesNow
  <1>3. /\ list \in Seq(Components) /\ IsInjective(list)
        /\ \A d \in Components : d \in ToSet(list) <=> owner[d] = <<p, id>>
        /\ Slot(id) \in Slots
        /\ \A y \in Live(p) : y # id => Slot(y) # Slot(id)
    BY <1>2, ArrayNow
  <1>4. c \in ToSet(list) /\ k \in 1..Len(list)
    BY <1>1, <1>3
  <1> HIDE DEF list
  <1> DEFINE moved == Moved(list, c, k)
             m == Ledger'
  <1>5. moved \in Seq(Components) /\ ToSet(moved) = ToSet(list) /\ IsInjective(moved)
    BY <1>3, <1>4, MovedFacts DEF Moved
  <1> HIDE DEF moved
  <1>6. \A d \in Components : d \in ToSet(moved) <=> owner'[d] = <<p, id>>
    BY <1>1, <1>3, <1>5
  <1>7. comps' = [comps EXCEPT ![p][Slot(id)] = moved]
    BY <1>1 DEF moved
  <1>8. /\ ArraysOK(m, gen) /\ OwnersLive(m, World.live)
        /\ comps' \in [Pools -> [Slots -> Seq(Components)]]
        /\ \A q \in Pools, r \in Slots : q # p \/ r # Slot(id) => m.comps[q][r] = comps[q][r]
    BY <1>1, <1>2, <1>5, <1>6, <1>7, ArrayChanges
  <1>9. /\ m.born = born /\ m.owner = owner /\ m.registered = registered /\ m.refs = refs
        /\ m.held = held /\ m.retained = retained
    BY <1>1, LedgerNow DEF lifeVars
  <1>10. m \in Ledgers
    <2>1. born' = born /\ refs' = refs /\ held' = held /\ retained' = retained
      BY <1>1 DEF lifeVars
    <2> QED
      BY <1>1, <1>8, <2>1, LedgerTyped, LedgerNext
  <1> HIDE DEF m
  <1>11. ASSUME NEW i \in 1..Len(frames)
         PROVE  LeavesAlone(Ledger, m, frames[i])
    <2> DEFINE f == frames[i]
    <2>1. /\ f \in Frames /\ f.pool \in Pools /\ f \in Running /\ f.op # "migrate"
          /\ f.op # "destroy" => f.id \in Live(f.pool) /\ Slot(f.id) \in Slots
          /\ Emptied(f) => f.op # "destroy" /\ ArrayOf(Ledger, f) = <<>>
          /\ ArrayOf(Ledger, f) = comps[f.pool][Slot(f.id)]
          /\ f.op = "free" /\ f.stage = "published" /\ f.pool = p => f.id # id
      <3>1. f.op # "migrate"
        BY <1>1, ProperNow, NoMigrationUnderHost DEF Proper
      <3>2. f.op = "free" /\ f.stage = "published" /\ f.pool = p => f.id # id
        BY <1>2, FramesNow
      <3>3. ArrayOf(Ledger, f) = comps[f.pool][Slot(f.id)]
        BY LedgerNow DEF ArrayOf
      <3>4. f \in Running
        BY FramesNow
      <3> QED
        BY <3>1, <3>2, <3>3, <3>4, FrameNow
    <2> HIDE DEF f
    <2>2. Replacing(f) /\ f.pool = p => f.id # id
      BY <1>1, <2>1 DEF Settled, Replacing
    <2>3. ASSUME f.op # "destroy", f.pool = p => f.id # id
          PROVE  ArrayOf(m, f) = ArrayOf(Ledger, f)
      BY <1>3, <1>8, <2>1, <2>3 DEF ArrayOf
    <2>4. ArrayStays(Ledger, m, f)
      <3>1. ASSUME Replacing(f) PROVE Extends(ArrayOf(Ledger, f), ArrayOf(m, f))
        <4>1. ArrayOf(m, f) = ArrayOf(Ledger, f) /\ f.op # "destroy"
          BY <2>2, <2>3, <3>1 DEF Replacing
        <4>2. ArrayOf(Ledger, f) \in Seq(Components)
          BY <4>1, FrameNow DEF f
        <4> QED
          BY <4>1, <4>2 DEF Extends
      <3>2. ASSUME Emptied(f) PROVE ArrayOf(m, f) = <<>>
        BY <2>1, <2>3, <3>2 DEF Emptied
      <3> QED
        BY <3>1, <3>2 DEF ArrayStays
    <2>5. \A d \in Components : StaysFor(Ledger, m, d)
      BY <1>9, LedgerNow DEF StaysFor, Waits
    <2> QED
      BY <2>4, <2>5 DEF LeavesAlone, f
  <1>12. WorkOK(m, frames)
    BY <1>11, WorkOfAll
  <1>13. Settles(m, frames)
    <2>1. \A d \in Components : SameEntry(Ledger, m, d) /\ SameTally(Ledger, frames, frames, d)
      BY <1>9, LedgerNow DEF SameEntry, SameTally
    <2>2. Settles(Ledger, frames)
      BY DEF OwnInv
    <2> QED
      BY <2>1, <2>2, EntryStands DEF Settles
  <1> QED
    BY <1>1, <1>8, <1>10, <1>12, <1>13, LedgerChanges DEF m
-----------------------------------------------------------------------------
(* A component is about to be removed: off the scene, then on_removed.     *)

\* An operation works on a component some entity has: it is the one of the
\* operation's entity.
LEMMA WorkedOn ==
    ASSUME NEW l \in Ledgers, NEW f, StagesOK(f), FrameHolds(l, f), NEW c \in Components,
           WorksOn(f, c), l.owner[c] # NoOwner
    PROVE  f.comp = c /\ l.owner[c] = <<f.pool, f.id>>
  <1>1. NoComponent \notin Components
    BY PoolAssumption
  <1>2. f.comp = c
    BY <1>1 DEF WorksOn, StagesOK, FrameHolds, Replacing, Waits
  <1>3. f.stage \in {"removing", "added"}
    BY <1>1, <1>2 DEF StagesOK, FrameHolds, Waits
  <1> QED
    BY <1>2, <1>3 DEF FrameHolds

LEMMA RemovalBegins ==
    ASSUME IndInv, OwnInv, UNCHANGED slotVars, comps' = comps, owner' = owner, UNCHANGED lifeVars,
           NEW p \in Pools, NEW c \in Components, NEW x \in Ids, owner[c] = <<p, x>>, ~RemovedIn(frames, c),
           registered' = Unregistered(p, c),
           WorkOK(Ledger, frames'), RemovedIn(frames', c), OwedIn(frames', c) = OwedIn(frames, c),
           \A d \in Components : d # c => SameTally(Ledger, frames, frames', d)
    PROVE  OwnInv'
  <1> DEFINE m == Ledger'
  <1>1. /\ m.born = born /\ m.owner = owner /\ m.registered = registered' /\ m.refs = refs
        /\ m.held = held /\ m.retained = retained /\ m.comps = comps
        /\ Ledger.born = born /\ Ledger.owner = owner /\ Ledger.registered = registered
        /\ Ledger.refs = refs /\ Ledger.held = held /\ Ledger.retained = retained /\ Ledger.comps = comps
    BY LedgerNow DEF lifeVars
  <1>2. registered \in [Components -> Pools \cup {NoPool}]
    BY LedgerTyped
  <1>3. registered' = [registered EXCEPT ![c] = NoPool]
    <2>1. owner[c] # NoOwner /\ owner[c][1] = p
      BY PoolAssumption
    <2>2. registered[c] = p
      BY <2>1, CountNow
    <2> QED
      BY <2>2 DEF Unregistered
  <1>4. m \in Ledgers
    <2>1. born' = born /\ refs' = refs /\ held' = held /\ retained' = retained
      BY DEF lifeVars
    <2>2. registered' \in [Components -> Pools \cup {NoPool}]
      BY <1>2, <1>3
    <2> QED
      BY <2>1, <2>2, LedgerTyped, LedgerNext
  <1> HIDE DEF m
  <1>5. WorkOK(m, frames')
    BY <1>1, SameHolds
  <1>6. \A d \in Components : d \notin {c} => SameEntry(Ledger, m, d) /\ SameTally(Ledger, frames, frames', d)
    BY <1>1, <1>2, <1>3 DEF SameEntry
  <1>7. \A d \in Components : d \in {c} => CountOK(m, frames', d) /\ SceneOK(m, frames', d)
    <2>1. owner[c] # NoOwner
      BY PoolAssumption
    <2>2. /\ refs[c] = One(owner[c] # NoOwner) + One(c \in held) + One(retained[c]) + OwedIn(frames', c)
          /\ refs[c] > 0 /\ c \in born
      BY <2>1, CountNow
    <2>3. registered'[c] = NoPool
      BY <1>2, <1>3
    <2> QED
      BY <1>1, <2>2, <2>3 DEF CountOK, SceneOK
  <1>8. Settles(Ledger, frames)
    BY DEF OwnInv
  <1>9. Settles(m, frames')
    BY ONLY <1>6, <1>7, <1>8, OthersSettle
  <1> QED
    BY <1>4, <1>5, <1>9, OwnersUnchanged DEF m

\* A removal the host begins.
LEMMA HostRemoval ==
    ASSUME IndInv, OwnInv, UNCHANGED slotVars, comps' = comps, owner' = owner, UNCHANGED lifeVars,
           NEW g \in Frames, FitsOn(Ledger, frames, g),
           g.comp \in Components, g.stage = "removing", g.made = FALSE, g.id \in Ids,
           g.comp \notin Working, registered' = Unregistered(g.pool, g.comp),
           frames' = Append(frames, g)
    PROVE  OwnInv'
  <1>1. frames \in Seq(Frames) /\ WorkOK(Ledger, frames) /\ g.pool \in Pools
    BY ProperNow, FrameFields DEF OwnInv
  <1> DEFINE c == g.comp
  <1>2. owner[c] = <<g.pool, g.id>>
    BY LedgerNow DEF FitsOn, FrameHolds
  <1>3. ~RemovedIn(frames, c)
    BY NotWorking DEF RemovedIn, Removes, WorksOn
  <1>4. WorkOK(Ledger, frames')
    BY <1>1, WorkOnTop
  <1>5. Removes(g, c) /\ \A d \in Components : ~Owes(g, d) /\ (d # c => ~Removes(g, d))
    BY DEF Removes, Owes
  <1>6. RemovedIn(frames', c) /\ OwedIn(frames', c) = OwedIn(frames, c)
    <2>1. /\ OwedIn(frames, c) \in Nat
          /\ OwedIn(Append(frames, g), c) = OwedIn(frames, c) + One(Owes(g, c))
          /\ RemovedIn(Append(frames, g), c) <=> RemovedIn(frames, c) \/ Removes(g, c)
      BY <1>1, TallyOnTop
    <2>2. One(Owes(g, c)) = 0
      BY <1>5 DEF One
    <2> QED
      BY <1>5, <2>1, <2>2
  <1>7. \A d \in Components : d # c => SameTally(Ledger, frames, frames', d)
    BY <1>1, <1>5, TallyWithout
  <1> HIDE DEF c
  <1>8. c \in Components /\ registered' = Unregistered(g.pool, c)
    BY DEF c
  <1> QED
    BY ONLY <1>1, <1>2, <1>3, <1>4, <1>6, <1>7, <1>8, RemovalBegins, IndInv, OwnInv, UNCHANGED slotVars,
            comps' = comps, owner' = owner, UNCHANGED lifeVars, g.id \in Ids

LEMMA RemoveComponentOwns ==
    ASSUME IndInv, OwnInv, NEW p \in Pools, NEW id \in Usable(p), NEW c \in Components,
           RemoveComponent(p, id, c)
    PROVE  OwnInv'
  <1> DEFINE g == [Frame("remove", p, id) EXCEPT !.comp = c, !.stage = "removing"]
  <1>1. /\ Settled(p, id) /\ owner[c] = <<p, id>> /\ c \notin Working
        /\ frames' = Append(frames, g) /\ registered' = Unregistered(p, c)
        /\ UNCHANGED slotVars /\ comps' = comps /\ owner' = owner /\ UNCHANGED lifeVars
    BY DEF RemoveComponent, BeginRemoval, Pushed
  <1>2. id \in Ids
    BY FramesNow
  <1>3. /\ g \in Frames /\ g.op = "remove" /\ g.stage = "removing" /\ g.pool = p /\ g.id = id
        /\ g.comp = c /\ g.other = NoComponent /\ g.made = FALSE
    BY <1>2 DEF Frame, Frames
  <1> HIDE DEF g
  <1>4. NoComponent \notin Components /\ c # NoComponent
    BY PoolAssumption
  <1>5. StagesOK(g)
    BY <1>3, <1>4 DEF StagesOK
  <1>6. FrameHolds(Ledger, g)
    BY <1>1, <1>3, LedgerNow DEF FrameHolds, ArrayHolds, Replacing, Emptied
  <1>7. ASSUME NEW i \in 1..Len(frames)
        PROVE  ApartOK(frames[i], g)
    <2>1. frames[i] \in Running
      BY FramesNow
    <2>2. Replacing(frames[i]) /\ frames[i].pool = p => frames[i].id # id
      BY <1>1, <2>1 DEF Settled, Replacing
    <2> QED
      BY <1>1, <1>3, <1>4, <2>2, NotWorking DEF ApartOK
  <1>8. FitsOn(Ledger, frames, g)
    BY <1>3, <1>5, <1>6, <1>7 DEF FitsOn, BegunOK
  <1> QED
    BY <1>1, <1>2, <1>3, <1>8, HostRemoval

LEMMA ReplaceComponentOwns ==
    ASSUME IndInv, OwnInv, NEW p \in Pools, NEW id \in Usable(p), NEW new \in Components,
           NEW k \in 1..Len(comps[p][Slot(id)]), ReplaceComponent(p, id, k, new)
    PROVE  OwnInv'
  <1>a. PICK c : c = comps[p][Slot(id)][k]
    OBVIOUS
  <1> DEFINE g == [[Frame("replace", p, id) EXCEPT !.other = new, !.at = k] EXCEPT !.comp = c, !.stage = "removing"]
  <1>1. /\ Settled(p, id) /\ owner[c] = <<p, id>> /\ c \notin Working
        /\ new \in born /\ new \notin Working /\ owner[new] = NoOwner
        /\ frames' = Append(frames, g) /\ registered' = Unregistered(p, c)
        /\ UNCHANGED slotVars /\ comps' = comps /\ owner' = owner /\ UNCHANGED lifeVars
    BY <1>a DEF ReplaceComponent, BeginRemoval, Pushed
  <1>2. id \in Ids /\ id \in Live(p)
    BY FramesNow
  <1>3. c \in Components /\ k \in Nat
    BY <1>2, <1>a, ArrayNow
  <1>4. /\ g \in Frames /\ g.op = "replace" /\ g.stage = "removing" /\ g.pool = p /\ g.id = id
        /\ g.comp = c /\ g.other = new /\ g.made = FALSE /\ g.at = k
    BY <1>2, <1>3 DEF Frame, Frames
  <1> HIDE DEF g
  <1>5. NoComponent \notin Components /\ c # NoComponent /\ new # NoComponent
    BY <1>3, PoolAssumption
  <1>6. StagesOK(g)
    BY <1>4, <1>5 DEF StagesOK
  <1>7. FrameHolds(Ledger, g)
    <2>1. ArrayOf(Ledger, g) = comps[p][Slot(id)] /\ Waits(Ledger, new)
      BY <1>1, <1>4, LedgerNow DEF ArrayOf, Waits
    <2>2. ArrayHolds(Ledger, g)
      BY <1>a, <1>4, <2>1 DEF ArrayHolds, Emptied
    <2> QED
      BY <1>1, <1>4, <2>1, <2>2, LedgerNow DEF FrameHolds
  <1>8. ASSUME NEW i \in 1..Len(frames)
        PROVE  ApartOK(frames[i], g)
    <2>1. frames[i] \in Running
      BY FramesNow
    <2>2. Replacing(frames[i]) /\ frames[i].pool = p => frames[i].id # id
      BY <1>1, <2>1 DEF Settled, Replacing
    <2> QED
      BY <1>1, <1>4, <2>2, NotWorking DEF ApartOK
  <1>9. FitsOn(Ledger, frames, g)
    BY <1>4, <1>6, <1>7, <1>8 DEF FitsOn, BegunOK
  <1> QED
    BY <1>1, <1>2, <1>3, <1>4, <1>9, HostRemoval

LEMMA FreeComponentOwns ==
    ASSUME IndInv, OwnInv, FreeComponent
    PROVE  OwnInv'
  <1>a. PICK p, x, c : p = Top.pool /\ x = Top.id /\ c = Head(comps[p][Slot(x)])
    OBVIOUS
  <1> DEFINE g == [Top EXCEPT !.comp = c, !.stage = "removing"]
  <1>1. /\ frames # <<>> /\ Top.op = "free" /\ Top.stage = "begin" /\ comps[p][Slot(x)] # <<>>
        /\ registered' = Unregistered(p, c) /\ frames' = [frames EXCEPT ![Depth] = g]
        /\ UNCHANGED slotVars /\ comps' = comps /\ owner' = owner /\ UNCHANGED lifeVars
    BY <1>a DEF FreeComponent, At, Became
  <1>2. /\ Top \in Frames /\ Popped \in Seq(Frames) /\ frames = Append(Popped, Top)
        /\ Ledger \in Ledgers /\ WorkOK(Ledger, Popped) /\ StagesOK(Top)
        /\ \A h \in Frames : [frames EXCEPT ![Depth] = h] = Append(Popped, h)
    BY <1>1, TopWork
  <1>3. /\ Plain(Top) /\ p \in Pools /\ x \in Live(p)
        /\ \A d \in Components : ~Owes(Top, d) /\ ~Removes(Top, d) /\ ~Makes(Top, d)
    BY <1>1, <1>a, TopIndex, PlainTop, TopNow
  <1>4. c \in Components /\ owner[c] = <<p, x>> /\ x \in Ids /\ <<p, x>> # NoOwner
    <2> DEFINE list == comps[p][Slot(x)]
    <2>1. /\ list \in Seq(Components) /\ list # <<>> /\ x \in Ids /\ <<p, x>> # NoOwner
          /\ \A d \in Components : d \in ToSet(list) <=> owner[d] = <<p, x>>
      BY <1>1, <1>3, ArrayNow
    <2>2. c = Head(list)
      BY <1>a
    <2> HIDE DEF list
    <2>3. c \in Components /\ c \in ToSet(list)
      BY <2>1, <2>2, HeadFacts
    <2> QED
      BY <2>1, <2>3
  <1>5. /\ g \in Frames /\ g.op = "free" /\ g.stage = "removing" /\ g.pool = p /\ g.id = x
        /\ g.comp = c /\ g.other = NoComponent
    BY <1>1, <1>2, <1>3, <1>4, <1>a DEF Frames, Plain
  <1> HIDE DEF g
  <1>6. NoComponent \notin Components /\ c # NoComponent
    BY <1>4, PoolAssumption
  <1>7. ASSUME NEW i \in 1..Len(Popped) PROVE ~WorksOn(Popped[i], c)
    <2> DEFINE f == Popped[i]
    <2>1. /\ StagesOK(f) /\ FrameHolds(Ledger, f)
          /\ f.comp # NoComponent /\ f.pool = Top.pool => f.id # Top.id
      BY <1>1, <1>2, BelowTop DEF WorkOK
    <2> HIDE DEF f
    <2> SUFFICES ASSUME WorksOn(f, c) PROVE FALSE
      BY DEF f
    <2>2. f.comp = c /\ Ledger.owner[c] = <<f.pool, f.id>>
      <3>1. Ledger.owner[c] # NoOwner
        BY <1>4, LedgerNow
      <3>2. Ledger \in Ledgers /\ StagesOK(f) /\ FrameHolds(Ledger, f) /\ WorksOn(f, c) /\ c \in Components
        BY <1>2, <1>4, <2>1
      <3> QED
        BY ONLY <3>1, <3>2, WorkedOn
    <2>3. f.pool = p /\ f.id = x
      BY <1>4, <2>2, LedgerNow
    <2> QED
      BY <1>6, <1>a, <2>1, <2>2, <2>3
  <1>8. FitsOn(Ledger, Popped, g)
    <2>1. StagesOK(g)
      BY <1>5, <1>6 DEF StagesOK
    <2>2. FrameHolds(Ledger, g)
      BY <1>4, <1>5, LedgerNow DEF FrameHolds, ArrayHolds, Replacing, Emptied
    <2>3. \A i \in 1..Len(Popped) : ApartOK(Popped[i], g)
      BY <1>5, <1>6, <1>7 DEF ApartOK
    <2> QED
      BY <1>5, <2>1, <2>2, <2>3 DEF FitsOn, BegunOK
  <1>9. frames' = Append(Popped, g)
    BY <1>1, <1>2, <1>5
  <1>10. WorkOK(Ledger, frames')
    BY <1>2, <1>5, <1>8, <1>9, WorkOnTop
  <1>11. /\ ~RemovedIn(frames, c) /\ RemovedIn(frames', c) /\ OwedIn(frames', c) = OwedIn(frames, c)
    <2>1. ~RemovedIn(Popped, c)
      BY <1>7 DEF RemovedIn, Removes, WorksOn
    <2>2. Removes(g, c) /\ ~Removes(Top, c) /\ One(Owes(Top, c)) = 0 /\ One(Owes(g, c)) = 0
      BY <1>3, <1>4, <1>5 DEF One, Removes, Owes
    <2>3. /\ OwedIn(Append(Popped, g), c) = OwedIn(Popped, c) + One(Owes(g, c))
          /\ RemovedIn(Append(Popped, g), c) <=> RemovedIn(Popped, c) \/ Removes(g, c)
      BY <1>2, <1>5, TallyOnTop
    <2>4. /\ OwedIn(Append(Popped, Top), c) = OwedIn(Popped, c) + One(Owes(Top, c))
          /\ RemovedIn(Append(Popped, Top), c) <=> RemovedIn(Popped, c) \/ Removes(Top, c)
      BY <1>2, TallyOnTop
    <2> QED
      BY <1>2, <1>9, <2>1, <2>2, <2>3, <2>4
  <1>12. ASSUME NEW d \in Components, d # c
         PROVE  SameTally(Ledger, frames, frames', d)
    <2>1. /\ Owes(Top, d) <=> Owes(g, d)
          /\ Removes(Top, d) <=> Removes(g, d)
          /\ ~Makes(Top, d)
      BY <1>3, <1>5, <1>6, <1>12 DEF Owes, Removes
    <2> QED
      BY <1>2, <1>5, <1>9, <2>1, TallyInstead
  <1> QED
    BY <1>1, <1>3, <1>4, <1>10, <1>11, <1>12, RemovalBegins
-----------------------------------------------------------------------------
(* The innermost operation changes what its components are to the others.  *)

OthersKept(S) ==
    \A d \in Components : d \notin S =>
        /\ owner'[d] = owner[d] /\ registered'[d] = registered[d]
        /\ refs'[d] = refs[d] /\ retained'[d] = retained[d]
        /\ d \in held' <=> d \in held
        /\ d \in born' <=> d \in born

\* The others are the same to whoever works on them.
LEMMA OthersStay ==
    ASSUME NEW S, OthersKept(S), NEW d \in Components, d \notin S
    PROVE  SameEntry(Ledger, Ledger', d) /\ StaysFor(Ledger, Ledger', d)
  <1>1. /\ owner'[d] = owner[d] /\ registered'[d] = registered[d]
        /\ refs'[d] = refs[d] /\ retained'[d] = retained[d]
        /\ d \in held' <=> d \in held
        /\ d \in born' <=> d \in born
    BY DEF OthersKept
  <1> QED
    BY <1>1, LedgerNow DEF SameEntry, StaysFor, Waits

\* What is owed to a component beneath the innermost operation, and by it.
LEMMA TopTally ==
    ASSUME IndInv, OwnInv, frames # <<>>, NEW c \in Components
    PROVE  /\ OwedIn(Popped, c) \in Nat
           /\ OwedIn(frames, c) = OwedIn(Popped, c) + One(Owes(Top, c))
           /\ RemovedIn(frames, c) <=> RemovedIn(Popped, c) \/ Removes(Top, c)
           /\ MadeIn(frames, c) <=> MadeIn(Popped, c) \/ Makes(Top, c)
           /\ (\A i \in 1..Len(Popped) : ~WorksOn(Popped[i], c)) => ~RemovedIn(Popped, c)
           /\ \A g \in Frames :
                /\ OwedIn(Append(Popped, g), c) = OwedIn(Popped, c) + One(Owes(g, c))
                /\ RemovedIn(Append(Popped, g), c) <=> RemovedIn(Popped, c) \/ Removes(g, c)
                /\ MadeIn(Append(Popped, g), c) <=> MadeIn(Popped, c) \/ Makes(g, c)
  <1>1. Top \in Frames /\ Popped \in Seq(Frames) /\ frames = Append(Popped, Top)
    BY TopWork
  <1>2. (\A i \in 1..Len(Popped) : ~WorksOn(Popped[i], c)) => ~RemovedIn(Popped, c)
    BY DEF RemovedIn, Removes, WorksOn
  <1>3. \A g \in Frames :
           /\ OwedIn(Popped, c) \in Nat
           /\ OwedIn(Append(Popped, g), c) = OwedIn(Popped, c) + One(Owes(g, c))
           /\ RemovedIn(Append(Popped, g), c) <=> RemovedIn(Popped, c) \/ Removes(g, c)
           /\ MadeIn(Append(Popped, g), c) <=> MadeIn(Popped, c) \/ Makes(g, c)
    BY <1>1, TallyOnTop
  <1> QED
    BY <1>1, <1>2, <1>3

\* What the operations beneath rely on, when S is all that changes.
LEMMA BeneathStands ==
    ASSUME IndInv, OwnInv, frames # <<>>, NEW S, OthersKept(S),
           \A i \in 1..Len(Popped) : ArrayStays(Ledger, Ledger', Popped[i]),
           \A i \in 1..Len(Popped) : \A d \in Components : d \in S => ~WorksOn(Popped[i], d)
    PROVE  WorkOK(Ledger', Popped)
  <1>1. \A i \in 1..Len(Popped) : \A d \in Components :
           WorksOn(Popped[i], d) => StaysFor(Ledger, Ledger', d)
    BY OthersStay
  <1> QED
    BY <1>1, WorkBeneath

\* The innermost operation goes on.
LEMMA TopChanges ==
    ASSUME IndInv, OwnInv, frames # <<>>, UNCHANGED slotVars, Ledger' \in Ledgers,
           ArraysOK(Ledger', gen), OwnersLive(Ledger', World.live),
           NEW S, OthersKept(S),
           \A i \in 1..Len(Popped) : ArrayStays(Ledger, Ledger', Popped[i]),
           \A i \in 1..Len(Popped) : \A d \in Components : d \in S => ~WorksOn(Popped[i], d),
           NEW g \in Frames, FitsOn(Ledger', Popped, g), frames' = Append(Popped, g),
           \A d \in Components : d \notin S =>
              /\ Owes(Top, d) <=> Owes(g, d)
              /\ Removes(Top, d) <=> Removes(g, d)
              /\ Makes(Top, d) => Makes(g, d) \/ refs[d] > 0,
           \A d \in Components : d \in S =>
              CountOK(Ledger', Append(Popped, g), d) /\ SceneOK(Ledger', Append(Popped, g), d)
    PROVE  OwnInv'
  <1>1. Top \in Frames /\ Popped \in Seq(Frames) /\ frames = Append(Popped, Top)
    BY TopWork
  <1>2. WorkOK(Ledger', frames')
    <2>1. WorkOK(Ledger', Popped)
      BY BeneathStands
    <2> QED
      BY <1>1, <2>1, WorkOnTop
  <1>3. ASSUME NEW d \in Components, d \notin S
        PROVE  SameEntry(Ledger, Ledger', d) /\ SameTally(Ledger, frames, frames', d)
    <2>1. SameEntry(Ledger, Ledger', d)
      BY <1>3, OthersStay
    <2>2. /\ Owes(Top, d) <=> Owes(g, d)
          /\ Removes(Top, d) <=> Removes(g, d)
          /\ Makes(Top, d) => Makes(g, d) \/ Ledger.refs[d] > 0
      BY <1>3, LedgerNow
    <2>3. SameTally(Ledger, Append(Popped, Top), Append(Popped, g), d)
      BY <1>1, <2>2, TallyInstead
    <2> QED
      BY <1>1, <2>1, <2>3
  <1>4. Settles(Ledger, frames)
    BY DEF OwnInv
  <1>5. \A d \in Components : d \in S => CountOK(Ledger', frames', d) /\ SceneOK(Ledger', frames', d)
    OBVIOUS
  <1>6. Settles(Ledger', frames')
    BY ONLY <1>3, <1>4, <1>5, OthersSettle
  <1> QED
    BY <1>2, <1>6, LedgerChanges

\* The innermost operation ends, with a release: no array and no owner changes.
LEMMA TopReleases ==
    ASSUME IndInv, OwnInv, frames # <<>>, UNCHANGED slotVars, comps' = comps, owner' = owner,
           registered' = registered, held' = held, retained' = retained,
           NEW c \in Components, c = Top.other, Release(c), frames' = Popped, Top.stage # "removing",
           \A d \in Components : Makes(Top, d) => refs[d] > 0
    PROVE  OwnInv'
  <1> DEFINE m == Ledger'
  <1>1. /\ m.born = born' /\ m.owner = owner /\ m.registered = registered /\ m.refs = refs'
        /\ m.held = held /\ m.retained = retained /\ m.comps = comps
        /\ Ledger.born = born /\ Ledger.owner = owner /\ Ledger.registered = registered
        /\ Ledger.refs = refs /\ Ledger.held = held /\ Ledger.retained = retained /\ Ledger.comps = comps
    BY LedgerNow
  <1>2. /\ refs' = [refs EXCEPT ![c] = @ - 1] /\ born' = IF refs[c] = 1 THEN born \ {c} ELSE born
        /\ refs \in [Components -> Nat] /\ born \subseteq Components
    BY LedgerTyped DEF Release
  <1>3. /\ Top \in Frames /\ Popped \in Seq(Frames) /\ frames = Append(Popped, Top)
        /\ \A i \in 1..Len(Popped) : ApartOK(Popped[i], Top)
    BY TopWork
  <1>4. Owes(Top, c) /\ (\A d \in Components : ~Removes(Top, d) /\ (d # c => ~Owes(Top, d)))
    BY DEF Owes, Removes
  <1>5. /\ refs[c] = One(owner[c] # NoOwner) + One(c \in held) + One(retained[c]) + OwedIn(frames, c)
        /\ OwedIn(frames, c) = OwedIn(Popped, c) + 1 /\ OwedIn(Popped, c) \in Nat
        /\ refs[c] > 0 /\ c \in born /\ refs[c] \in Nat
        /\ One(owner[c] # NoOwner) \in Nat /\ One(c \in held) \in Nat /\ One(retained[c]) \in Nat
    <2>1. One(Owes(Top, c)) = 1
      BY <1>4 DEF One
    <2>2. OwedIn(frames, c) = OwedIn(Popped, c) + 1 /\ OwedIn(Popped, c) \in Nat
      BY <2>1, TopTally
    <2>3. /\ refs[c] = One(owner[c] # NoOwner) + One(c \in held) + One(retained[c]) + OwedIn(frames, c)
          /\ OwedIn(frames, c) > 0 => refs[c] > 0
          /\ refs[c] > 0 => c \in born
          /\ refs[c] \in Nat
      BY CountNow
    <2> QED
      BY <2>2, <2>3 DEF One
  <1>6. /\ refs' \in [Components -> Nat] /\ refs'[c] = refs[c] - 1
        /\ refs'[c] > 0 <=> c \in born'
    <2>1. refs[c] - 1 \in Nat
      BY <1>5
    <2>2. refs' \in [Components -> Nat] /\ refs'[c] = refs[c] - 1
      BY <1>2, <2>1
    <2>3. refs[c] - 1 > 0 <=> refs[c] # 1
      BY <1>5
    <2>4. c \in born' <=> refs[c] # 1
      BY <1>2, <1>5
    <2> QED
      BY <2>2, <2>3, <2>4
  <1>7. OthersKept({c})
    BY <1>2 DEF OthersKept
  <1>8. m \in Ledgers
    <2>1. born' \subseteq Components
      BY <1>2
    <2> QED
      BY <1>6, <2>1, LedgerTyped, LedgerNext
  <1> HIDE DEF m
  <1>9. WorkOK(m, Popped)
    <2>1. ASSUME NEW i \in 1..Len(Popped) PROVE ArrayStays(Ledger, m, Popped[i])
      <3>1. i \in 1..Len(frames) /\ Popped[i] = frames[i]
        BY BelowTop
      <3>2. ArrayOf(m, frames[i]) = ArrayOf(Ledger, frames[i])
        BY <1>1 DEF ArrayOf
      <3> QED
        BY <3>1, <3>2, SameArray
    <2>2. \A i \in 1..Len(Popped) : \A d \in Components : d \in {c} => ~WorksOn(Popped[i], d)
      BY <1>3 DEF ApartOK
    <2> QED
      BY <1>7, <2>1, <2>2, BeneathStands DEF m
  <1>10. ASSUME NEW d \in Components, d \notin {c}
         PROVE  SameEntry(Ledger, m, d) /\ SameTally(Ledger, frames, Popped, d)
    <2>1. SameEntry(Ledger, m, d)
      BY <1>7, <1>10, OthersStay DEF m
    <2>2. SameTally(Ledger, Append(Popped, Top), Popped, d)
      BY <1>1, <1>3, <1>4, <1>10, TallyWithout
    <2> QED
      BY <1>3, <2>1, <2>2
  <1>11. CountOK(m, Popped, c) /\ SceneOK(m, Popped, c)
    <2>1. refs'[c] = One(owner[c] # NoOwner) + One(c \in held) + One(retained[c]) + OwedIn(Popped, c)
      BY <1>5, <1>6
    <2>2. RemovedIn(frames, c) <=> RemovedIn(Popped, c)
      BY <1>4, TopTally
    <2>3. SceneOK(Ledger, frames, c)
      BY DEF OwnInv, Settles
    <2> QED
      BY <1>1, <1>6, <2>1, <2>2, <2>3 DEF CountOK, SceneOK
  <1>12. Settles(m, Popped)
    <2>1. Settles(Ledger, frames) /\ \A d \in Components : d \in {c} => CountOK(m, Popped, d) /\ SceneOK(m, Popped, d)
      BY <1>11 DEF OwnInv
    <2> QED
      BY ONLY <1>10, <2>1, OthersSettle
  <1> QED
    BY <1>8, <1>9, <1>12, OwnersUnchanged DEF m
-----------------------------------------------------------------------------
(* A component taken off its entity is released.                           *)

LEMMA RemoveEndOwns ==
    ASSUME IndInv, OwnInv, RemoveEnd \/ ReplaceEnd
    PROVE  OwnInv'
  <1> DEFINE c == Top.other
  <1>1. /\ frames # <<>> /\ UNCHANGED slotVars /\ comps' = comps /\ owner' = owner
        /\ registered' = registered /\ held' = held /\ retained' = retained
        /\ Release(c) /\ frames' = Popped
        /\ \/ Top.op = "remove" /\ Top.stage = "published"
           \/ Top.op = "replace" /\ Top.stage = "added"
    BY DEF RemoveEnd, ReplaceEnd, At
  <1>2. Top \in Frames /\ StagesOK(Top) /\ FrameHolds(Ledger, Top)
    BY <1>1, TopWork
  <1>3. NoComponent \notin Components
    BY PoolAssumption
  <1>4. c \in Components
    BY <1>1, <1>2, FrameFields DEF StagesOK
  <1>5. ASSUME NEW d \in Components, Makes(Top, d) PROVE refs[d] > 0
    <2>1. Top.comp = d /\ d # NoComponent
      BY <1>3, <1>5 DEF Makes
    <2>2. Top.stage = "added"
      BY <1>1, <1>2, <2>1 DEF StagesOK
    <2>3. owner[d] = <<Top.pool, Top.id>>
      BY <1>2, <2>1, <2>2, LedgerNow DEF FrameHolds
    <2>4. <<Top.pool, Top.id>> # NoOwner
      <3>1. Top.op # "destroy"
        BY <1>1
      <3>2. Top.pool \in Pools /\ Top.id \in Ids
        BY <1>1, <3>1, TopNow
      <3> QED
        BY <3>2, PoolAssumption
    <2> QED
      BY <2>3, <2>4, CountNow
  <1> QED
    BY <1>1, <1>4, <1>5, TopReleases

-----------------------------------------------------------------------------
(* A component is taken off its entity.                                    *)

\* The innermost operation takes its component off: what is left is exact.
LEMMA Detached ==
    ASSUME IndInv, OwnInv, frames # <<>>, Top.op \in {"free", "remove"}, Top.stage = "removing",
           NEW c, c = Top.comp, Detach(Top.pool, Top.id, c)
    PROVE  /\ c \in Components /\ c # NoComponent /\ owner[c] # NoOwner /\ owner'[c] = NoOwner
           /\ registered[c] = NoPool /\ Top.other # c
           /\ owner' \in [Components -> (Pools \X Ids) \cup {NoOwner}]
           /\ \A d \in Components : d # c => owner'[d] = owner[d]
           /\ ArraysOK(Ledger', gen) /\ OwnersLive(Ledger', World.live)
           /\ comps' \in [Pools -> [Slots -> Seq(Components)]]
           /\ \A i \in 1..Len(Popped) : ArrayStays(Ledger, Ledger', Popped[i])
           /\ \A i \in 1..Len(Popped) : ~WorksOn(Popped[i], c)
           /\ ~RemovedIn(Popped, c)
  <1> DEFINE p == Top.pool
             x == Top.id
             list == comps[p][Slot(x)]
             rest == RemoveFirst(list, c)
  <1>1. /\ Top \in Frames /\ StagesOK(Top) /\ FrameHolds(Ledger, Top)
        /\ \A i \in 1..Len(Popped) : ApartOK(Popped[i], Top)
    BY TopWork
  <1>2. p \in Pools /\ x \in Live(p) /\ x \in Ids
    BY TopNow
  <1>3. NoComponent \notin Components
    BY PoolAssumption
  <1>4. c \in Components /\ c # NoComponent /\ owner[c] = <<p, x>>
    <2>1. c # NoComponent
      BY <1>1 DEF StagesOK
    <2> QED
      BY <1>1, <2>1, FrameFields, LedgerNow DEF FrameHolds
  <1>5. /\ list \in Seq(Components) /\ IsInjective(list) /\ <<p, x>> # NoOwner /\ Slot(x) \in Slots
        /\ \A d \in Components : d \in ToSet(list) <=> owner[d] = <<p, x>>
    BY <1>2, ArrayNow
  <1>6. owner \in [Components -> (Pools \X Ids) \cup {NoOwner}]
    BY LedgerTyped
  <1>7. owner' = [owner EXCEPT ![c] = NoOwner] /\ comps' = [comps EXCEPT ![p][Slot(x)] = rest]
    BY DEF Detach
  <1>8. /\ owner'[c] = NoOwner /\ \A d \in Components : d # c => owner'[d] = owner[d]
        /\ owner' \in [Components -> (Pools \X Ids) \cup {NoOwner}]
    BY <1>4, <1>6, <1>7
  <1>9. /\ rest \in Seq(Components) /\ ToSet(rest) = ToSet(list) \ {c} /\ IsInjective(rest)
    <2> HIDE DEF list
    <2> QED
      BY <1>5, RemoveFirstFacts
  <1>10. \A d \in Components : d \in ToSet(rest) <=> owner'[d] = <<p, x>>
    BY <1>5, <1>8, <1>9
  <1> HIDE DEF rest, list
  <1>11. /\ ArraysOK(Ledger', gen) /\ OwnersLive(Ledger', World.live)
         /\ comps' \in [Pools -> [Slots -> Seq(Components)]]
         /\ \A q \in Pools, r \in Slots :
              q # p \/ r # Slot(x) => (Ledger').comps[q][r] = comps[q][r]
    <2>1. \A d \in Components : owner'[d] # owner[d] =>
             owner[d] \in {NoOwner, <<p, x>>} /\ owner'[d] \in {NoOwner, <<p, x>>}
      BY <1>4, <1>8
    <2> QED
      BY <1>2, <1>7, <1>9, <1>10, <2>1, ArrayChanges
  <1>12. \A i \in 1..Len(Popped) : ArrayStays(Ledger, Ledger', Popped[i])
    <2>1. Top.op # "destroy" /\ Top.op # "add"
      OBVIOUS
    <2> QED
      BY <1>11, <2>1, ArraysBeneath
  <1>13. \A i \in 1..Len(Popped) : ~WorksOn(Popped[i], c)
    BY <1>1, <1>4 DEF ApartOK
  <1>14. ~RemovedIn(Popped, c)
    BY <1>13 DEF RemovedIn, Removes, WorksOn
  <1>15. registered[c] = NoPool
    <2>1. Removes(Top, c)
      BY DEF Removes
    <2>2. RemovedIn(frames, c)
      BY <1>4, <2>1, TopTally
    <2> QED
      BY <1>4, <2>2, CountNow
  <1>16. Top.other # c
    BY <1>1, <1>4 DEF StagesOK
  <1> QED
    BY <1>4, <1>5, <1>8, <1>11, <1>12, <1>13, <1>14, <1>15, <1>16

LEMMA RemoveReturnOwns ==
    ASSUME IndInv, OwnInv, RemoveReturn
    PROVE  OwnInv'
  <1> DEFINE c == Top.comp
             g == [Top EXCEPT !.stage = "published", !.comp = NoComponent, !.other = c]
             m == Ledger'
  <1>1. /\ frames # <<>> /\ Top.op = "remove" /\ Top.stage = "removing"
        /\ Detach(Top.pool, Top.id, c) /\ frames' = [frames EXCEPT ![Depth] = g]
        /\ UNCHANGED slotVars /\ registered' = registered
        /\ born' = born /\ refs' = refs /\ held' = held /\ retained' = retained
    BY DEF RemoveReturn, At, Became, lifeVars
  <1>2. /\ Top \in Frames /\ Popped \in Seq(Frames) /\ StagesOK(Top)
        /\ \A i \in 1..Len(Popped) : ApartOK(Popped[i], Top)
        /\ FitsOn(Ledger, Popped, Top)
        /\ \A h \in Frames : [frames EXCEPT ![Depth] = h] = Append(Popped, h)
    BY <1>1, TopWork
  <1>3. /\ c \in Components /\ c # NoComponent /\ owner[c] # NoOwner /\ owner'[c] = NoOwner
        /\ registered[c] = NoPool
        /\ owner' \in [Components -> (Pools \X Ids) \cup {NoOwner}]
        /\ \A d \in Components : d # c => owner'[d] = owner[d]
        /\ ArraysOK(Ledger', gen) /\ OwnersLive(Ledger', World.live)
        /\ comps' \in [Pools -> [Slots -> Seq(Components)]]
        /\ \A i \in 1..Len(Popped) : ArrayStays(Ledger, Ledger', Popped[i])
        /\ \A i \in 1..Len(Popped) : ~WorksOn(Popped[i], c)
        /\ ~RemovedIn(Popped, c)
    BY <1>1, Detached
  <1>4. NoComponent \notin Components
    BY PoolAssumption
  <1>5. Top.other = NoComponent
    BY <1>1, <1>2 DEF StagesOK
  <1>6. /\ g \in Frames /\ g.op = "remove" /\ g.stage = "published" /\ g.pool = Top.pool /\ g.id = Top.id
        /\ g.comp = NoComponent /\ g.other = c /\ g.made = Top.made
    BY <1>1, <1>2, <1>3 DEF Frames
  <1> HIDE DEF g
  <1>7. frames' = Append(Popped, g)
    BY <1>1, <1>2, <1>6
  <1>8. FitsOn(m, Popped, g)
    <2>1. StagesOK(g) /\ FrameHolds(m, g)
      BY <1>3, <1>6 DEF StagesOK, FrameHolds, ArrayHolds, Replacing, Emptied
    <2>2. \A i \in 1..Len(Popped) : ApartOK(Popped[i], g)
      BY <1>1, <1>2, <1>3, <1>5, <1>6 DEF ApartOK
    <2>3. Popped # <<>> => BegunOK(Popped[Len(Popped)], g)
      BY <1>6 DEF BegunOK
    <2> QED
      BY <2>1, <2>2, <2>3 DEF FitsOn
  <1>9. OthersKept({c})
    BY <1>1, <1>3 DEF OthersKept
  <1>10. m \in Ledgers
    BY <1>1, <1>3, LedgerTyped, LedgerNext
  <1>11. /\ m.born = born /\ m.owner = owner' /\ m.registered = registered /\ m.refs = refs
         /\ m.held = held /\ m.retained = retained
    BY <1>1, LedgerNow
  <1>12. CountOK(m, Append(Popped, g), c) /\ SceneOK(m, Append(Popped, g), c)
    <2>1. One(Owes(Top, c)) = 0 /\ One(Owes(g, c)) = 1
      BY <1>3, <1>5, <1>6 DEF One, Owes
    <2>2. /\ OwedIn(Popped, c) \in Nat
          /\ OwedIn(frames, c) = OwedIn(Popped, c) + One(Owes(Top, c))
          /\ OwedIn(Append(Popped, g), c) = OwedIn(Popped, c) + One(Owes(g, c))
      BY <1>1, <1>3, <1>6, TopTally
    <2>3. OwedIn(Append(Popped, g), c) = OwedIn(frames, c) + 1 /\ OwedIn(frames, c) \in Nat
      BY <2>1, <2>2
    <2>4. /\ refs[c] \in Nat /\ refs[c] > 0 /\ c \in born
          /\ refs[c] = One(owner[c] # NoOwner) + One(c \in held) + One(retained[c]) + OwedIn(frames, c)
      BY <1>3, CountNow
    <2>5. One(owner[c] # NoOwner) = 1 /\ One(owner'[c] # NoOwner) = 0
      BY <1>3 DEF One
    <2>6. One(c \in held) \in Nat /\ One(retained[c]) \in Nat
      BY DEF One
    <2>7. refs[c] = One(owner'[c] # NoOwner) + One(c \in held) + One(retained[c]) + OwedIn(Append(Popped, g), c)
      BY <2>3, <2>4, <2>5, <2>6
    <2> QED
      BY <1>3, <1>11, <2>4, <2>7 DEF CountOK, SceneOK
  <1> HIDE DEF m, c
  <1>13. \A d \in Components : d \notin {c} =>
            /\ Owes(Top, d) <=> Owes(g, d)
            /\ Removes(Top, d) <=> Removes(g, d)
            /\ Makes(Top, d) => Makes(g, d) \/ refs[d] > 0
    BY <1>4, <1>5, <1>6 DEF Owes, Removes, Makes, c
  <1>14. /\ \A i \in 1..Len(Popped) : \A d \in Components : d \in {c} => ~WorksOn(Popped[i], d)
         /\ \A d \in Components : d \in {c} =>
              CountOK(m, Append(Popped, g), d) /\ SceneOK(m, Append(Popped, g), d)
    BY <1>3, <1>12
  <1> QED
    BY ONLY <1>1, <1>3, <1>6, <1>7, <1>8, <1>9, <1>10, <1>13, <1>14, TopChanges, IndInv, OwnInv DEF m

LEMMA FreeComponentReturnOwns ==
    ASSUME IndInv, OwnInv, FreeComponentReturn
    PROVE  OwnInv'
  <1> DEFINE c == Top.comp
             g == [Top EXCEPT !.comp = NoComponent, !.stage = "begin"]
             m == Ledger'
  <1>1. /\ frames # <<>> /\ Top.op = "free" /\ Top.stage = "removing"
        /\ Detach(Top.pool, Top.id, c) /\ Release(c) /\ frames' = [frames EXCEPT ![Depth] = g]
        /\ UNCHANGED slotVars /\ registered' = registered /\ held' = held /\ retained' = retained
    BY DEF FreeComponentReturn, At, Became
  <1>2. /\ Top \in Frames /\ Popped \in Seq(Frames) /\ StagesOK(Top)
        /\ \A h \in Frames : [frames EXCEPT ![Depth] = h] = Append(Popped, h)
    BY <1>1, TopWork
  <1>3. /\ c \in Components /\ c # NoComponent /\ owner[c] # NoOwner /\ owner'[c] = NoOwner
        /\ registered[c] = NoPool
        /\ owner' \in [Components -> (Pools \X Ids) \cup {NoOwner}]
        /\ \A d \in Components : d # c => owner'[d] = owner[d]
        /\ ArraysOK(Ledger', gen) /\ OwnersLive(Ledger', World.live)
        /\ comps' \in [Pools -> [Slots -> Seq(Components)]]
        /\ \A i \in 1..Len(Popped) : ArrayStays(Ledger, Ledger', Popped[i])
        /\ \A i \in 1..Len(Popped) : ~WorksOn(Popped[i], c)
        /\ ~RemovedIn(Popped, c)
    BY <1>1, Detached
  <1>4. NoComponent \notin Components
    BY PoolAssumption
  <1>5. Top.other = NoComponent
    BY <1>1, <1>2 DEF StagesOK
  <1>6. /\ g \in Frames /\ g.op = "free" /\ g.stage = "begin" /\ g.pool = Top.pool /\ g.id = Top.id
        /\ g.comp = NoComponent /\ g.other = NoComponent
    BY <1>1, <1>2, <1>3, <1>5 DEF Frames
  <1> HIDE DEF g
  <1>7. frames' = Append(Popped, g)
    BY <1>1, <1>2, <1>6
  <1>8. FitsOn(m, Popped, g)
    <2>1. StagesOK(g) /\ FrameHolds(m, g)
      BY <1>3, <1>6 DEF StagesOK, FrameHolds, ArrayHolds, Replacing, Emptied
    <2>2. \A i \in 1..Len(Popped) : ApartOK(Popped[i], g)
      BY <1>4, <1>6 DEF ApartOK
    <2>3. Popped # <<>> => BegunOK(Popped[Len(Popped)], g)
      BY <1>6 DEF BegunOK
    <2> QED
      BY <2>1, <2>2, <2>3 DEF FitsOn
  <1>9. /\ refs' = [refs EXCEPT ![c] = @ - 1] /\ born' = IF refs[c] = 1 THEN born \ {c} ELSE born
        /\ refs \in [Components -> Nat] /\ born \subseteq Components
    BY <1>1, LedgerTyped DEF Release
  <1>10. /\ refs[c] \in Nat /\ refs[c] > 0 /\ c \in born
         /\ refs[c] = One(owner[c] # NoOwner) + One(c \in held) + One(retained[c]) + OwedIn(frames, c)
    BY <1>3, CountNow
  <1>11. /\ refs' \in [Components -> Nat] /\ refs'[c] = refs[c] - 1
         /\ refs'[c] > 0 <=> c \in born'
    <2>1. refs[c] - 1 \in Nat
      BY <1>10
    <2>2. refs' \in [Components -> Nat] /\ refs'[c] = refs[c] - 1
      BY <1>3, <1>9, <2>1
    <2>3. refs[c] - 1 > 0 <=> refs[c] # 1
      BY <1>10
    <2>4. c \in born' <=> refs[c] # 1
      BY <1>9, <1>10
    <2> QED
      BY <2>2, <2>3, <2>4
  <1>12. OthersKept({c})
    BY <1>1, <1>3, <1>9 DEF OthersKept
  <1>13. m \in Ledgers
    <2>1. born' \subseteq Components
      BY <1>9
    <2> QED
      BY <1>1, <1>3, <1>11, <2>1, LedgerTyped, LedgerNext
  <1>14. /\ m.born = born' /\ m.owner = owner' /\ m.registered = registered /\ m.refs = refs'
         /\ m.held = held /\ m.retained = retained
    BY <1>1, LedgerNow
  <1>15. CountOK(m, Append(Popped, g), c) /\ SceneOK(m, Append(Popped, g), c)
    <2>1. One(Owes(Top, c)) = 0 /\ One(Owes(g, c)) = 0
      BY <1>3, <1>5, <1>6 DEF One, Owes
    <2>2. /\ OwedIn(Popped, c) \in Nat
          /\ OwedIn(frames, c) = OwedIn(Popped, c) + One(Owes(Top, c))
          /\ OwedIn(Append(Popped, g), c) = OwedIn(Popped, c) + One(Owes(g, c))
      BY <1>1, <1>3, <1>6, TopTally
    <2>3. OwedIn(Append(Popped, g), c) = OwedIn(frames, c) /\ OwedIn(frames, c) \in Nat
      BY <2>1, <2>2
    <2>4. One(owner[c] # NoOwner) = 1 /\ One(owner'[c] # NoOwner) = 0
      BY <1>3 DEF One
    <2>5. One(c \in held) \in Nat /\ One(retained[c]) \in Nat
      BY DEF One
    <2>6. refs'[c] = One(owner'[c] # NoOwner) + One(c \in held) + One(retained[c]) + OwedIn(Append(Popped, g), c)
      BY <1>10, <1>11, <2>3, <2>4, <2>5
    <2> QED
      BY <1>3, <1>11, <1>14, <2>6 DEF CountOK, SceneOK
  <1> HIDE DEF m, c
  <1>16. \A d \in Components : d \notin {c} =>
            /\ Owes(Top, d) <=> Owes(g, d)
            /\ Removes(Top, d) <=> Removes(g, d)
            /\ Makes(Top, d) => Makes(g, d) \/ refs[d] > 0
    BY <1>4, <1>5, <1>6 DEF Owes, Removes, Makes, c
  <1>17. /\ \A i \in 1..Len(Popped) : \A d \in Components : d \in {c} => ~WorksOn(Popped[i], d)
         /\ \A d \in Components : d \in {c} =>
              CountOK(m, Append(Popped, g), d) /\ SceneOK(m, Append(Popped, g), d)
    BY <1>3, <1>15
  <1> QED
    BY ONLY <1>1, <1>3, <1>6, <1>7, <1>8, <1>12, <1>13, <1>16, <1>17, TopChanges, IndInv, OwnInv DEF m

\* One element of a list without repetition gives way to another.
LEMMA ReplacedFacts ==
    ASSUME NEW S, NEW s \in Seq(S), IsInjective(s), NEW k \in 1..Len(s), NEW e \in S, e \notin ToSet(s),
           NEW r \in Seq(S), Len(r) = Len(s), \A j \in 1..Len(s) : r[j] = IF j = k THEN e ELSE s[j]
    PROVE  IsInjective(r) /\ ToSet(r) = (ToSet(s) \ {s[k]}) \cup {e}
  <1>1. /\ r \in Seq(S) /\ Len(r) = Len(s) /\ Len(s) \in Nat
        /\ \A j \in 1..Len(s) : r[j] = IF j = k THEN e ELSE s[j]
    OBVIOUS
  <1>2. \A i, j \in 1..Len(s) : s[i] = s[j] => i = j
    BY DEF IsInjective
  <1>3. ToSet(s) = {s[i] : i \in 1..Len(s)} /\ ToSet(r) = {r[i] : i \in 1..Len(r)}
    <2>1. ToSet(s) = {s[i] : i \in 1..Len(s)}
      BY ONLY s \in Seq(S), ToSetFacts
    <2>2. ToSet(r) = {r[i] : i \in 1..Len(r)}
      BY ONLY <1>1, ToSetFacts
    <2> QED
      BY <2>1, <2>2
  <1>4. \A j \in 1..Len(s) : s[j] # e
    BY <1>3
  <1>5. \A i, j \in 1..Len(s) : r[i] = r[j] => i = j
    BY <1>1, <1>2, <1>4
  <1>6. IsInjective(r)
    BY <1>1, <1>5 DEF IsInjective
  <1>7. ASSUME NEW d PROVE d \in ToSet(r) <=> d \in (ToSet(s) \ {s[k]}) \cup {e}
    <2>1. d \in ToSet(r) <=> \E i \in 1..Len(s) : d = r[i]
      BY <1>1, <1>3
    <2>2. d \in ToSet(s) <=> \E i \in 1..Len(s) : d = s[i]
      BY <1>3
    <2>3. (\E i \in 1..Len(s) : d = r[i]) <=> d = e \/ \E i \in 1..Len(s) : i # k /\ d = s[i]
      BY <1>1
    <2>4. (\E i \in 1..Len(s) : i # k /\ d = s[i]) <=> (\E i \in 1..Len(s) : d = s[i]) /\ d # s[k]
      BY <1>2
    <2> QED
      BY <2>1, <2>2, <2>3, <2>4
  <1>8. ToSet(r) = (ToSet(s) \ {s[k]}) \cup {e}
    BY <1>7
  <1> QED
    BY <1>1, <1>6, <1>8

\* A component on its way to an entity is put on it: the count of its
\* references is exact, and its scene has it.
LEMMA Entered ==
    ASSUME OwnInv, NEW n \in Components, NEW p \in Pools, owner[n] = NoOwner,
           registered' = Registered(registered, p, n), Retain(n)
    PROVE  /\ registered' \in [Components -> Pools \cup {NoPool}] /\ registered'[n] = p
           /\ \A d \in Components : d # n => /\ registered'[d] = registered[d] /\ refs'[d] = refs[d]
                                             /\ retained'[d] = retained[d]
           /\ refs' \in [Components -> Nat] /\ retained' \in [Components -> BOOLEAN]
           /\ refs'[n] = 1 + One(n \in held) + One(retained'[n]) + OwedIn(frames, n)
           /\ refs'[n] > 0 /\ OwedIn(frames, n) \in Nat
           /\ born' = born /\ held' = held
  <1>1. /\ registered \in [Components -> Pools \cup {NoPool}] /\ open \subseteq Pools /\ NoPool \notin Pools
        /\ refs \in [Components -> Nat] /\ retained \in [Components -> BOOLEAN]
    BY LedgerTyped, PoolAssumption DEF OwnInv
  <1>2. /\ registered[n] = NoPool /\ refs[n] \in Nat /\ OwedIn(frames, n) \in Nat
        /\ refs[n] = One(owner[n] # NoOwner) + One(n \in held) + One(retained[n]) + OwedIn(frames, n)
    BY CountNow
  <1>3. registered' = [registered EXCEPT ![n] = p]
    BY <1>1, <1>2 DEF Registered
  <1>4. /\ refs' = [refs EXCEPT ![n] = IF retained[n] THEN @ ELSE @ + 1]
        /\ retained' = [retained EXCEPT ![n] = FALSE] /\ born' = born /\ held' = held
    BY DEF Retain
  <1>5. /\ registered' \in [Components -> Pools \cup {NoPool}] /\ registered'[n] = p
        /\ retained' \in [Components -> BOOLEAN] /\ retained'[n] = FALSE
        /\ refs'[n] = IF retained[n] THEN refs[n] ELSE refs[n] + 1
        /\ \A d \in Components : d # n => /\ registered'[d] = registered[d] /\ refs'[d] = refs[d]
                                          /\ retained'[d] = retained[d]
    BY <1>1, <1>3, <1>4
  <1>6. /\ One(owner[n] # NoOwner) = 0 /\ One(retained[n]) = IF retained[n] THEN 1 ELSE 0
        /\ One(retained'[n]) = 0 /\ One(n \in held) \in Nat
    BY <1>5 DEF One
  <1>7. refs'[n] = 1 + One(n \in held) + One(retained'[n]) + OwedIn(frames, n) /\ refs'[n] > 0
    BY <1>2, <1>5, <1>6
  <1>8. refs' \in [Components -> Nat]
    <2>1. (IF retained[n] THEN refs[n] ELSE refs[n] + 1) \in Nat
      BY <1>2
    <2> QED
      BY <1>1, <1>4, <2>1
  <1> QED
    BY <1>2, <1>4, <1>5, <1>7, <1>8

LEMMA ReplaceReturnOwns ==
    ASSUME IndInv, OwnInv, ReplaceReturn
    PROVE  OwnInv'
  <1>a. PICK p, x, e, n, k : p = Top.pool /\ x = Top.id /\ e = Top.comp /\ n = Top.other /\ k = Top.at
    OBVIOUS
  <1>b. PICK list : list = comps[p][Slot(x)]
    OBVIOUS
  <1>c. PICK new : new = [list EXCEPT ![k] = n]
    OBVIOUS
  <1> DEFINE g == [Top EXCEPT !.stage = "added", !.comp = n, !.other = e]
             m == Ledger'
  <1>1. /\ frames # <<>> /\ Top.op = "replace" /\ Top.stage = "removing"
        /\ owner' = [owner EXCEPT ![e] = NoOwner, ![n] = <<p, x>>]
        /\ comps' = [comps EXCEPT ![p][Slot(x)][k] = n]
        /\ registered' = Registered(registered, p, n) /\ Retain(n)
        /\ frames' = [frames EXCEPT ![Depth] = g] /\ UNCHANGED slotVars
    BY <1>a DEF ReplaceReturn, At, Became
  <1>2. /\ Top \in Frames /\ Popped \in Seq(Frames) /\ StagesOK(Top) /\ FrameHolds(Ledger, Top)
        /\ \A i \in 1..Len(Popped) : ApartOK(Popped[i], Top)
        /\ \A h \in Frames : [frames EXCEPT ![Depth] = h] = Append(Popped, h)
    BY <1>1, TopWork
  <1>3. p \in Pools /\ x \in Live(p) /\ x \in Ids
    BY <1>1, <1>a, TopNow
  <1>4. /\ NoComponent \notin Components /\ <<p, x>> # NoOwner
        /\ e \in Components /\ n \in Components /\ e # NoComponent /\ n # NoComponent
        /\ owner[e] = <<p, x>> /\ owner[n] = NoOwner /\ n \in born /\ e # n
        /\ k \in 1..Len(list) /\ list[k] = e
    <2>1. NoComponent \notin Components /\ <<p, x>> # NoOwner
      BY <1>3, PoolAssumption
    <2>2. e # NoComponent /\ n # NoComponent /\ e \in Components /\ n \in Components
      BY <1>1, <1>2, <1>a, FrameFields DEF StagesOK
    <2>3. owner[e] = <<p, x>> /\ owner[n] = NoOwner /\ n \in born
      BY <1>1, <1>2, <1>a, LedgerNow DEF FrameHolds, Replacing, Waits
    <2>4. k \in 1..Len(list) /\ list[k] = e
      BY <1>1, <1>2, <1>a, <1>b, LedgerNow DEF FrameHolds, ArrayHolds, Replacing, ArrayOf
    <2> QED
      BY <2>1, <2>2, <2>3, <2>4
  <1>5. /\ list \in Seq(Components) /\ IsInjective(list) /\ Slot(x) \in Slots
        /\ \A d \in Components : d \in ToSet(list) <=> owner[d] = <<p, x>>
    BY <1>3, <1>b, ArrayNow
  <1>6. comps' = [comps EXCEPT ![p][Slot(x)] = new]
    BY <1>1, <1>b, <1>c
  <1>7. n \notin ToSet(list)
    BY <1>4, <1>5
  <1>8. new \in Seq(Components) /\ IsInjective(new) /\ ToSet(new) = (ToSet(list) \ {e}) \cup {n}
    <2>1. new \in Seq(Components) /\ IsInjective(new) /\ ToSet(new) = (ToSet(list) \ {list[k]}) \cup {n}
      <3>1. /\ new \in Seq(Components) /\ Len(new) = Len(list)
            /\ \A j \in 1..Len(list) : new[j] = IF j = k THEN n ELSE list[j]
        BY <1>4, <1>5, <1>c
      <3> QED
        BY ONLY <1>4, <1>5, <1>7, <3>1, ReplacedFacts
    <2> QED
      BY <1>4, <2>1
  <1>9. /\ owner'[e] = NoOwner /\ owner'[n] = <<p, x>>
        /\ \A d \in Components : d # e /\ d # n => owner'[d] = owner[d]
        /\ owner' \in [Components -> (Pools \X Ids) \cup {NoOwner}]
    BY <1>1, <1>3, <1>4, LedgerTyped
  <1>10. \A d \in Components : d \in ToSet(new) <=> owner'[d] = <<p, x>>
    BY <1>4, <1>5, <1>8, <1>9
  <1>11. /\ ArraysOK(m, gen) /\ OwnersLive(m, World.live)
         /\ comps' \in [Pools -> [Slots -> Seq(Components)]]
         /\ \A q \in Pools, r \in Slots : q # p \/ r # Slot(x) => m.comps[q][r] = comps[q][r]
    <2>1. \A d \in Components : owner'[d] # owner[d] =>
             owner[d] \in {NoOwner, <<p, x>>} /\ owner'[d] \in {NoOwner, <<p, x>>}
      BY <1>4, <1>9
    <2> QED
      BY ONLY <1>3, <1>6, <1>8, <1>10, <2>1, ArrayChanges, IndInv, OwnInv
  <1>12. \A i \in 1..Len(Popped) : ArrayStays(Ledger, m, Popped[i])
    <2>1. Top.op # "destroy" /\ Top.op # "add"
      BY <1>1
    <2>2. \A q \in Pools, r \in Slots : q # Top.pool \/ r # Slot(Top.id) => m.comps[q][r] = comps[q][r]
      BY <1>11, <1>a
    <2> QED
      BY ONLY <1>1, <2>1, <2>2, ArraysBeneath, IndInv, OwnInv
  <1>13. /\ registered' \in [Components -> Pools \cup {NoPool}] /\ registered'[n] = p
         /\ \A d \in Components : d # n => /\ registered'[d] = registered[d] /\ refs'[d] = refs[d]
                                           /\ retained'[d] = retained[d]
         /\ refs' \in [Components -> Nat] /\ retained' \in [Components -> BOOLEAN]
         /\ refs'[n] = 1 + One(n \in held) + One(retained'[n]) + OwedIn(frames, n)
         /\ refs'[n] > 0 /\ OwedIn(frames, n) \in Nat /\ born' = born /\ held' = held
    BY <1>1, <1>3, <1>4, Entered
  <1>14. /\ g \in Frames /\ g.op = "replace" /\ g.stage = "added" /\ g.pool = p /\ g.id = x
         /\ g.comp = n /\ g.other = e
    BY <1>1, <1>2, <1>4, <1>a DEF Frames
  <1> HIDE DEF g
  <1>15. frames' = Append(Popped, g)
    BY <1>1, <1>2, <1>14
  <1>16. m.born = born /\ m.owner = owner' /\ m.registered = registered' /\ m.refs = refs'
         /\ m.held = held /\ m.retained = retained'
    BY <1>13, LedgerNow
  <1>17. FitsOn(m, Popped, g)
    <2>1. StagesOK(g) /\ FrameHolds(m, g)
      BY <1>4, <1>9, <1>14, <1>16 DEF StagesOK, FrameHolds, ArrayHolds, Replacing, Emptied
    <2>2. \A i \in 1..Len(Popped) : ApartOK(Popped[i], g)
      BY <1>1, <1>2, <1>14, <1>a DEF ApartOK
    <2>3. Popped # <<>> => BegunOK(Popped[Len(Popped)], g)
      BY <1>14 DEF BegunOK
    <2> QED
      BY <2>1, <2>2, <2>3 DEF FitsOn
  <1>18. OthersKept({e, n})
    BY <1>9, <1>13 DEF OthersKept
  <1>19. m \in Ledgers
    BY <1>9, <1>11, <1>13, LedgerTyped, LedgerNext
  <1>20. \A i \in 1..Len(Popped) : ~WorksOn(Popped[i], e) /\ ~WorksOn(Popped[i], n)
    BY <1>1, <1>2, <1>4, <1>a DEF ApartOK
  <1>21. CountOK(m, Append(Popped, g), e) /\ SceneOK(m, Append(Popped, g), e)
    <2>1. One(Owes(Top, e)) = 0 /\ One(Owes(g, e)) = 1 /\ Removes(Top, e)
      BY <1>1, <1>14, <1>a DEF One, Owes, Removes
    <2>2. /\ OwedIn(Popped, e) \in Nat
          /\ OwedIn(frames, e) = OwedIn(Popped, e) + One(Owes(Top, e))
          /\ OwedIn(Append(Popped, g), e) = OwedIn(Popped, e) + One(Owes(g, e))
          /\ RemovedIn(frames, e) <=> RemovedIn(Popped, e) \/ Removes(Top, e)
      BY <1>1, <1>4, <1>14, TopTally
    <2>3. OwedIn(Append(Popped, g), e) = OwedIn(frames, e) + 1 /\ OwedIn(frames, e) \in Nat
      BY <2>1, <2>2
    <2>4. /\ refs[e] \in Nat /\ refs[e] > 0 /\ e \in born /\ registered[e] = NoPool
          /\ refs[e] = One(owner[e] # NoOwner) + One(e \in held) + One(retained[e]) + OwedIn(frames, e)
      <3>1. owner[e] # NoOwner /\ RemovedIn(frames, e)
        BY <1>4, <2>1, <2>2
      <3> QED
        BY <1>4, <3>1, CountNow
    <2>5. One(owner[e] # NoOwner) = 1 /\ One(owner'[e] # NoOwner) = 0
      BY <1>4, <1>9 DEF One
    <2>6. One(e \in held) \in Nat /\ One(retained[e]) \in Nat
      BY DEF One
    <2>7. refs[e] = One(owner'[e] # NoOwner) + One(e \in held) + One(retained[e]) + OwedIn(Append(Popped, g), e)
      BY <2>3, <2>4, <2>5, <2>6
    <2>8. refs'[e] = refs[e] /\ retained'[e] = retained[e] /\ registered'[e] = NoPool
      BY <1>4, <1>13, <2>4
    <2> QED
      BY <1>9, <1>16, <2>4, <2>7, <2>8 DEF CountOK, SceneOK
  <1>22. CountOK(m, Append(Popped, g), n) /\ SceneOK(m, Append(Popped, g), n)
    <2>1. One(Owes(Top, n)) = 0 /\ One(Owes(g, n)) = 0 /\ ~Removes(g, n)
      BY <1>1, <1>4, <1>14, <1>a DEF One, Owes, Removes
    <2>2. /\ OwedIn(Popped, n) \in Nat
          /\ OwedIn(frames, n) = OwedIn(Popped, n) + One(Owes(Top, n))
          /\ OwedIn(Append(Popped, g), n) = OwedIn(Popped, n) + One(Owes(g, n))
          /\ RemovedIn(Append(Popped, g), n) <=> RemovedIn(Popped, n) \/ Removes(g, n)
      BY <1>1, <1>4, <1>14, TopTally
    <2>3. OwedIn(Append(Popped, g), n) = OwedIn(frames, n)
      BY <2>1, <2>2
    <2>4. ~RemovedIn(Append(Popped, g), n)
      BY <1>20, <2>1, <2>2 DEF RemovedIn, Removes, WorksOn
    <2>5. One(owner'[n] # NoOwner) = 1 /\ owner'[n][1] = p /\ owner'[n] # NoOwner
      BY <1>4, <1>9 DEF One
    <2> QED
      BY <1>4, <1>13, <1>16, <2>3, <2>4, <2>5 DEF CountOK, SceneOK
  <1> HIDE DEF m
  <1>23. \A d \in Components : d \notin {e, n} =>
            /\ Owes(Top, d) <=> Owes(g, d)
            /\ Removes(Top, d) <=> Removes(g, d)
            /\ Makes(Top, d) => Makes(g, d) \/ refs[d] > 0
    BY <1>1, <1>14, <1>a DEF Owes, Removes, Makes
  <1>24. /\ \A i \in 1..Len(Popped) : \A d \in Components : d \in {e, n} => ~WorksOn(Popped[i], d)
         /\ \A d \in Components : d \in {e, n} =>
              CountOK(m, Append(Popped, g), d) /\ SceneOK(m, Append(Popped, g), d)
    BY <1>20, <1>21, <1>22
  <1> QED
    BY ONLY <1>1, <1>11, <1>12, <1>14, <1>15, <1>17, <1>18, <1>19, <1>23, <1>24, TopChanges, IndInv, OwnInv DEF m

-----------------------------------------------------------------------------
(* A component is added, the ones it requires before it.                   *)

\* A list with one more element extends it.
LEMMA AppendExtends ==
    ASSUME NEW s \in Seq(Components), NEW c \in Components
    PROVE  Extends(s, Append(s, c))
  <1>1. /\ Len(s) \in Nat /\ Len(Append(s, c)) = Len(s) + 1
        /\ \A j \in 1..Len(s) : Append(s, c)[j] = s[j]
    OBVIOUS
  <1>2. \A j \in 1..Len(s) : j \in 1..Len(Append(s, c))
    BY <1>1
  <1> QED
    BY <1>1, <1>2 DEF Extends

LEMMA AddRawOwns ==
    ASSUME IndInv, OwnInv, AddRaw
    PROVE  OwnInv'
  <1>a. PICK p, x, c : p = Top.pool /\ x = Top.id /\ c = Top.comp
    OBVIOUS
  <1>b. PICK list : list = comps[p][Slot(x)]
    OBVIOUS
  <1>c. PICK new : new = Append(list, c)
    OBVIOUS
  <1> DEFINE g == [Top EXCEPT !.stage = "added"]
             m == Ledger'
  <1>1. /\ frames # <<>> /\ Top.op = "add" /\ Top.stage = "resolving"
        /\ owner' = [owner EXCEPT ![c] = <<p, x>>]
        /\ comps' = [comps EXCEPT ![p][Slot(x)] = Append(@, c)]
        /\ registered' = Registered(registered, p, c) /\ Retain(c)
        /\ frames' = [frames EXCEPT ![Depth] = g] /\ UNCHANGED slotVars
    BY <1>a DEF AddRaw, At, Became, To
  <1>2. /\ Top \in Frames /\ Popped \in Seq(Frames) /\ StagesOK(Top) /\ FrameHolds(Ledger, Top)
        /\ \A i \in 1..Len(Popped) : ApartOK(Popped[i], Top)
        /\ Popped # <<>> => BegunOK(Popped[Len(Popped)], Top)
        /\ \A h \in Frames : [frames EXCEPT ![Depth] = h] = Append(Popped, h)
    BY <1>1, TopWork DEF FitsOn
  <1>3. p \in Pools /\ x \in Live(p) /\ x \in Ids
    BY <1>1, <1>a, TopNow
  <1>4. /\ NoComponent \notin Components /\ <<p, x>> # NoOwner
        /\ c \in Components /\ c # NoComponent /\ owner[c] = NoOwner /\ c \in born
        /\ Top.other = NoComponent
    <2>1. NoComponent \notin Components /\ <<p, x>> # NoOwner
      BY <1>3, PoolAssumption
    <2>2. c # NoComponent /\ c \in Components
      BY <1>1, <1>2, <1>a, FrameFields DEF StagesOK
    <2>3. owner[c] = NoOwner /\ c \in born
      BY <1>1, <1>2, <1>a, LedgerNow DEF FrameHolds, Waits
    <2>4. Top.other = NoComponent
      BY <1>1, <1>2 DEF StagesOK
    <2> QED
      BY <2>1, <2>2, <2>3, <2>4
  <1>5. /\ list \in Seq(Components) /\ IsInjective(list) /\ Slot(x) \in Slots
        /\ \A d \in Components : d \in ToSet(list) <=> owner[d] = <<p, x>>
    BY <1>3, <1>b, ArrayNow
  <1>6. comps' = [comps EXCEPT ![p][Slot(x)] = new]
    BY <1>1, <1>b, <1>c
  <1>7. c \notin ToSet(list)
    BY <1>4, <1>5
  <1>8. new \in Seq(Components) /\ IsInjective(new) /\ ToSet(new) = ToSet(list) \cup {c}
    BY ONLY <1>4, <1>5, <1>7, <1>c, AppendFacts, AppendKeepsInjective
  <1>9. /\ owner'[c] = <<p, x>> /\ \A d \in Components : d # c => owner'[d] = owner[d]
        /\ owner' \in [Components -> (Pools \X Ids) \cup {NoOwner}]
    BY <1>1, <1>3, <1>4, LedgerTyped
  <1>10. \A d \in Components : d \in ToSet(new) <=> owner'[d] = <<p, x>>
    BY <1>4, <1>5, <1>8, <1>9
  <1>11. /\ ArraysOK(m, gen) /\ OwnersLive(m, World.live)
         /\ comps' \in [Pools -> [Slots -> Seq(Components)]]
         /\ \A q \in Pools, r \in Slots : q # p \/ r # Slot(x) => m.comps[q][r] = comps[q][r]
         /\ m.comps[p][Slot(x)] = new
    <2>1. \A d \in Components : owner'[d] # owner[d] =>
             owner[d] \in {NoOwner, <<p, x>>} /\ owner'[d] \in {NoOwner, <<p, x>>}
      BY <1>4, <1>9
    <2> QED
      <3> HIDE DEF m
      <3>1. new \in Seq(Components) /\ IsInjective(new)
        BY <1>8
      <3> QED
        BY ONLY <1>3, <1>6, <1>10, <2>1, <3>1, ArrayChanges, IndInv, OwnInv DEF m
  <1>12. Extends(list, new)
    BY ONLY <1>4, <1>5, <1>c, AppendExtends
  <1>13. \A i \in 1..Len(Popped) : ArrayStays(Ledger, m, Popped[i])
    <2>1. Top.op # "destroy"
      BY <1>1
    <2>2. \A q \in Pools, r \in Slots : q # Top.pool \/ r # Slot(Top.id) => m.comps[q][r] = comps[q][r]
      BY <1>11, <1>a
    <2>3. Extends(comps[Top.pool][Slot(Top.id)], m.comps[Top.pool][Slot(Top.id)])
      BY <1>11, <1>12, <1>a, <1>b
    <2> QED
      BY ONLY <1>1, <2>1, <2>2, <2>3, ArraysBeneath, IndInv, OwnInv
  <1>14. /\ registered' \in [Components -> Pools \cup {NoPool}] /\ registered'[c] = p
         /\ \A d \in Components : d # c => /\ registered'[d] = registered[d] /\ refs'[d] = refs[d]
                                           /\ retained'[d] = retained[d]
         /\ refs' \in [Components -> Nat] /\ retained' \in [Components -> BOOLEAN]
         /\ refs'[c] = 1 + One(c \in held) + One(retained'[c]) + OwedIn(frames, c)
         /\ refs'[c] > 0 /\ OwedIn(frames, c) \in Nat /\ born' = born /\ held' = held
    BY <1>1, <1>3, <1>4, Entered
  <1>15. /\ g \in Frames /\ g.op = "add" /\ g.stage = "added" /\ g.pool = p /\ g.id = x
         /\ g.comp = c /\ g.other = NoComponent /\ g.at = Top.at /\ g.made = Top.made
    BY <1>1, <1>2, <1>4, <1>a DEF Frames
  <1> HIDE DEF g
  <1>16. frames' = Append(Popped, g)
    BY <1>1, <1>2, <1>15
  <1>17. m.born = born /\ m.owner = owner' /\ m.registered = registered' /\ m.refs = refs'
         /\ m.held = held /\ m.retained = retained'
    BY <1>14, LedgerNow
  <1>18. FitsOn(m, Popped, g)
    <2>3. ArrayHolds(m, g)
      BY <1>15 DEF ArrayHolds, Replacing, Emptied
    <2>4. FrameHolds(m, g)
      BY <1>1, <1>9, <1>15, <1>17, <2>3 DEF FrameHolds, Replacing
    <2>5. StagesOK(g)
      BY <1>1, <1>2, <1>4, <1>15 DEF StagesOK
    <2>6. \A i \in 1..Len(Popped) : ApartOK(Popped[i], g)
      BY <1>1, <1>2, <1>4, <1>15, <1>a DEF ApartOK
    <2>7. Popped # <<>> => BegunOK(Popped[Len(Popped)], g)
      BY <1>1, <1>2, <1>15, <1>a DEF BegunOK
    <2> QED
      BY <2>4, <2>5, <2>6, <2>7 DEF FitsOn
  <1>19. OthersKept({c})
    BY <1>9, <1>14 DEF OthersKept
  <1>20. m \in Ledgers
    BY <1>9, <1>11, <1>14, LedgerTyped, LedgerNext
  <1>21. \A i \in 1..Len(Popped) : ~WorksOn(Popped[i], c)
    BY <1>2, <1>4, <1>a DEF ApartOK
  <1>22. CountOK(m, Append(Popped, g), c) /\ SceneOK(m, Append(Popped, g), c)
    <2>1. One(Owes(Top, c)) = 0 /\ One(Owes(g, c)) = 0 /\ ~Removes(g, c)
      BY <1>4, <1>15 DEF One, Owes, Removes
    <2>2. /\ OwedIn(Popped, c) \in Nat
          /\ OwedIn(frames, c) = OwedIn(Popped, c) + One(Owes(Top, c))
          /\ OwedIn(Append(Popped, g), c) = OwedIn(Popped, c) + One(Owes(g, c))
          /\ RemovedIn(Append(Popped, g), c) <=> RemovedIn(Popped, c) \/ Removes(g, c)
      BY <1>1, <1>4, <1>15, TopTally
    <2>3. OwedIn(Append(Popped, g), c) = OwedIn(frames, c)
      BY <2>1, <2>2
    <2>4. ~RemovedIn(Append(Popped, g), c)
      BY <1>21, <2>1, <2>2 DEF RemovedIn, Removes, WorksOn
    <2>5. One(owner'[c] # NoOwner) = 1 /\ owner'[c][1] = p /\ owner'[c] # NoOwner
      BY <1>4, <1>9 DEF One
    <2> QED
      BY <1>4, <1>14, <1>17, <2>3, <2>4, <2>5 DEF CountOK, SceneOK
  <1> HIDE DEF m
  <1>23. \A d \in Components : d \notin {c} =>
            /\ Owes(Top, d) <=> Owes(g, d)
            /\ Removes(Top, d) <=> Removes(g, d)
            /\ Makes(Top, d) => Makes(g, d) \/ refs[d] > 0
    BY <1>4, <1>15, <1>a DEF Owes, Removes, Makes
  <1>24. /\ \A i \in 1..Len(Popped) : \A d \in Components : d \in {c} => ~WorksOn(Popped[i], d)
         /\ \A d \in Components : d \in {c} =>
              CountOK(m, Append(Popped, g), d) /\ SceneOK(m, Append(Popped, g), d)
    BY <1>21, <1>22
  <1> QED
    BY ONLY <1>1, <1>11, <1>13, <1>15, <1>16, <1>18, <1>19, <1>20, <1>23, <1>24, TopChanges, IndInv, OwnInv DEF m

\* What an operation works on exists.
LEMMA WorkedIsBorn ==
    ASSUME IndInv, OwnInv, NEW i \in 1..Len(frames), NEW c \in Components
    PROVE  /\ WorksOn(frames[i], c) => c \in born
           /\ frames[i].other = c => c \in born
  <1>1. PICK f : f = frames[i]
    OBVIOUS
  <1>2. f \in Frames /\ f.pool \in Pools /\ StagesOK(f) /\ FrameHolds(Ledger, f)
        /\ (f.op # "destroy" => f.id \in Ids)
    BY <1>1, FrameNow
  <1>3. NoComponent \notin Components
    BY PoolAssumption
  <1>4. owner[c] # NoOwner => c \in born
    BY CountNow
  <1>5. ASSUME f.comp = c PROVE c \in born
    <2>1. f.stage \in {"resolving", "removing", "added"} /\ f.op # "destroy"
      BY <1>2, <1>3, <1>5 DEF StagesOK
    <2>2. CASE f.stage = "resolving"
      BY <1>2, <1>5, <2>2, LedgerNow DEF FrameHolds, Waits
    <2>3. CASE f.stage # "resolving"
      <3>1. owner[c] = <<f.pool, f.id>>
        BY <1>2, <1>5, <2>1, <2>3, LedgerNow DEF FrameHolds
      <3>2. <<f.pool, f.id>> # NoOwner
        BY <1>2, <2>1, PoolAssumption
      <3> QED
        BY <1>4, <3>1, <3>2
    <2> QED
      BY <2>2, <2>3
  <1>6. ASSUME f.other = c PROVE c \in born
    <2>1. CASE f.stage = "removing"
      <3>1. f.op = "replace"
        BY <1>2, <1>3, <1>6, <2>1 DEF StagesOK
      <3> QED
        BY <1>2, <1>6, <2>1, <3>1, LedgerNow DEF FrameHolds, Replacing, Waits
    <2>2. CASE f.stage # "removing"
      <3>1. Owes(f, c)
        BY <1>6, <2>2 DEF Owes
      <3>2. frames \in Seq(Frames) /\ OwedIn(frames, c) \in Nat /\ OwedIn(frames, c) # 0
        BY <1>1, <3>1, NothingOwed, ProperNow
      <3> QED
        BY <3>2, CountNow
    <2> QED
      BY <2>1, <2>2
  <1> QED
    BY <1>1, <1>5, <1>6 DEF WorksOn

LEMMA MakeRequirementOwns ==
    ASSUME IndInv, OwnInv, NEW d \in Components, NEW retains \in BOOLEAN, MakeRequirement(d, retains)
    PROVE  OwnInv'
  <1> DEFINE g == [Frame("add", Top.pool, Top.id) EXCEPT
                      !.comp = d, !.at = 1, !.stage = "resolving", !.made = TRUE]
             m == Ledger'
  <1>1. /\ frames # <<>> /\ Top.op = "add" /\ Top.stage = "resolving" /\ d \notin born
        /\ born' = born \cup {d} /\ refs' = [refs EXCEPT ![d] = IF retains THEN 1 ELSE 0]
        /\ retained' = [retained EXCEPT ![d] = retains]
        /\ frames' = Append(frames, g)
        /\ UNCHANGED slotVars /\ comps' = comps /\ owner' = owner /\ registered' = registered /\ held' = held
    BY DEF MakeRequirement, At, Pushed
  <1>2. /\ Top.pool \in Pools /\ Top.id \in Ids /\ frames \in Seq(Frames) /\ Top \in Frames
        /\ Len(frames) \in 1..Len(frames) /\ frames[Len(frames)] = Top /\ StagesOK(Top)
    BY <1>1, TopNow, TopWork, ProperNow
  <1>3. NoComponent \notin Components /\ d # NoComponent
    BY PoolAssumption
  <1>4. /\ refs \in [Components -> Nat] /\ retained \in [Components -> BOOLEAN]
        /\ born \subseteq Components /\ held \subseteq Components
    BY LedgerTyped
  <1>5. /\ owner[d] = NoOwner /\ registered[d] = NoPool /\ OwedIn(frames, d) = 0 /\ d \notin held
    <2>1. /\ refs[d] \in Nat /\ OwedIn(frames, d) \in Nat
          /\ refs[d] = One(owner[d] # NoOwner) + One(d \in held) + One(retained[d]) + OwedIn(frames, d)
          /\ ~(refs[d] > 0)
      BY <1>1, CountNow
    <2>2. /\ One(owner[d] # NoOwner) \in Nat /\ One(d \in held) \in Nat /\ One(retained[d]) \in Nat
          /\ One(owner[d] # NoOwner) = 0 => owner[d] = NoOwner
          /\ One(d \in held) = 0 => d \notin held
      BY DEF One
    <2>3. owner[d] = NoOwner /\ OwedIn(frames, d) = 0 /\ d \notin held
      BY <2>1, <2>2
    <2> QED
      BY <2>3, CountNow
  <1>6. /\ g \in Frames /\ g.op = "add" /\ g.stage = "resolving" /\ g.pool = Top.pool /\ g.id = Top.id
        /\ g.comp = d /\ g.other = NoComponent /\ g.made = TRUE /\ g.at = 1
    BY <1>2 DEF Frame, Frames
  <1> HIDE DEF g
  <1>7. /\ m.born = born' /\ m.owner = owner /\ m.registered = registered /\ m.refs = refs'
        /\ m.held = held /\ m.retained = retained' /\ m.comps = comps
        /\ Ledger.born = born /\ Ledger.owner = owner /\ Ledger.registered = registered
        /\ Ledger.refs = refs /\ Ledger.held = held /\ Ledger.retained = retained /\ Ledger.comps = comps
    BY <1>1, LedgerNow
  <1>8. /\ refs' \in [Components -> Nat] /\ retained' \in [Components -> BOOLEAN] /\ born' \subseteq Components
        /\ refs'[d] = One(retained'[d]) /\ d \in born'
        /\ \A e \in Components : e # d =>
             /\ refs'[e] = refs[e] /\ retained'[e] = retained[e]
             /\ e \in born' <=> e \in born
    BY <1>1, <1>4 DEF One
  <1>9. m \in Ledgers
    BY <1>1, <1>4, <1>8, LedgerTyped, LedgerNext
  <1> HIDE DEF m
  <1>10. WorkOK(m, frames)
    <2>1. ASSUME NEW i \in 1..Len(frames)
          PROVE  LeavesAlone(Ledger, m, frames[i])
      <3>1. ArrayStays(Ledger, m, frames[i])
        BY <1>7, SameArray DEF ArrayOf
      <3>2. \A c \in Components : StaysFor(Ledger, m, c)
        BY <1>1, <1>7 DEF StaysFor, Waits
      <3> QED
        BY <3>1, <3>2 DEF LeavesAlone
    <2> QED
      BY <2>1, WorkOfAll
  <1>11. FitsOn(m, frames, g)
    <2>1. StagesOK(g)
      BY <1>3, <1>6 DEF StagesOK
    <2>2. FrameHolds(m, g)
      <3>1. ArrayHolds(m, g)
        BY <1>6 DEF ArrayHolds, Replacing, Emptied
      <3>2. Waits(m, d) /\ d \notin m.held
        BY <1>5, <1>7, <1>8 DEF Waits
      <3> QED
        BY <1>6, <3>1, <3>2 DEF FrameHolds, Replacing
    <2>3. ASSUME NEW i \in 1..Len(frames) PROVE ApartOK(frames[i], g)
      <3>1. ~WorksOn(frames[i], d) /\ frames[i].other # d
        BY <1>1, WorkedIsBorn
      <3> QED
        BY <1>3, <1>6, <3>1 DEF ApartOK
    <2>4. BegunOK(Top, g)
      BY <1>1 DEF BegunOK
    <2> QED
      BY <1>2, <2>1, <2>2, <2>3, <2>4 DEF FitsOn
  <1>12. WorkOK(m, frames')
    BY <1>1, <1>2, <1>6, <1>10, <1>11, WorkOnTop
  <1>13. \A e \in Components : ~Owes(g, e) /\ ~Removes(g, e)
    BY <1>3, <1>6 DEF Owes, Removes
  <1>14. \A e \in Components : e \notin {d} => SameEntry(Ledger, m, e) /\ SameTally(Ledger, frames, frames', e)
    <2> SUFFICES ASSUME NEW e \in Components, e # d
                 PROVE  SameEntry(Ledger, m, e) /\ SameTally(Ledger, frames, frames', e)
      OBVIOUS
    <2>1. SameTally(Ledger, frames, Append(frames, g), e)
      BY <1>2, <1>6, <1>13, TallyWithout
    <2>2. SameEntry(Ledger, m, e)
      BY <1>7, <1>8 DEF SameEntry
    <2> QED
      BY <1>1, <2>1, <2>2
  <1>15. CountOK(m, frames', d) /\ SceneOK(m, frames', d)
    <2>1. /\ OwedIn(Append(frames, g), d) = OwedIn(frames, d) + One(Owes(g, d))
          /\ MadeIn(Append(frames, g), d) <=> MadeIn(frames, d) \/ Makes(g, d)
      BY <1>2, <1>6, TallyOnTop
    <2>2. One(Owes(g, d)) = 0 /\ Makes(g, d) /\ One(owner[d] # NoOwner) = 0 /\ One(d \in held) = 0
      BY <1>5, <1>6, <1>13 DEF One, Makes
    <2>3. OwedIn(frames', d) = 0 /\ MadeIn(frames', d)
      BY <1>1, <1>5, <2>1, <2>2
    <2>4. One(retained'[d]) \in Nat
      BY DEF One
    <2>5. refs'[d] = One(owner[d] # NoOwner) + One(d \in held) + One(retained'[d]) + OwedIn(frames', d)
      BY <1>8, <2>2, <2>3, <2>4
    <2> QED
      BY <1>5, <1>7, <1>8, <2>3, <2>5 DEF CountOK, SceneOK
  <1>16. Settles(m, frames')
    <2>1. Settles(Ledger, frames) /\ \A e \in Components : e \in {d} => CountOK(m, frames', e) /\ SceneOK(m, frames', e)
      BY <1>15 DEF OwnInv
    <2> QED
      BY ONLY <1>14, <2>1, OthersSettle
  <1> QED
    BY <1>1, <1>9, <1>12, <1>16, OwnersUnchanged DEF m

\* What is given up together: every add waits, those that were made have
\* made their component, and nothing else has to do with it.
LEMMA GivenUpTogether ==
    ASSUME IndInv, OwnInv, At("add", "resolving"), NEW k, k = Base - 1,
           NEW dropped, dropped = {f.comp : f \in {f \in Resolving : f.made}}
    PROVE  /\ k \in 0..Len(frames) /\ frames \in Seq(Frames)
           /\ \A i \in (k + 1)..Len(frames) : \A c \in Components :
                /\ ~Owes(frames[i], c) /\ ~Removes(frames[i], c)
                /\ Makes(frames[i], c) => c \in dropped
           /\ \A c \in dropped :
                /\ c \in Components /\ owner[c] = NoOwner /\ c \notin held
                /\ \A j \in 1..k : ~WorksOn(frames[j], c) /\ ~Owes(frames[j], c)
  <1> DEFINE N == Len(frames)
             b == Base
  <1>1. frames # <<>> /\ Top.op = "add" /\ Top.stage = "resolving"
    BY DEF At
  <1>2. /\ k \in 0..N /\ b \in 1..N /\ b = k + 1 /\ frames \in Seq(Frames) /\ N \in Nat /\ Top = frames[N]
        /\ \A i \in b..N : frames[i].op = "add"
        /\ ~frames[b].made /\ \A i \in (b + 1)..N : frames[i].made
    BY <1>1, BaseFacts, ProperNow, TopNow
  <1>3. Depth = N /\ Resolving = {frames[i] : i \in b..N}
    BY DEF Resolving, Depth
  <1>4. WorkOK(Ledger, frames)
    BY DEF OwnInv
  <1> HIDE DEF N, b
  <1>5. \A i \in b..N : i \in 1..N /\ (i = N \/ (i \in 1..(N - 1) /\ i + 1 \in (b + 1)..N))
    BY <1>2
  <1>6. ASSUME NEW i \in b..N
        PROVE  /\ frames[i].stage = "resolving" /\ frames[i].other = NoComponent
               /\ frames[i].comp \in Components /\ owner[frames[i].comp] = NoOwner
               /\ frames[i].made => frames[i].comp \notin held
    <2>1. StagesOK(frames[i]) /\ FrameHolds(Ledger, frames[i]) /\ frames[i].op = "add" /\ frames[i] \in Frames
      BY <1>2, <1>5, FrameNow DEF N
    <2>2. frames[i].stage = "resolving"
      <3>1. CASE i = N
        BY <1>1, <1>2, <3>1
      <3>2. CASE i # N
        <4>1. frames[i + 1].op = "add" /\ frames[i + 1].made /\ i \in 1..(N - 1)
          BY <1>2, <1>5, <3>2
        <4>2. BegunOK(frames[i], frames[i + 1])
          BY <1>4, <4>1 DEF WorkOK, N
        <4> QED
          BY <4>1, <4>2 DEF BegunOK
      <3> QED
        BY <3>1, <3>2
    <2>3. frames[i].other = NoComponent /\ frames[i].comp # NoComponent
      BY <2>1, <2>2 DEF StagesOK
    <2> QED
      BY <2>1, <2>2, <2>3, FrameFields, LedgerNow DEF FrameHolds, Waits
  <1>7. NoComponent \notin Components
    BY PoolAssumption
  <1>8. ASSUME NEW i \in b..N, NEW c \in Components
        PROVE  /\ ~Owes(frames[i], c) /\ ~Removes(frames[i], c)
               /\ Makes(frames[i], c) => c \in dropped
    BY <1>3, <1>6, <1>7 DEF Owes, Removes, Makes
  <1>9. ASSUME NEW c \in dropped
        PROVE  /\ c \in Components /\ owner[c] = NoOwner /\ c \notin held
               /\ \A j \in 1..k : ~WorksOn(frames[j], c) /\ ~Owes(frames[j], c)
    <2>1. PICK i \in b..N : c = frames[i].comp /\ frames[i].made
      BY <1>3
    <2>2. frames[i].stage = "resolving" /\ c \in Components /\ owner[c] = NoOwner /\ c \notin held
      BY <1>6, <2>1
    <2>3. ASSUME NEW j \in 1..k PROVE ~WorksOn(frames[j], c) /\ ~Owes(frames[j], c)
      <3>1. j \in 1..N /\ i \in 1..N /\ j < i
        BY <1>2
      <3>2. ApartOK(frames[j], frames[i])
        BY <1>4, <3>1 DEF WorkOK, N
      <3> QED
        BY <2>1, <2>2, <3>2 DEF ApartOK, Owes
    <2> QED
      BY <2>2, <2>3
  <1>10. (k + 1)..N = b..N
    BY <1>2
  <1> QED
    BY <1>2, <1>8, <1>9, <1>10 DEF N

LEMMA FailRequirementOwns ==
    ASSUME IndInv, OwnInv, FailRequirement
    PROVE  OwnInv'
  <1>a. PICK k, dropped : k = Base - 1 /\ dropped = {f.comp : f \in {f \in Resolving : f.made}}
    OBVIOUS
  <1> DEFINE m == Ledger'
             fs == SubSeq(frames, 1, k)
  <1>1. /\ At("add", "resolving") /\ frames' = fs /\ born' = born \ dropped
        /\ refs' = [c \in Components |-> IF c \in dropped THEN 0 ELSE refs[c]]
        /\ retained' = [c \in Components |-> retained[c] /\ c \notin dropped]
        /\ UNCHANGED slotVars /\ comps' = comps /\ owner' = owner /\ registered' = registered /\ held' = held
    BY <1>a DEF FailRequirement
  <1>2. /\ k \in 0..Len(frames) /\ frames \in Seq(Frames)
        /\ \A i \in (k + 1)..Len(frames) : \A c \in Components :
             /\ ~Owes(frames[i], c) /\ ~Removes(frames[i], c)
             /\ Makes(frames[i], c) => c \in dropped
        /\ \A c \in dropped :
             /\ c \in Components /\ owner[c] = NoOwner /\ c \notin held
             /\ \A j \in 1..k : ~WorksOn(frames[j], c) /\ ~Owes(frames[j], c)
    BY ONLY <1>a, <1>1, IndInv, OwnInv, GivenUpTogether
  <1>3. /\ fs \in Seq(Frames) /\ Len(fs) = k
        /\ \A j \in 1..k : fs[j] = frames[j] /\ j \in 1..Len(frames)
    BY <1>2
  <1>4. WorkOK(Ledger, fs) /\ Settles(Ledger, frames)
    BY <1>2, WorkPrefix DEF OwnInv
  <1>5. /\ m.born = born' /\ m.owner = owner /\ m.registered = registered /\ m.refs = refs'
        /\ m.held = held /\ m.retained = retained' /\ m.comps = comps
        /\ Ledger.born = born /\ Ledger.owner = owner /\ Ledger.registered = registered
        /\ Ledger.refs = refs /\ Ledger.held = held /\ Ledger.retained = retained /\ Ledger.comps = comps
    BY <1>1, LedgerNow
  <1>6. /\ refs' \in [Components -> Nat] /\ retained' \in [Components -> BOOLEAN] /\ born' \subseteq Components
        /\ \A d \in Components : d \notin dropped =>
             /\ refs'[d] = refs[d] /\ retained'[d] = retained[d]
             /\ d \in born' <=> d \in born
        /\ \A d \in Components : d \in dropped => refs'[d] = 0 /\ retained'[d] = FALSE /\ d \notin born'
    BY <1>1, LedgerTyped
  <1>7. m \in Ledgers
    BY <1>1, <1>6, LedgerTyped, LedgerNext
  <1> HIDE DEF m
  <1>8. WorkOK(m, fs)
    <2>1. ASSUME NEW j \in 1..k PROVE FrameHolds(m, frames[j])
      <3>1. ArrayStays(Ledger, m, frames[j])
        BY <1>3, <1>5, SameArray DEF ArrayOf
      <3>2. \A c \in Components : WorksOn(frames[j], c) => StaysFor(Ledger, m, c)
        <4>1. \A c \in Components : WorksOn(frames[j], c) => c \notin dropped
          BY <1>2
        <4> QED
          BY <1>5, <1>6, <4>1 DEF StaysFor, Waits
      <3>3. LeavesAlone(Ledger, m, frames[j])
        BY <3>1, <3>2 DEF LeavesAlone
      <3>4. frames[j] \in Frames /\ StagesOK(frames[j]) /\ FrameHolds(Ledger, frames[j])
        BY <1>3, FrameNow
      <3> QED
        BY <3>3, <3>4, FrameStands
    <2>2. \A j \in 1..Len(fs) : FrameHolds(m, fs[j])
      BY <1>3, <2>1
    <2> QED
      BY <1>4, <2>2, WorkStands
  <1> HIDE DEF fs
  <1>9. \A d \in Components : d \notin dropped => SameEntry(Ledger, m, d) /\ SameTally(Ledger, frames, fs, d)
    <2> SUFFICES ASSUME NEW d \in Components, d \notin dropped
                 PROVE  SameEntry(Ledger, m, d) /\ SameTally(Ledger, frames, fs, d)
      OBVIOUS
    <2>1. SameEntry(Ledger, m, d)
      BY <1>5, <1>6 DEF SameEntry
    <2>2. \A i \in (k + 1)..Len(frames) : ~Owes(frames[i], d) /\ ~Removes(frames[i], d) /\ ~Makes(frames[i], d)
      BY <1>2
    <2>3. /\ OwedIn(fs, d) = OwedIn(frames, d)
          /\ RemovedIn(fs, d) <=> RemovedIn(frames, d)
          /\ MadeIn(frames, d) => MadeIn(fs, d) \/ \E i \in (k + 1)..Len(frames) : Makes(frames[i], d)
      BY <1>2, <2>2, TallyOfPrefix DEF fs
    <2> QED
      BY <2>1, <2>2, <2>3 DEF SameTally
  <1>10. \A d \in Components : d \in dropped => CountOK(m, fs, d) /\ SceneOK(m, fs, d)
    <2> SUFFICES ASSUME NEW d \in Components, d \in dropped
                 PROVE  CountOK(m, fs, d) /\ SceneOK(m, fs, d)
      OBVIOUS
    <2>1. OwedIn(fs, d) = 0
      BY <1>2, <1>3, NothingOwed
    <2>2. owner[d] = NoOwner /\ d \notin held /\ registered[d] = NoPool
      BY <1>2, CountNow
    <2>3. One(owner[d] # NoOwner) = 0 /\ One(d \in held) = 0 /\ One(retained'[d]) = 0
      BY <1>6, <2>2 DEF One
    <2>4. refs'[d] = One(owner[d] # NoOwner) + One(d \in held) + One(retained'[d]) + OwedIn(fs, d)
      BY <1>6, <2>1, <2>3
    <2>5. ~(refs'[d] > 0) /\ d \notin born'
      BY <1>6
    <2> QED
      BY <1>5, <2>2, <2>4, <2>5 DEF CountOK, SceneOK
  <1>11. Settles(m, fs)
    BY ONLY <1>4, <1>9, <1>10, OthersSettle
  <1> QED
    BY <1>1, <1>7, <1>8, <1>11, OwnersUnchanged DEF m

-----------------------------------------------------------------------------
(* The components of a migrating entity go to its copy.                    *)

\* From l to m, the components S of slot s of p went to slot r of q.
PassesOn(l, m, g, S, p, s, q, r) ==
    /\ S = OwnedBy(l, p, <<s, g[p][s]>>) /\ m.comps[p][s] = <<>>
    /\ ArrayIs(m.comps[q][r], OwnedBy(l, q, <<r, g[q][r]>>) \cup S)
    /\ \A c \in Components : m.owner[c] = IF c \in S THEN <<q, <<r, g[q][r]>>>> ELSE l.owner[c]
    /\ \A o \in Pools, t \in Slots :
          (o # p \/ t # s) /\ (o # q \/ t # r) => m.comps[o][t] = l.comps[o][t]

\* What one array gives away another one takes.
LEMMA TwoArraysOwned ==
    ASSUME NEW l, NEW m, NEW g \in [Pools -> [Slots -> Nat]], ArraysOK(l, g), NEW S \in SUBSET Components,
           NEW p \in Pools, NEW s \in Slots, NEW q \in Pools, NEW r \in Slots, p # q,
           PassesOn(l, m, g, S, p, s, q, r)
    PROVE  ArraysOK(m, g)
  <1>1. \A o \in Pools, t \in Slots : <<o, <<t, g[o][t]>>>> # NoOwner
    <2>1. \A o \in Pools, t \in Slots : <<t, g[o][t]>> \in Ids
      BY DEF Ids
    <2> QED
      BY <2>1, PoolAssumption
  <1> SUFFICES ASSUME NEW o \in Pools, NEW t \in Slots
               PROVE  ArrayIs(m.comps[o][t], OwnedBy(m, o, <<t, g[o][t]>>))
    BY DEF ArraysOK
  <1>2. \A c \in Components : c \in S <=> l.owner[c] = <<p, <<s, g[p][s]>>>>
    BY DEF OwnedBy, PassesOn
  <1>3. CASE o = p /\ t = s
    <2>1. OwnedBy(m, p, <<s, g[p][s]>>) = {}
      <3>1. <<q, <<r, g[q][r]>>>> # <<p, <<s, g[p][s]>>>>
        OBVIOUS
      <3> QED
        BY <1>2, <3>1 DEF OwnedBy, PassesOn
    <2>2. ArrayIs(<<>>, {})
      <3>1. <<>> \in Seq(Components)
        OBVIOUS
      <3>2. ToSet(<<>>) = {}
        BY ONLY <3>1, EmptyIffNoElement
      <3>3. IsInjective(<<>>)
        BY DEF IsInjective
      <3> QED
        BY <3>2, <3>3 DEF ArrayIs
    <2> QED
      BY <1>3, <2>1, <2>2 DEF PassesOn
  <1>4. CASE o = q /\ t = r
    <2>1. OwnedBy(m, q, <<r, g[q][r]>>) = OwnedBy(l, q, <<r, g[q][r]>>) \cup S
      BY DEF OwnedBy, PassesOn
    <2> QED
      BY <1>4, <2>1 DEF PassesOn
  <1>5. CASE (o # p \/ t # s) /\ (o # q \/ t # r)
    <2> DEFINE own == <<o, <<t, g[o][t]>>>>
               from == <<p, <<s, g[p][s]>>>>
               into == <<q, <<r, g[q][r]>>>>
    <2>1. own # from /\ own # into
      BY <1>5
    <2>2. \A c \in Components : (c \in S <=> l.owner[c] = from) /\ m.owner[c] = IF c \in S THEN into ELSE l.owner[c]
      BY <1>2 DEF PassesOn
    <2> HIDE DEF own, from, into
    <2>3. \A c \in Components : m.owner[c] = own <=> l.owner[c] = own
      BY <2>1, <2>2
    <2>4. OwnedBy(m, o, <<t, g[o][t]>>) = OwnedBy(l, o, <<t, g[o][t]>>)
      BY <2>3 DEF OwnedBy, own
    <2>5. m.comps[o][t] = l.comps[o][t] /\ ArrayIs(l.comps[o][t], OwnedBy(l, o, <<t, g[o][t]>>))
      BY <1>5 DEF ArraysOK, PassesOn
    <2> QED
      BY <2>4, <2>5
  <1> QED
    BY <1>3, <1>4, <1>5

\* No operation beneath works on what a migrating entity has.
LEMMA MovedAlone ==
    ASSUME IndInv, OwnInv, frames # <<>>, Top.op = "migrate", NEW c \in Components,
           owner[c] = <<Top.pool, Top.id>>
    PROVE  /\ \A i \in 1..Len(Popped) : ~WorksOn(Popped[i], c)
           /\ ~RemovedIn(Popped, c) /\ registered[c] = Top.pool
  <1>1. Top.pool \in Pools /\ Top.id \in Ids /\ Top.comp = NoComponent /\ NoComponent \notin Components
    BY TopNow, TopWork, PoolAssumption DEF StagesOK
  <1>2. owner[c] # NoOwner /\ owner[c][1] = Top.pool
    BY <1>1, PoolAssumption
  <1>3. ASSUME NEW i \in 1..Len(Popped) PROVE ~WorksOn(Popped[i], c)
    <2>1. PICK f : f = Popped[i]
      OBVIOUS
    <2>2. /\ StagesOK(f) /\ FrameHolds(Ledger, f) /\ Ledger \in Ledgers
          /\ f.comp # NoComponent /\ f.pool = Top.pool => f.id # Top.id
      BY <2>1, BelowTop, TopWork DEF WorkOK
    <2> SUFFICES ASSUME WorksOn(f, c) PROVE FALSE
      BY <2>1
    <2>3. Ledger.owner[c] # NoOwner
      BY <1>2, LedgerNow
    <2>4. f.comp = c /\ Ledger.owner[c] = <<f.pool, f.id>>
      BY ONLY <2>2, <2>3, WorksOn(f, c), c \in Components, WorkedOn
    <2>5. f.pool = Top.pool /\ f.id = Top.id
      BY <2>4, LedgerNow
    <2> QED
      BY <1>1, <2>2, <2>4, <2>5
  <1>4. ~RemovedIn(Popped, c)
    BY <1>3 DEF RemovedIn, Removes, WorksOn
  <1>5. ~RemovedIn(frames, c)
    <2>1. ~Removes(Top, c)
      BY <1>1 DEF Removes
    <2> QED
      BY <1>4, <2>1, TopTally
  <1> QED
    BY <1>2, <1>3, <1>4, <1>5, CountNow

LEMMA MigrateComponentsOwns ==
    ASSUME IndInv, OwnInv, MigrateComponents
    PROVE  OwnInv'
  <1>a. PICK p, q, x, y : p = Top.pool /\ q = Top.to /\ x = Top.id /\ y = Top.copy
    OBVIOUS
  <1>b. PICK moved, list : moved = comps[p][Slot(x)] /\ list = comps[q][Slot(y)]
    OBVIOUS
  <1>c. PICK S : S = ToSet(moved)
    OBVIOUS
  <1> DEFINE g == [Top EXCEPT !.stage = "children"]
             m == Ledger'
  <1>1. /\ frames # <<>> /\ Top.op = "migrate" /\ Top.stage = "begin"
        /\ owner' = [c \in Components |-> IF Contains(moved, c) THEN <<q, y>> ELSE owner[c]]
        /\ registered' = [c \in Components |->
              IF Contains(moved, c) THEN Registered([registered EXCEPT ![c] = Unregistered(p, c)[c]], q, c)[c]
              ELSE registered[c]]
        /\ comps' = [comps EXCEPT ![p][Slot(x)] = <<>>, ![q][Slot(y)] = @ \o moved]
        /\ frames' = [frames EXCEPT ![Depth] = g] /\ UNCHANGED slotVars
        /\ born' = born /\ refs' = refs /\ held' = held /\ retained' = retained
    BY <1>a, <1>b DEF MigrateComponents, At, Became, To, lifeVars
  <1>2. /\ Top \in Frames /\ Popped \in Seq(Frames) /\ StagesOK(Top) /\ frames = Append(Popped, Top)
        /\ \A h \in Frames : [frames EXCEPT ![Depth] = h] = Append(Popped, h)
    BY <1>1, TopWork
  <1>3. /\ p \in Pools /\ q \in Pools /\ p # q /\ x \in Live(p) /\ y \in Live(q)
        /\ \A i \in 1..Len(Popped) :
             /\ Popped[i].op # "destroy" /\ Popped[i].pool = p => Popped[i].id # x
             /\ Popped[i].op # "destroy" /\ Popped[i].pool = q => Popped[i].id # y
    <2>1. /\ Top.pool \in Pools /\ Top.to \in Pools /\ Top.to # Top.pool
          /\ Top.id \in Linked(Top.pool) /\ Top.copy \in Linked(Top.to)
          /\ \A i \in 1..Len(Popped) :
               /\ Popped[i].op # "destroy" /\ Popped[i].pool = Top.pool => Popped[i].id # Top.id
               /\ Popped[i].op # "destroy" /\ Popped[i].pool = Top.to => Popped[i].id # Top.copy
      BY <1>1, MigrationNow
    <2>2. Linked(p) \subseteq Live(p) /\ Linked(q) \subseteq Live(q)
      BY <1>a, <2>1, FramesNow
    <2> QED
      BY <1>a, <2>1, <2>2
  <1>4. /\ moved \in Seq(Components) /\ IsInjective(moved) /\ Slot(x) \in Slots /\ x \in Ids
        /\ \A c \in Components : c \in ToSet(moved) <=> owner[c] = <<p, x>>
    BY <1>3, <1>b, ArrayNow
  <1>5. /\ list \in Seq(Components) /\ IsInjective(list) /\ Slot(y) \in Slots /\ y \in Ids
        /\ \A c \in Components : c \in ToSet(list) <=> owner[c] = <<q, y>>
        /\ <<q, y>> # NoOwner /\ <<p, x>> # NoOwner
    BY <1>3, <1>b, ArrayNow
  <1>6. /\ S \subseteq Components /\ \A c : Contains(moved, c) <=> c \in S
        /\ \A c \in Components : c \in S <=> owner[c] = <<p, x>>
    BY ONLY <1>4, <1>c, ToSetFacts
  <1>7. \A c \in Components : c \in S =>
           /\ \A i \in 1..Len(Popped) : ~WorksOn(Popped[i], c)
           /\ ~RemovedIn(Popped, c) /\ registered[c] = p
    BY <1>1, <1>6, <1>a, MovedAlone
  <1>8. list \o moved \in Seq(Components) /\ IsInjective(list \o moved) /\ ToSet(list \o moved) = ToSet(list) \cup S
    <2>1. ToSet(list) \cap ToSet(moved) = {}
      <3>1. <<q, y>> # <<p, x>>
        BY <1>3
      <3>2. ToSet(list) \subseteq Components
        BY ONLY <1>5, ToSetFacts
      <3> QED
        BY <1>4, <1>5, <3>1, <3>2
    <2> QED
      BY ONLY <1>4, <1>5, <1>c, <2>1, ConcatFacts
  <1>9. /\ comps' \in [Pools -> [Slots -> Seq(Components)]]
        /\ comps'[p][Slot(x)] = <<>> /\ comps'[q][Slot(y)] = list \o moved
        /\ \A o \in Pools, t \in Slots :
             (o # p \/ t # Slot(x)) /\ (o # q \/ t # Slot(y)) => comps'[o][t] = comps[o][t]
    <2>1. comps \in [Pools -> [Slots -> Seq(Components)]] /\ <<>> \in Seq(Components)
      BY LedgerTyped
    <2>2. PICK new : new = list \o moved
      OBVIOUS
    <2>3. comps' = [comps EXCEPT ![p] = [comps[p] EXCEPT ![Slot(x)] = <<>>],
                                 ![q] = [comps[q] EXCEPT ![Slot(y)] = new]]
      BY <1>1, <1>3, <1>b, <2>2, <2>1
    <2>4. new \in Seq(Components)
      BY <1>8, <2>2
    <2>5. /\ comps'[p] = [comps[p] EXCEPT ![Slot(x)] = <<>>]
          /\ comps'[q] = [comps[q] EXCEPT ![Slot(y)] = new]
          /\ \A o \in Pools : o # p /\ o # q => comps'[o] = comps[o]
      BY <1>3, <2>1, <2>3
    <2>6. /\ comps'[p] \in [Slots -> Seq(Components)] /\ comps'[q] \in [Slots -> Seq(Components)]
          /\ comps'[p][Slot(x)] = <<>> /\ comps'[q][Slot(y)] = new
          /\ \A t \in Slots : t # Slot(x) => comps'[p][t] = comps[p][t]
          /\ \A t \in Slots : t # Slot(y) => comps'[q][t] = comps[q][t]
      BY <1>3, <1>4, <1>5, <2>1, <2>4, <2>5
    <2>7. comps' \in [Pools -> [Slots -> Seq(Components)]]
      <3>1. \A o \in Pools : comps'[o] \in [Slots -> Seq(Components)]
        BY <2>1, <2>5, <2>6
      <3>2. comps' = [o \in Pools |-> comps'[o]]
        BY <2>1, <2>3
      <3> QED
        BY <3>1, <3>2
    <2> QED
      BY <2>2, <2>5, <2>6, <2>7
  <1>10. /\ \A c \in Components : owner'[c] = IF c \in S THEN <<q, y>> ELSE owner[c]
         /\ owner' \in [Components -> (Pools \X Ids) \cup {NoOwner}]
    <2>1. owner' = [c \in Components |-> IF c \in S THEN <<q, y>> ELSE owner[c]]
      BY <1>1, <1>6
    <2> QED
      BY <1>3, <1>5, <2>1, LedgerTyped
  <1>11. /\ \A c \in Components : c \in S => registered'[c] = q
         /\ \A c \in Components : c \notin S => registered'[c] = registered[c]
         /\ registered' \in [Components -> Pools \cup {NoPool}]
    <2>1. registered \in [Components -> Pools \cup {NoPool}] /\ NoPool \notin open
      BY LedgerTyped, PoolAssumption DEF OwnInv
    <2>2. ASSUME NEW c \in Components, c \in S
          PROVE  Registered([registered EXCEPT ![c] = Unregistered(p, c)[c]], q, c)[c] = q
      <3>1. Unregistered(p, c)[c] = NoPool
        BY <1>7, <2>1, <2>2 DEF Unregistered
      <3>2. PICK reg : reg = [registered EXCEPT ![c] = Unregistered(p, c)[c]]
        OBVIOUS
      <3>3. reg[c] = NoPool /\ reg \in [Components -> Pools \cup {NoPool}]
        BY <2>1, <3>1, <3>2
      <3>4. Registered(reg, q, c)[c] = q
        BY <2>1, <3>3 DEF Registered
      <3> QED
        BY <3>2, <3>4
    <2>3. /\ \A c \in Components : c \in S => registered'[c] = q
          /\ \A c \in Components : c \notin S => registered'[c] = registered[c]
      BY <1>1, <1>6, <2>2
    <2>4. registered' = [c \in Components |-> registered'[c]]
      BY <1>1
    <2> QED
      BY <1>3, <2>1, <2>3, <2>4
  <1>12. /\ m.born = born /\ m.owner = owner' /\ m.registered = registered' /\ m.refs = refs
         /\ m.held = held /\ m.retained = retained /\ m.comps = comps'
         /\ Ledger.owner = owner /\ Ledger.comps = comps
    BY <1>1, LedgerNow
  <1>13. m \in Ledgers
    BY <1>1, <1>9, <1>10, <1>11, LedgerTyped, LedgerNext
  <1>14. /\ x = <<Slot(x), gen[p][Slot(x)]>> /\ y = <<Slot(y), gen[q][Slot(y)]>>
         /\ gen \in [Pools -> [Slots -> Nat]]
    BY <1>3, <1>4, <1>5, LiveNow
  <1> HIDE DEF m
  <1>15. ArraysOK(m, gen)
    <2>1. ArraysOK(Ledger, gen)
      BY DEF OwnInv
    <2>2. PICK s, r : s = Slot(x) /\ r = Slot(y)
      OBVIOUS
    <2>3. S = OwnedBy(Ledger, p, <<s, gen[p][s]>>)
      BY <1>6, <1>12, <1>14, <2>2 DEF OwnedBy
    <2>4. ArrayIs(m.comps[q][r], OwnedBy(Ledger, q, <<r, gen[q][r]>>) \cup S)
      <3>1. OwnedBy(Ledger, q, <<r, gen[q][r]>>) = ToSet(list)
        <4>1. ToSet(list) \subseteq Components
          BY ONLY <1>5, ToSetFacts
        <4> QED
          BY <1>5, <1>12, <1>14, <2>2, <4>1 DEF OwnedBy
      <3> QED
        BY <1>8, <1>9, <1>12, <2>2, <3>1 DEF ArrayIs
    <2>5. /\ m.comps[p][s] = <<>>
          /\ \A o \in Pools, t \in Slots :
               (o # p \/ t # s) /\ (o # q \/ t # r) => m.comps[o][t] = Ledger.comps[o][t]
          /\ \A c \in Components : m.owner[c] = IF c \in S THEN <<q, <<r, gen[q][r]>>>> ELSE Ledger.owner[c]
      BY <1>9, <1>10, <1>12, <1>14, <2>2
    <2>6. s \in Slots /\ r \in Slots /\ S \in SUBSET Components /\ p \in Pools /\ q \in Pools /\ p # q
      BY <1>3, <1>4, <1>5, <1>6, <2>2
    <2>7. PassesOn(Ledger, m, gen, S, p, s, q, r)
      BY ONLY <2>3, <2>4, <2>5 DEF PassesOn
    <2> QED
      BY ONLY <1>14, <2>1, <2>6, <2>7, TwoArraysOwned
  <1>16. OwnersLive(m, World.live)
    <2> SUFFICES ASSUME NEW c \in Components, NEW o \in Pools, NEW z \in Ids, owner'[c] = <<o, z>>
                 PROVE  z \in World.live[o]
      BY <1>12 DEF OwnersLive
    <2>1. CASE c \in S
      <3>1. <<o, z>> = <<q, y>>
        BY <1>10, <2>1
      <3>2. o = q /\ z = y
        BY ONLY <3>1
      <3> QED
        BY <1>3, <3>2, LiveNow
    <2>2. CASE c \notin S
      BY <1>10, <1>12, <2>2 DEF OwnInv, OwnersLive
    <2> QED
      BY <2>1, <2>2
  <1>17. \A i \in 1..Len(Popped) : ArrayStays(Ledger, m, Popped[i])
    <2> SUFFICES ASSUME NEW i \in 1..Len(Popped) PROVE ArrayStays(Ledger, m, Popped[i])
      OBVIOUS
    <2>1. PICK f : f = Popped[i]
      OBVIOUS
    <2>2. /\ i \in 1..Len(frames) /\ f = frames[i]
      BY <1>1, <2>1, BelowTop
    <2>3. /\ f.pool \in Pools
          /\ f.op # "destroy" => f.id \in Live(f.pool) /\ Slot(f.id) \in Slots
      BY <2>2, FrameNow
    <2>4. ASSUME f.op # "destroy" PROVE ArrayOf(m, f) = ArrayOf(Ledger, f)
      <3>1. f.pool = p => Slot(f.id) # Slot(x)
        BY <1>3, <2>1, <2>3, <2>4, LiveNow
      <3>2. f.pool = q => Slot(f.id) # Slot(y)
        BY <1>3, <2>1, <2>3, <2>4, LiveNow
      <3> QED
        BY <1>9, <1>12, <2>3, <2>4, <3>1, <3>2 DEF ArrayOf
    <2>5. ArrayStays(Ledger, m, frames[i])
      BY <2>2, <2>4, SameArray
    <2> QED
      BY <2>1, <2>2, <2>5
  <1>18. /\ NoComponent \notin Components /\ Top.comp = NoComponent /\ Top.other = NoComponent
    BY <1>1, <1>2, PoolAssumption DEF StagesOK
  <1>19. /\ g \in Frames /\ g.op = "migrate" /\ g.stage = "children" /\ g.pool = p /\ g.id = x
         /\ g.comp = NoComponent /\ g.other = NoComponent
    BY <1>1, <1>2, <1>18, <1>a DEF Frames
  <1> HIDE DEF g
  <1>20. frames' = Append(Popped, g)
    BY <1>1, <1>2, <1>19
  <1>21. FitsOn(m, Popped, g)
    <2>1. StagesOK(g)
      BY <1>19 DEF StagesOK
    <2>2. ArrayOf(m, g) = <<>>
      BY <1>9, <1>12, <1>19 DEF ArrayOf
    <2>3. FrameHolds(m, g)
      BY <1>19, <2>2 DEF FrameHolds, ArrayHolds, Replacing
    <2>4. \A i \in 1..Len(Popped) : ApartOK(Popped[i], g)
      BY <1>18, <1>19 DEF ApartOK
    <2>5. Popped # <<>> => BegunOK(Popped[Len(Popped)], g)
      BY <1>19 DEF BegunOK
    <2> QED
      BY <2>1, <2>3, <2>4, <2>5 DEF FitsOn
  <1>22. OthersKept(S)
    BY <1>1, <1>10, <1>11 DEF OthersKept
  <1>23. \A d \in Components : ~Owes(g, d) /\ ~Removes(g, d) /\ ~Owes(Top, d) /\ ~Removes(Top, d) /\ ~Makes(Top, d)
    BY <1>18, <1>19 DEF Owes, Removes, Makes
  <1>24. ASSUME NEW c \in Components, c \in S
         PROVE  CountOK(m, Append(Popped, g), c) /\ SceneOK(m, Append(Popped, g), c)
    <2>1. One(Owes(Top, c)) = 0 /\ One(Owes(g, c)) = 0
      BY <1>23 DEF One
    <2>2. /\ OwedIn(Popped, c) \in Nat
          /\ OwedIn(frames, c) = OwedIn(Popped, c) + One(Owes(Top, c))
          /\ OwedIn(Append(Popped, g), c) = OwedIn(Popped, c) + One(Owes(g, c))
          /\ RemovedIn(Append(Popped, g), c) <=> RemovedIn(Popped, c) \/ Removes(g, c)
      BY <1>1, <1>19, TopTally
    <2>3. OwedIn(Append(Popped, g), c) = OwedIn(frames, c)
      BY <2>1, <2>2
    <2>4. ~RemovedIn(Append(Popped, g), c)
      BY <1>7, <1>23, <1>24, <2>2
    <2>5. owner[c] # NoOwner /\ owner'[c] # NoOwner /\ owner'[c][1] = q /\ registered'[c] = q
      BY <1>5, <1>6, <1>10, <1>11, <1>24
    <2>6. One(owner[c] # NoOwner) = 1 /\ One(owner'[c] # NoOwner) = 1
      BY <2>5 DEF One
    <2>7. /\ refs[c] > 0 /\ c \in born
          /\ refs[c] = One(owner[c] # NoOwner) + One(c \in held) + One(retained[c]) + OwedIn(frames, c)
      BY <2>5, CountNow
    <2> QED
      BY <1>12, <2>3, <2>4, <2>5, <2>6, <2>7 DEF CountOK, SceneOK
  <1>25. /\ \A d \in Components : d \notin S =>
              /\ Owes(Top, d) <=> Owes(g, d)
              /\ Removes(Top, d) <=> Removes(g, d)
              /\ Makes(Top, d) => Makes(g, d) \/ refs[d] > 0
         /\ \A i \in 1..Len(Popped) : \A d \in Components : d \in S => ~WorksOn(Popped[i], d)
         /\ \A d \in Components : d \in S =>
              CountOK(m, Append(Popped, g), d) /\ SceneOK(m, Append(Popped, g), d)
    BY <1>7, <1>23, <1>24
  <1> QED
    BY ONLY <1>1, <1>13, <1>15, <1>16, <1>17, <1>19, <1>20, <1>21, <1>22, <1>25, TopChanges, IndInv, OwnInv DEF m

-----------------------------------------------------------------------------
(* The invariant of the ownership: at the start, and over a step. *)

LEMMA OwnInit == Init => OwnInv
  <1> SUFFICES ASSUME Init PROVE OwnInv
    OBVIOUS
  <1>1. PICK l : l = Ledger
    OBVIOUS
  <1>2. /\ l.born = {} /\ l.held = {} /\ l.owner = [c \in Components |-> NoOwner]
        /\ l.registered = [c \in Components |-> NoPool] /\ l.refs = [c \in Components |-> 0]
        /\ l.retained = [c \in Components |-> FALSE]
        /\ l.comps = [p \in Pools |-> [s \in Slots |-> <<>>]]
    BY <1>1, LedgerNow DEF Init
  <1>3. Ledger \in Ledgers
    BY DEF Init, Ledger, Ledgers
  <1>4. frames = <<>> /\ frames \in Seq(Frames) /\ Len(frames) = 0 /\ open \subseteq Pools
    BY DEF Init
  <1>5. WorkOK(l, frames)
    BY <1>4 DEF WorkOK
  <1>6. ArraysOK(l, gen)
    <2> SUFFICES ASSUME NEW p \in Pools, NEW s \in Slots
                 PROVE  ArrayIs(<<>>, OwnedBy(l, p, <<s, gen[p][s]>>))
      BY <1>2 DEF ArraysOK
    <2>1. <<s, gen[p][s]>> \in Ids
      BY DEF Init, Ids
    <2>2. OwnedBy(l, p, <<s, gen[p][s]>>) = {}
      <3>1. <<p, <<s, gen[p][s]>>>> # NoOwner
        <4>1. PICK x : x = <<s, gen[p][s]>>
          OBVIOUS
        <4>2. x \in Ids /\ p \in Pools
          BY <2>1, <4>1
        <4>3. <<p, x>> \in Pools \X Ids
          BY ONLY <4>2
        <4>4. NoOwner \notin Pools \X Ids
          BY PoolAssumption
        <4> QED
          BY ONLY <4>1, <4>3, <4>4
      <3>2. \A c \in Components : l.owner[c] = NoOwner
        BY <1>2
      <3> QED
        BY ONLY <3>1, <3>2 DEF OwnedBy
    <2>3. ToSet(<<>>) = {} /\ IsInjective(<<>>)
      <3>1. <<>> \in Seq(Components)
        OBVIOUS
      <3>2. ToSet(<<>>) = {}
        BY ONLY <3>1, EmptyIffNoElement
      <3> QED
        BY <3>2 DEF IsInjective
    <2> QED
      BY <2>2, <2>3 DEF ArrayIs
  <1>7. OwnersLive(l, World.live)
    BY <1>2, PoolAssumption DEF OwnersLive
  <1>8. Settles(l, frames)
    <2> SUFFICES ASSUME NEW c \in Components PROVE CountOK(l, frames, c) /\ SceneOK(l, frames, c)
      BY DEF Settles
    <2>1. OwedIn(frames, c) = 0
      <3>1. \A i \in 1..Len(frames) : ~Owes(frames[i], c)
        BY ONLY <1>4
      <3> QED
        BY ONLY <1>4, <3>1, NothingOwed
    <2>2. l.owner[c] = NoOwner /\ c \notin l.held /\ c \notin l.born /\ ~l.retained[c]
          /\ l.refs[c] = 0 /\ l.registered[c] = NoPool
      BY <1>2
    <2>3. One(l.owner[c] # NoOwner) = 0 /\ One(c \in l.held) = 0 /\ One(l.retained[c]) = 0
      <3>1. One(l.owner[c] # NoOwner) = 0
        BY <2>2 DEF One
      <3>2. One(c \in l.held) = 0
        BY <2>2 DEF One
      <3>3. One(l.retained[c]) = 0
        BY <2>2 DEF One
      <3> QED
        BY <3>1, <3>2, <3>3
    <2> QED
      BY <2>1, <2>2, <2>3 DEF CountOK, SceneOK
  <1> QED
    BY <1>1, <1>3, <1>4, <1>5, <1>6, <1>7, <1>8 DEF OwnInv

LEMMA HostOwns ==
    ASSUME IndInv, OwnInv, IndInv', Host
    PROVE  OwnInv'
  <1>1. ASSUME NEW p \in Pools, NEW u \in Uuids, Alloc(p, u) PROVE OwnInv'
    BY <1>1, AllocOwns
  <1>2. ASSUME NEW p \in Pools, DestroyPool(p) PROVE OwnInv'
    BY <1>2, DestroyPoolOwns
  <1>3. ASSUME NEW p \in Pools, NEW id \in Usable(p), Free(p, id) PROVE OwnInv'
    BY <1>3, FreeOwns
  <1>4. ASSUME NEW p \in Pools, NEW id \in Usable(p), NEW u \in Uuids, SetUuid(p, id, u) PROVE OwnInv'
    BY <1>4, OthersOwn
  <1>5. ASSUME NEW p \in Pools, NEW id \in Usable(p), NEW q \in Usable(p) \cup {NoId}, SetParent(p, id, q)
        PROVE  OwnInv'
    BY <1>5, OthersOwn
  <1>6. ASSUME NEW p \in Pools, NEW id \in Usable(p), NEW k \in 1..MaxSlots, SetSiblingIndex(p, id, k)
        PROVE  OwnInv'
    BY <1>6, OthersOwn
  <1>7. ASSUME NEW p \in Pools, NEW id \in Usable(p), NEW q \in Pools, Migrate(p, id, q) PROVE OwnInv'
    BY <1>7, MigrateOwns
  <1>8. ASSUME NEW p \in Pools, NEW id \in Usable(p), ChangeRow(p, id) PROVE OwnInv'
    BY <1>8, OthersOwn
  <1>9. ASSUME NEW p \in Pools, NEW id \in Usable(p), NEW c \in Components,
               AddComponent(p, id, c) \/ RemoveComponent(p, id, c)
        PROVE  OwnInv'
    BY <1>9, AddComponentOwns, RemoveComponentOwns
  <1>10. ASSUME NEW p \in Pools, NEW id \in Usable(p), NEW c \in Components,
                NEW k \in 1..Len(comps[p][Slot(id)]),
                ReplaceComponent(p, id, k, c) \/ SetComponentIndex(p, id, c, k)
         PROVE  OwnInv'
    BY <1>10, ReplaceComponentOwns, SetComponentIndexOwns
  <1>11. ASSUME NEW c \in Components, CreateComponent(c) \/ TakeReference(c) \/ LetGo(c) PROVE OwnInv'
    BY <1>11, ReferencesOwn
  <1> QED
    BY <1>1, <1>2, <1>3, <1>4, <1>5, <1>6, <1>7, <1>8, <1>9, <1>10, <1>11 DEF Host

LEMMA ContinueOwns ==
    ASSUME IndInv, OwnInv, IndInv', Continue
    PROVE  OwnInv'
  <1>1. CASE SkipRequirement \/ FailRequirement \/ AddRaw \/ AddReturn
    BY <1>1, SkipRequirementOwns, FailRequirementOwns, AddRawOwns, AddReturnOwns
  <1>2. CASE \E d \in Components, retains \in BOOLEAN : MakeRequirement(d, retains)
    BY <1>2, MakeRequirementOwns
  <1>3. CASE RemoveReturn \/ RemoveEnd \/ ReplaceReturn \/ ReplaceEnd
    BY <1>3, RemoveReturnOwns, RemoveEndOwns, ReplaceReturnOwns
  <1>4. CASE FreeComponent \/ FreeComponentReturn \/ FreeUnlink \/ FreeEnd
    BY <1>4, FreeComponentOwns, FreeComponentReturnOwns, FreeUnlinkOwns, FreeEndOwns
  <1>5. CASE DestroyNext \/ DestroyEntity
    BY <1>5, DestroyNextOwns, DestroyEntityOwns
  <1>6. CASE MigrateComponents \/ MigrateChild \/ MigrateAbandon \/ MigrateEnd \/ MigrateAttach
    BY <1>6, MigrateComponentsOwns, MigrateChildOwns, MigrateAbandonOwns, MigrateEndOwns, MigrateAttachOwns
  <1>7. CASE MigrateSkip
    <2>1. UNCHANGED slotVars /\ UNCHANGED componentVars /\ frames' = frames
      BY <1>7 DEF MigrateSkip
    <2> QED
      BY <2>1, NothingChanges, SlotsUnchanged, SameWork
  <1> QED
    BY <1>1, <1>2, <1>3, <1>4, <1>5, <1>6, <1>7 DEF Continue

LEMMA OwnStep ==
    ASSUME IndInv, OwnInv, [Next]_vars
    PROVE  OwnInv'
  <1>1. IndInv'
    BY NextKeeps
  <1>2. CASE Next
    BY <1>1, <1>2, HostOwns, ContinueOwns DEF Next
  <1>3. CASE UNCHANGED vars
    <2>1. UNCHANGED slotVars /\ UNCHANGED componentVars /\ frames' = frames
      BY <1>3 DEF vars
    <2>2. Steady
      BY <2>1, SlotsUnchanged, NothingChanges
    <2> QED
      BY <2>1, <2>2, SameWork
  <1> QED
    BY <1>2, <1>3

LEMMA OwnInvHolds == Spec => []OwnInv
  <1>1. IndInv /\ OwnInv /\ [Next]_vars => OwnInv'
    BY OwnStep
  <1>2. Spec => []IndInv
    BY InvariantHolds
  <1> QED
    BY <1>1, <1>2, OwnInit, PTL DEF Spec

-----------------------------------------------------------------------------
(* What the invariant says, in the terms of the property. *)

\* Every array holds what its living entity owns.
LEMMA ArraysAreExact ==
    ASSUME IndInv, OwnInv, NEW p \in Pools, NEW s \in Slots
    PROVE  /\ IsInjective(comps[p][s])
           /\ ToSet(comps[p][s]) = {c \in Components : alive[p][s] /\ owner[c] = <<p, IdAt(p, s)>>}
  <1>1. PICK x : x = <<s, gen[p][s]>>
    OBVIOUS
  <1>2. /\ comps[p][s] \in Seq(Components) /\ IsInjective(comps[p][s]) /\ x \in Ids
        /\ \A c \in Components : c \in ToSet(comps[p][s]) <=> owner[c] = <<p, x>>
        /\ \A c \in Components : owner[c] = <<p, x>> => x \in Live(p)
    BY <1>1, OwnersNow
  <1>3. ToSet(comps[p][s]) \subseteq Components
    BY ONLY <1>2, ToSetFacts
  <1>4. x \in Live(p) <=> alive[p][s]
    BY <1>1, LiveNow, LiveFacts
  <1> QED
    BY <1>1, <1>2, <1>3, <1>4 DEF IdAt

\* A component is owned by a living entity, and its scene and its count say
\* where it is and who refers to it.
LEMMA ComponentIsExact ==
    ASSUME IndInv, OwnInv, NEW c \in Components
    PROVE  /\ owner[c] # NoOwner => Alive(owner[c][1], owner[c][2])
           /\ registered[c] =
                IF owner[c] # NoOwner /\ ~\E f \in Running : f.comp = c /\ f.stage = "removing"
                THEN owner[c][1] ELSE NoPool
           /\ refs[c] = One(owner[c] # NoOwner) + One(c \in held) + One(retained[c]) + Owed(c)
           /\ refs[c] > 0 => c \in born
           /\ c \in born => refs[c] > 0 \/ \E f \in Running : f.comp = c /\ f.made
  <1>1. /\ \A i \in 1..Len(frames) : frames[i] \in Running
        /\ \A f \in Running : \E i \in 1..Len(frames) : f = frames[i]
    <2>1. frames \in Seq(Frames)
      BY DEF IndInv, Typed
    <2> QED
      BY ONLY <2>1, ToSetFacts DEF Running
  <1>2. owner[c] # NoOwner => Alive(owner[c][1], owner[c][2])
    <2> SUFFICES ASSUME owner[c] # NoOwner PROVE Alive(owner[c][1], owner[c][2])
      OBVIOUS
    <2>1. PICK p \in Pools, x \in Ids : owner[c] = <<p, x>>
      BY LedgerTyped
    <2>2. x \in Live(p) /\ Live(p) = LiveOf(alive[p], gen[p])
          /\ gen[p] \in [Slots -> Nat] /\ alive[p] \in [Slots -> BOOLEAN]
      BY <2>1, OwnersNow, LiveNow
    <2>3. alive[p][Slot(x)] /\ gen[p][Slot(x)] = Generation(x)
      BY ONLY <2>1, <2>2, LiveFacts
    <2>4. x # NoId
      BY <2>1, PoolAssumption
    <2> QED
      BY <2>1, <2>3, <2>4 DEF Alive
  <1>3. RemovedIn(frames, c) <=> \E f \in Running : f.comp = c /\ f.stage = "removing"
    BY <1>1 DEF RemovedIn, Removes
  <1>4. MadeIn(frames, c) <=> \E f \in Running : f.comp = c /\ f.made
    BY <1>1 DEF MadeIn, Makes
  <1>5. OwedIn(frames, c) = Owed(c)
    BY DEF OwedIn, Owes, Owed, Depth
  <1> QED
    BY <1>2, <1>3, <1>4, <1>5, CountNow

\* The components of an operation exist.
LEMMA FrameIsExact ==
    ASSUME IndInv, OwnInv, NEW f \in Running
    PROVE  {f.comp, f.other} \subseteq born \cup {NoComponent}
  <1>1. PICK i \in 1..Len(frames) : f = frames[i]
    <2>1. frames \in Seq(Frames)
      BY DEF IndInv, Typed
    <2> QED
      BY ONLY <2>1, ToSetFacts DEF Running
  <1>2. f.comp \in Components \cup {NoComponent} /\ f.other \in Components \cup {NoComponent} /\ f.at \in Nat
    BY <1>1, FrameNow, FrameFields
  <1>3. f.comp \in Components => f.comp \in born
    BY <1>1, WorkedIsBorn DEF WorksOn
  <1>4. f.other \in Components => f.other \in born
    BY <1>1, WorkedIsBorn
  <1> QED
    BY <1>2, <1>3, <1>4

(* A component is in the array of the entity that owns it, once, and in no *)
(* other; the entity is alive, and its scene has the component unless it   *)
(* is being taken off; the count of references is the number of those who  *)
(* hold one (the entity, the host, the factory, an operation in progress), *)
(* so nothing is deleted while it is used and nothing is leaked: whatever  *)
(* the callbacks of tc_entity_pool.c add, take off, replace, free or       *)
(* migrate.                                                                *)
THEOREM OwnershipStaysExact == Spec => []OwnershipExact
  <1>1. IndInv /\ OwnInv => OwnershipExact
    BY ArraysAreExact, ComponentIsExact, FrameIsExact DEF OwnershipExact
  <1>2. (Spec => []IndInv) /\ (Spec => []OwnInv)
    BY InvariantHolds, OwnInvHolds
  <1> QED
    BY <1>1, <1>2, PTL

(* Every variable holds a value of its kind.  Of the counts this says that *)
(* nobody lets go of a reference nobody holds: they are natural numbers    *)
(* because they are exact.  No entity that is migrated has data-only       *)
(* components, as for the tables.                                          *)
THEOREM TypeCorrect ==
    ASSUME ~MigratesRows
    PROVE  Spec => []TypeOK
  <1>1. IndInv /\ OwnInv /\ RowInv => TypeOK
    <2> SUFFICES ASSUME IndInv, OwnInv, RowInv PROVE TypeOK
      OBVIOUS
    <2>1. PoolsTyped /\ comps \in [Pools -> [Slots -> Seq(Components)]] /\ frames \in Seq(Frames)
      BY DEF IndInv, Typed
    <2>2. open \subseteq Pools
      BY DEF OwnInv
    <2>3. RowsTypeOK
      BY DEF RowInv, RowsHold
    <2> QED
      BY <2>1, <2>2, <2>3, LedgerTyped DEF TypeOK, PoolsTyped
  <1>2. (Spec => []IndInv) /\ (Spec => []OwnInv) /\ (Spec => []RowInv)
    BY InvariantHolds, OwnInvHolds, RowInvHolds
  <1> QED
    BY <1>1, <1>2, PTL

=============================================================================
