----------------------------- MODULE EntityRows -----------------------------
(***************************************************************************)
(* Data-only components of entities (termin-scene, tc_archetype.c and      *)
(* tc_entity_pool_soa.c): a pool keeps one dense table per set of types, a *)
(* row per entity that has exactly those types.  An entity changes tables  *)
(* when a type is added or removed, and a row that is given up is filled   *)
(* with the last one, whose entity must then be told its new row.          *)
(*                                                                         *)
(* The memory of a table is kept apart from its rows: a row given up       *)
(* leaves its values behind, and the next row allocated there finds them.  *)
(***************************************************************************)
EXTENDS Integers, Sequences, FiniteSets, SequencesExt

CONSTANTS
    Pools,          \* the entity pools, one per scene
    MaxSlots,       \* bound: the capacity a pool may grow to
    RowTypes,       \* the registered data-only types
    InitTypes,      \* those registered with an init function
    RowValues       \* what a field may hold; 0 is the zeroed value

ASSUME RowsAssumption ==
    /\ MaxSlots \in Nat \ {0}
    /\ IsFiniteSet(RowTypes) /\ InitTypes \subseteq RowTypes
    /\ 0 \in RowValues

Slots == 0..(MaxSlots - 1)
Tables == SUBSET RowTypes

(* tc_entity_id: index and generation. *)
Ids == Slots \X Nat
Slot(id) == id[1]
Generation(id) == id[2]

VARIABLES
    mask,       \* soa_type_masks of a pool's slots
    row,        \* soa_archetype_rows, from 1; 0 stands for no archetype
    rows,       \* the entity of every row of a table
    memory,     \* the fields of every row a table has ever used
    written     \* history: what each entity's fields should hold

rowVars == <<mask, row, rows, memory, written>>

Zeroed == [t \in RowTypes |-> 0]

RowsInit ==
    /\ mask = [p \in Pools |-> [s \in Slots |-> {}]]
    /\ row = [p \in Pools |-> [s \in Slots |-> 0]]
    /\ rows = [p \in Pools |-> [m \in Tables |-> <<>>]]
    /\ memory = [p \in Pools |-> [m \in Tables |-> <<>>]]
    /\ written = [p \in Pools |-> [s \in Slots |-> Zeroed]]

RowsTypeOK ==
    /\ mask \in [Pools -> [Slots -> Tables]]
    /\ row \in [Pools -> [Slots -> Nat]]
    /\ rows \in [Pools -> [Tables -> Seq(Ids)]]
    /\ memory \in [Pools -> [Tables -> Seq([RowTypes -> RowValues])]]
    /\ written \in [Pools -> [Slots -> [RowTypes -> RowValues]]]

-----------------------------------------------------------------------------
(* One table: its rows, its memory, and the row of every slot, changed     *)
(* together.                                                               *)

Table(p, m) == [rows |-> rows[p][m], memory |-> memory[p][m], row |-> row[p]]

(* A plausible bug: the entity that moved is not told its new row. *)
MutantGiveUp(table, k) ==
    LET last == Len(table.rows)
    IN  [rows |-> Front([table.rows EXCEPT ![k] = table.rows[last]]),
         memory |-> [table.memory EXCEPT ![k] = table.memory[last]],
         row |-> table.row]

(* archetype_swap_remove, and the caller's note of the row that moved. *)
GiveUp(table, k) ==
    LET last == Len(table.rows)
        moved == table.rows[last]
    IN  IF k = last
        THEN [table EXCEPT !.rows = Front(@)]
        ELSE [rows |-> Front([table.rows EXCEPT ![k] = moved]),
              memory |-> [table.memory EXCEPT ![k] = table.memory[last]],
              row |-> [table.row EXCEPT ![Slot(moved)] = k]]

(* tc_archetype_alloc_row: the fields of a type with an init function are  *)
(* reset, the others are taken to be zero already.                         *)
Fresh(m, old) == [t \in RowTypes |-> IF t \in m \cap InitTypes THEN 0 ELSE old[t]]

TakeRow(table, m, id) ==
    LET k == Len(table.rows) + 1
    IN  [rows |-> Append(table.rows, id),
         memory |-> IF k <= Len(table.memory)
                    THEN [table.memory EXCEPT ![k] = Fresh(m, @)]
                    ELSE Append(table.memory, Zeroed),
         row |-> [table.row EXCEPT ![Slot(id)] = k]]

-----------------------------------------------------------------------------
(* The entity gives up its row altogether: tc_entity_pool_free and the     *)
(* last type of tc_entity_pool_remove_soa.                                 *)
DropRow(p, id) ==
    LET s == Slot(id)
        m == mask[p][s]
        without == GiveUp(Table(p, m), row[p][s])
    IN  IF m = {}
        THEN UNCHANGED rowVars
        ELSE /\ mask' = [mask EXCEPT ![p][s] = {}]
             /\ row' = [row EXCEPT ![p] = [without.row EXCEPT ![s] = 0]]
             /\ rows' = [rows EXCEPT ![p][m] = without.rows]
             /\ memory' = [memory EXCEPT ![p][m] = without.memory]
             /\ written' = [written EXCEPT ![p][s] = Zeroed]

(* pool_move_entity_archetype: a row in the new table, the fields both     *)
(* have copied, and the old row given up.                                  *)
MoveRow(p, id, new) ==
    LET s == Slot(id)
        old == mask[p][s]
        k == row[p][s]
        taken == TakeRow(Table(p, new), new, id)
        copied == [t \in RowTypes |-> IF t \in old \cap new THEN memory[p][old][k][t]
                                      ELSE taken.memory[Len(taken.rows)][t]]
        without == GiveUp([Table(p, old) EXCEPT !.row = taken.row], k)
        place == IF old = {} THEN taken.row ELSE [without.row EXCEPT ![s] = Len(taken.rows)]
    IN  /\ mask' = [mask EXCEPT ![p][s] = new]
        /\ row' = [row EXCEPT ![p] = place]
        /\ rows' = [rows EXCEPT ![p][new] = taken.rows,
                                ![p][old] = IF old = {} THEN @ ELSE without.rows]
        /\ memory' = [memory EXCEPT
                        ![p][new] = [taken.memory EXCEPT ![Len(taken.rows)] = copied],
                        ![p][old] = IF old = {} THEN @ ELSE without.memory]
        /\ written' = [written EXCEPT ![p][s] =
                          [t \in RowTypes |-> IF t \in old \cap new THEN @[t] ELSE 0]]

(* tc_entity_pool_add_soa *)
AddSoa(p, id, t) ==
    /\ t \notin mask[p][Slot(id)]
    /\ MoveRow(p, id, mask[p][Slot(id)] \cup {t})

(* tc_entity_pool_remove_soa *)
RemoveSoa(p, id, t) ==
    /\ t \in mask[p][Slot(id)]
    /\ IF mask[p][Slot(id)] = {t}
       THEN DropRow(p, id)
       ELSE MoveRow(p, id, mask[p][Slot(id)] \ {t})

(* The host writes through the pointer of tc_entity_pool_get_soa. *)
WriteSoa(p, id, t, v) ==
    LET s == Slot(id)
        m == mask[p][s]
    IN  /\ t \in m
        /\ memory[p][m][row[p][s]][t] # v
        /\ memory' = [memory EXCEPT ![p][m][row[p][s]][t] = v]
        /\ written' = [written EXCEPT ![p][s][t] = v]
        /\ UNCHANGED <<mask, row, rows>>

(* tc_entity_pool_alloc_with_uuid: the slot starts without a row. *)
ForgetRow(p, s) ==
    /\ mask' = [mask EXCEPT ![p][s] = {}]
    /\ row' = [row EXCEPT ![p][s] = 0]
    /\ written' = [written EXCEPT ![p][s] = Zeroed]
    /\ UNCHANGED <<rows, memory>>

=============================================================================
