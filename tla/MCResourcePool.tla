--------------------------- MODULE MCResourcePool ---------------------------
(* A small instance of tc_pool for TLC. *)
EXTENDS ResourcePool

(* A pool may start empty or with two slots, and grows to three. *)
MCInitialCapacities == {0, 2}
=============================================================================
