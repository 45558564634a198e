---------------------------- MODULE MCDispatcher ----------------------------
(* Small instances of the dispatcher for TLC. *)
EXTENDS Dispatcher, TLC

ThreadSymmetry == Permutations(Threads)
=============================================================================
