-------------------------- MODULE MCRemoteProfiler --------------------------
(* A small instance of the remote profiler for TLC: one editor, one target. *)
EXTENDS RemoteProfiler, TLC

CONSTANTS n1, n2

SectionNames == {n1, n2}
NamesAlike == Permutations(SectionNames)

(* The more controls, the fewer frames and faults beside them.  The third,  *)
(* which finds the queue full or makes its indices wrap, comes without any  *)
(* frame.                                                                   *)
FewTogether ==
    \/ nextRequest <= 2
    \/ nextRequest = 3 /\ completed <= 2
    \/ nextRequest = 4 /\ completed = 0 /\ faults <= 1
=============================================================================
