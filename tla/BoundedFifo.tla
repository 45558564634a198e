---------------------------- MODULE BoundedFifo ----------------------------
(***************************************************************************)
(* What a bounded queue between two threads promises: values come out in   *)
(* the order they went in, each once, and at most Capacity wait.           *)
(***************************************************************************)
EXTENDS Naturals, Sequences

CONSTANTS Items, Capacity, Nothing

VARIABLES
    queue,      \* the values that wait
    out         \* the value taken last

Init == queue = <<>> /\ out = Nothing

Put ==
    /\ Len(queue) < Capacity
    /\ \E v \in Items : queue' = Append(queue, v)
    /\ UNCHANGED out

Take ==
    /\ queue # <<>>
    /\ out' = Head(queue)
    /\ queue' = Tail(queue)

Next == Put \/ Take

Spec == Init /\ [][Next]_<<queue, out>>
=============================================================================
