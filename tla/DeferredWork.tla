---------------------------- MODULE DeferredWork ----------------------------
(***************************************************************************)
(* What the deferred dispatcher promises about the work it is given, as    *)
(* include/termin/dispatch/dispatcher.h states it and with no mention of   *)
(* slots, generations, mutexes or threads: accepted work waits in posting  *)
(* order, leaves the line either by withdrawal or in a reserved batch,     *)
(* is called at most once and only from a batch, and its payload is        *)
(* disposed exactly once after that.                                       *)
(***************************************************************************)
EXTENDS Naturals, Sequences, SequencesExt

CONSTANT Works

VARIABLES accepting,  \* new work is taken
          last,       \* the latest work accepted
          waiting,    \* work in line, oldest first
          reserved,   \* the batch a drain has taken and not yet called
          running,    \* the work being called, at most one
          due,        \* work whose payload must still be disposed
          disposed    \* work whose payload has been disposed

vars == <<accepting, last, waiting, reserved, running, due, disposed>>

Init ==
    /\ accepting = TRUE
    /\ last = 0
    /\ waiting = <<>>
    /\ reserved = <<>>
    /\ running = {}
    /\ due = {}
    /\ disposed = {}

Accept(w) ==
    /\ accepting
    /\ w > last
    /\ last' = w
    /\ waiting' = Append(waiting, w)
    /\ UNCHANGED <<accepting, reserved, running, due, disposed>>

StopAccepting ==
    /\ accepting
    /\ accepting' = FALSE
    /\ UNCHANGED <<last, waiting, reserved, running, due, disposed>>

\* Cancellation withdraws one piece of work, from anywhere in the line.
Withdraw(k) ==
    /\ waiting' = RemoveAt(waiting, k)
    /\ due' = due \cup {waiting[k]}
    /\ UNCHANGED <<accepting, last, reserved, running, disposed>>

\* A discard withdraws the whole line; so does destruction, which stopped
\* accepting before.
WithdrawAll ==
    /\ waiting # <<>>
    /\ waiting' = <<>>
    /\ due' = due \cup ToSet(waiting)
    /\ UNCHANGED <<accepting, last, reserved, running, disposed>>

\* Only one batch exists at a time: drains are serialised.
Reserve(n) ==
    /\ reserved = <<>> /\ running = {}
    /\ reserved' = SubSeq(waiting, 1, n)
    /\ waiting' = SubSeq(waiting, n + 1, Len(waiting))
    /\ UNCHANGED <<accepting, last, running, due, disposed>>

Call ==
    /\ reserved # <<>> /\ running = {}
    /\ running' = {Head(reserved)}
    /\ reserved' = Tail(reserved)
    /\ UNCHANGED <<accepting, last, waiting, due, disposed>>

Return ==
    /\ running # {}
    /\ due' = due \cup running
    /\ running' = {}
    /\ UNCHANGED <<accepting, last, waiting, reserved, disposed>>

Dispose(w) ==
    /\ w \in due
    /\ due' = due \ {w}
    /\ disposed' = disposed \cup {w}
    /\ UNCHANGED <<accepting, last, waiting, reserved, running>>

Next ==
    \/ \E w \in Works : Accept(w)
    \/ StopAccepting
    \/ \E k \in 1..Len(waiting) : Withdraw(k)
    \/ WithdrawAll
    \/ \E n \in 1..Len(waiting) : Reserve(n)
    \/ Call
    \/ Return
    \/ \E w \in due : Dispose(w)

SafeSpec == Init /\ [][Next]_vars

\* The host's callbacks return and nothing that is due is forgotten.
Spec ==
    /\ SafeSpec
    /\ WF_vars(Call) /\ WF_vars(Return)
    /\ \A w \in Works : WF_vars(Dispose(w))
=============================================================================
