---------------------------- MODULE HandleTable ----------------------------
(***************************************************************************)
(* What a registry of generation-checked handles promises to the code that *)
(* keeps handles: a handle is issued at most once in the life of the       *)
(* process, it is accepted from then until it is revoked, and a revoked    *)
(* handle is never accepted again, whatever the registry did in between.   *)
(***************************************************************************)
CONSTANT Handles

VARIABLES
    valid,    \* the handles the registry accepts
    spent     \* the handles it accepted once and does not any more

Init == valid = {} /\ spent = {}

(* A new object gets a handle nobody has ever seen. *)
Issue ==
    \E h \in Handles \ (valid \union spent) :
        /\ valid' = valid \union {h}
        /\ UNCHANGED spent

(* An object is destroyed, or all of them are. *)
Revoke ==
    \E S \in SUBSET valid :
        /\ valid' = valid \ S
        /\ spent' = spent \union S

Next == Issue \/ Revoke

Spec == Init /\ [][Next]_<<valid, spent>>
============================================================================
