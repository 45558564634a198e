----------------------------- MODULE ModuleLinks -----------------------------
(***************************************************************************)
(* What the module runtime promises about the code it brings into the      *)
(* process, as engine/termin-modules/docs/lifecycle.md describes it:  a    *)
(* module comes in only on top of dependencies that are in; it starts to   *)
(* leave only when nobody linked to it is in; once it leaves it goes all   *)
(* the way out, and only then a new generation may come in.                *)
(***************************************************************************)
CONSTANT Modules

VARIABLES inside,   \* modules whose code or objects are in the process
          leaving,  \* those of them that will never be used again
          links     \* links[m]: the dependencies m was brought in on

vars == <<inside, leaving, links>>

Init ==
    /\ inside = {}
    /\ leaving = {}
    /\ links = [m \in Modules |-> {}]

Usable == inside \ leaving

\* A module whose initialisation fails half-way comes in already leaving.
Enter(m, D, usable) ==
    /\ m \notin inside
    /\ D \subseteq Usable
    /\ inside' = inside \cup {m}
    /\ leaving' = IF usable THEN leaving ELSE leaving \cup {m}
    /\ links' = [links EXCEPT ![m] = D]

\* The descriptors of loaded modules are read again and stop naming some links.
Unlink ==
    /\ links' \in [Modules -> SUBSET Modules]
    /\ \A m \in Modules : links'[m] \subseteq links[m]
    /\ UNCHANGED <<inside, leaving>>

Leave(m) ==
    /\ m \in Usable
    /\ \A n \in inside : m \notin links[n]
    /\ leaving' = leaving \cup {m}
    /\ UNCHANGED <<inside, links>>

Out(m) ==
    /\ m \in leaving
    /\ inside' = inside \ {m}
    /\ leaving' = leaving \ {m}
    /\ links' = [links EXCEPT ![m] = {}]

Next ==
    \/ \E m \in Modules, D \in SUBSET Modules, usable \in BOOLEAN : Enter(m, D, usable)
    \/ Unlink
    \/ \E m \in Modules : Leave(m) \/ Out(m)

Spec == Init /\ [][Next]_vars
=============================================================================
