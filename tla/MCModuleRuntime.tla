--------------------------- MODULE MCModuleRuntime ---------------------------
(* Small instances of the module runtime for TLC: a native core, a native    *)
(* plugin on top of it and a Python script on top of that.                   *)
EXTENDS ModuleRuntime

CONSTANTS core, plugin, script

Described(g, i) ==
    [readable |-> TRUE,
     deps     |-> [m \in Modules |-> IF m \in DOMAIN g THEN g[m] ELSE {}],
     ignored  |-> i]
Upon(m, d) == [n \in {m} |-> {d}]

\* Three modules: a chain, and the same with the plugin ignored.
Chain == Described([m \in {plugin, script} |-> IF m = plugin THEN {core} ELSE {plugin}], {})
Skipped == [Chain EXCEPT !.ignored = {plugin}]
ChainDescriptors == {Chain, Skipped}

\* Two modules: linked, the other way round, not at all, in a cycle, broken.
Linked   == Described(Upon(script, core), {})
Reversed == Described(Upon(core, script), {})
Loose    == Described(<<>>, {})
Cycle    == Described([m \in {core, script} |-> IF m = core THEN {script} ELSE {core}], {})
Broken   == [Linked EXCEPT !.readable = FALSE]
EditedDescriptors == {Linked, Reversed, Loose, Cycle, Broken}
FixedDescriptors  == {Linked}
=============================================================================
