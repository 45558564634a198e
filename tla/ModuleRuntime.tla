---------------------------- MODULE ModuleRuntime ----------------------------
(***************************************************************************)
(* The module runtime of engine/termin-modules (src/module_runtime.cpp)    *)
(* with the facts about its two backends that matter: the C++ backend      *)
(* (src/module_cpp_backend.cpp, unloading in stages) and the Python one    *)
(* (src/module_python_backend.cpp, unloading in one step).                 *)
(*                                                                         *)
(* One operation of the host runs at a time (`op'); it works through a     *)
(* plan of modules and suspends wherever host code runs: in the load,      *)
(* unload and reload callbacks, in the backends and in event listeners.    *)
(* docs/callbacks.md forbids callbacks to change the module table, but a   *)
(* listener may ask needs_rebuild (the editor's modules panel does), which *)
(* reads all descriptors again: see Refresh.  `files' is what the          *)
(* descriptor files say at the moment.  A call whose first refresh fails   *)
(* changes nothing and is not an action.                                   *)
(*                                                                         *)
(* Every step of a backend or callback may fail.  Exceptions out of        *)
(* callbacks and changes of a module's kind are not modelled.              *)
(***************************************************************************)
EXTENDS Naturals, FiniteSets, Sequences, SequencesExt

CONSTANTS Modules,
          Native,      \* the C++ modules; the others are Python modules
          Buildable,   \* those of them whose descriptor has build and clean commands
          NoModule,
          Descriptors  \* contents of the descriptor files that may occur

ASSUME ModuleRuntimeAssumption ==
    /\ Native \subseteq Modules /\ Buildable \subseteq Native
    /\ NoModule \notin Modules
    /\ IsFiniteSet(Modules)
    /\ Descriptors \subseteq [readable : BOOLEAN,
                              deps     : [Modules -> SUBSET Modules],
                              ignored  : SUBSET Modules]

VARIABLES
    files,                                \* the descriptor files
    known, deps, ignored, state, phase, handle,  \* _records
    prepared,                             \* _backend_environments_prepared
    op, busy, replacing,                  \* the operation under way
    mapped, stopped, contributed, built,  \* the backends' view of a module
    kept                                  \* history: dependencies named ever since they were checked

specs   == <<known, deps, ignored>>
status  == <<state, phase, handle>>
backend == <<mapped, stopped, contributed>>
call    == <<op, busy, replacing>>
vars == <<files, specs, status, prepared, call, backend, built, kept>>

ModuleStates == {"Discovered", "Loading", "Loaded", "Unloading",
                 "CleanupFailed", "Failed", "Unloaded", "Ignored"}
CleanupPhases == {"BackendBegin", "RevokeContributions", "BackendFinish", "BackendUnload"}

\* is_loaded_or_holding_handle
Holding(m) == state[m] = "Loaded" \/ handle[m]
Holders == {m \in Modules : Holding(m)}

\* Cleanup of m has begun and is not complete.
CleanupIncomplete(m) ==
    state[m] \in {"Unloading", "CleanupFailed"} \/ phase[m] # "None"

MutantActiveDependents(m) == {n \in Modules : state[n] = "Loaded" /\ m \in deps[n]}
ActiveDependents(m) == {n \in Holders : m \in deps[n]}

Acyclic(g) ==
    \E rank \in [Modules -> 1..Cardinality(Modules)] :
        \A m \in Modules : \A d \in g[m] : rank[d] < rank[m]

\* The sequences of the members of S in which dependencies come first.
Linearizations(S, g) ==
    {s \in SetToSeqs(S) :
        \A i, j \in DOMAIN s : s[j] \in g[s[i]] => j < i}

\* m and what depends on it, directly or not, among the modules that hold handles.
Affected(m, g) ==
    {n \in Modules :
        \A S \in SUBSET Modules :
            /\ m \in S
            /\ \A k \in Holders : g[k] \cap S # {} => k \in S
            => n \in S}

-----------------------------------------------------------------------------
\* Operations in progress.

Idle == [name |-> "none", mode |-> "none", plan |-> <<>>, all |-> <<>>]
Operation(name, mode, plan, all) ==
    [name |-> name, mode |-> mode, plan |-> plan, all |-> all]

MutantAdvanced(mode, last) ==
    IF Len(op.plan) > 1 THEN [op EXCEPT !.mode = mode] ELSE last

Advanced(mode, last) ==
    IF Len(op.plan) > 1 THEN [op EXCEPT !.mode = mode, !.plan = Tail(op.plan)]
                        ELSE last

MutantContinued(ok) ==
    CASE op.name = "load_all" -> Advanced("load", Idle)
      [] op.name = "shutdown" -> Advanced("unload", [op EXCEPT !.mode = "teardown", !.plan = <<>>])
      [] op.name = "reload" /\ op.mode = "unload" ->
             Advanced("unload", [op EXCEPT !.mode = "load", !.plan = op.all])
      [] op.name = "reload" /\ ok /\ op.mode = "load" -> [op EXCEPT !.mode = "restore"]
      [] op.name = "reload" /\ ok /\ op.mode = "restore" -> Advanced("load", Idle)
      [] op.name = "rebuild" /\ ok -> [op EXCEPT !.mode = "clean"]
      [] OTHER -> Idle

\* What the operation does when its work on the head of its plan has returned.
Continued(ok) ==
    CASE op.name = "load_all" -> Advanced("load", Idle)
      [] op.name = "shutdown" -> Advanced("unload", [op EXCEPT !.mode = "teardown", !.plan = <<>>])
      [] op.name = "reload" /\ ok /\ op.mode = "unload" ->
             Advanced("unload", [op EXCEPT !.mode = "gate", !.plan = op.all])
      [] op.name = "reload" /\ ok /\ op.mode = "load" -> [op EXCEPT !.mode = "restore"]
      [] op.name = "reload" /\ ok /\ op.mode = "restore" -> Advanced("load", Idle)
      [] op.name = "rebuild" /\ ok -> [op EXCEPT !.mode = "clean"]
      [] OTHER -> Idle

\* The head of the plan, when it is its turn to be treated in this mode.
Turn(mode, m) ==
    /\ op.mode = mode
    /\ busy = NoModule
    /\ op.plan # <<>> /\ m = Head(op.plan)

-----------------------------------------------------------------------------
\* Before discovery there are no records; what they would say is left blank.
Init ==
    /\ files \in Descriptors
    /\ known = FALSE
    /\ deps = [m \in Modules |-> {}]
    /\ ignored = {}
    /\ state = [m \in Modules |-> "Discovered"]
    /\ phase = [m \in Modules |-> "None"]
    /\ handle = [m \in Modules |-> FALSE]
    /\ prepared = FALSE
    /\ op = Idle
    /\ busy = NoModule
    /\ replacing = FALSE
    /\ mapped = [m \in Modules |-> FALSE]
    /\ stopped = [m \in Modules |-> FALSE]
    /\ contributed = [m \in Modules |-> FALSE]
    /\ built = [m \in Modules |-> FALSE]
    /\ kept = [m \in Modules |-> {}]

\* The user edits descriptors.
EditDescriptors ==
    /\ files' \in Descriptors \ {files}
    /\ UNCHANGED <<specs, status, prepared, call, backend, built, kept>>

\* discover: all or nothing, and only over records that hold nothing.  A
\* dependency cycle is not noticed yet.
Discover ==
    /\ op = Idle
    /\ Holders = {}
    /\ \/ \* tearing the environments down worked, reading descriptors did not
          /\ prepared' = FALSE
          /\ known' = FALSE
          /\ deps' = [m \in Modules |-> {}]
          /\ ignored' = {}
       \/ \* the environments can be prepared, or not: the records stay
          /\ files.readable
          /\ prepared' \in BOOLEAN
          /\ known' = TRUE
          /\ deps' = files.deps
          /\ ignored' = files.ignored
    /\ state' = [m \in Modules |-> "Discovered"]
    /\ phase' = [m \in Modules |-> "None"]
    /\ UNCHANGED <<files, handle, call, backend, built, kept>>

\* refresh_descriptor_snapshot: all descriptors are read, or none.
MutantRefreshable == files.readable
Refreshable == known /\ files.readable /\ Acyclic(files.deps)
SnapshotTaken ==
    /\ deps' = files.deps
    /\ ignored' = files.ignored
    /\ kept' = [m \in Modules |-> kept[m] \cap files.deps[m]]
    /\ UNCHANGED known

\* needs_rebuild, from the host or from a listener during any operation.
Refresh ==
    /\ Refreshable
    /\ SnapshotTaken
    /\ UNCHANGED <<files, status, prepared, call, backend, built>>

-----------------------------------------------------------------------------
\* The calls of the host.

Begin(operation) ==
    /\ op = Idle
    /\ op' = operation
    /\ UNCHANGED <<files, status, prepared, busy, replacing, backend, built>>

LoadAll ==
    /\ Refreshable
    /\ SnapshotTaken
    /\ \E s \in Linearizations(Modules, files.deps) :
         Begin(Operation("load_all", "load", s, <<>>))

LoadModule(m) ==
    /\ Refreshable
    /\ SnapshotTaken
    /\ Begin(Operation("load", "load", <<m>>, <<>>))

UnloadModule(m) ==
    /\ Refreshable
    /\ SnapshotTaken
    /\ Begin(Operation("unload", "unload", <<m>>, <<>>))

\* execute_reload, up to its first unload.
ExecuteReload(s) ==
    /\ \A i \in DOMAIN s : ~CleanupIncomplete(s[i])
    /\ Begin(Operation("reload", "unload", Reverse(s), s))

ReloadModule(m) ==
    /\ Refreshable
    /\ SnapshotTaken
    /\ ExecuteReload(<<m>>)

ReloadModuleWithDependents(m) ==
    /\ Refreshable
    /\ SnapshotTaken
    /\ \E s \in Linearizations(Affected(m, files.deps), files.deps) : ExecuteReload(s)

RebuildModule(m) ==
    /\ Refreshable
    /\ SnapshotTaken
    /\ ~CleanupIncomplete(m)
    /\ Begin(Operation("rebuild", IF state[m] = "Loaded" THEN "unload" ELSE "clean", <<m>>, <<>>))

Shutdown ==
    /\ Holders # {} \/ prepared
    /\ \E s \in Linearizations(Holders, deps) :
         Begin(IF s = <<>> THEN Operation("shutdown", "teardown", <<>>, <<>>)
                           ELSE Operation("shutdown", "unload", Reverse(s), <<>>))
    /\ UNCHANGED <<specs, kept>>

-----------------------------------------------------------------------------
\* load_module_impl.

AlreadyLoaded(m) ==
    /\ Turn("load", m)
    /\ state[m] = "Loaded"
    /\ op' = Continued(TRUE)
    /\ UNCHANGED <<files, specs, status, prepared, busy, replacing, backend, built, kept>>

RefuseLoad(m) ==
    /\ Turn("load", m)
    /\ CleanupIncomplete(m)
    /\ op' = Continued(FALSE)
    /\ UNCHANGED <<files, specs, status, prepared, busy, replacing, backend, built, kept>>

MayLoad(m) == state[m] # "Loaded" /\ ~CleanupIncomplete(m) /\ ~handle[m]

MutantDependenciesLoaded(m) == TRUE
DependenciesLoaded(m) == \A d \in deps[m] : state[d] = "Loaded"

\* The module still has a handle, or a dependency is not loaded.
FailLoad(m) ==
    /\ Turn("load", m)
    /\ \/ handle[m] /\ state[m] # "Loaded" /\ ~CleanupIncomplete(m)
       \/ MayLoad(m) /\ m \notin ignored /\ ~DependenciesLoaded(m)
    /\ state' = [state EXCEPT ![m] = "Failed"]
    /\ op' = Continued(FALSE)
    /\ UNCHANGED <<files, specs, phase, handle, prepared, busy, replacing, backend, built, kept>>

Ignore(m) ==
    /\ Turn("load", m)
    /\ MayLoad(m) /\ m \in ignored
    /\ state' = [state EXCEPT ![m] = "Ignored"]
    /\ op' = Continued(TRUE)
    /\ UNCHANGED <<files, specs, phase, handle, prepared, busy, replacing, backend, built, kept>>

StartLoad(m) ==
    /\ Turn("load", m)
    /\ MayLoad(m) /\ m \notin ignored /\ DependenciesLoaded(m)
    /\ state' = [state EXCEPT ![m] = "Loading"]
    /\ kept' = [kept EXCEPT ![m] = deps[m]]
    /\ busy' = m
    /\ UNCHANGED <<files, specs, phase, handle, prepared, op, replacing, backend, built>>

Loading(m) == busy = m /\ state[m] = "Loading"

\* A C++ load builds first; a Python one needs the prepared environment.
Built(m) == IF m \in Buildable THEN [built EXCEPT ![m] = TRUE] ELSE built
CanRun(m) == m \in Native \/ prepared

BackendLoads(m) ==
    /\ Loading(m) /\ CanRun(m)
    /\ state' = [state EXCEPT ![m] = "Loaded"]
    /\ handle' = [handle EXCEPT ![m] = TRUE]
    /\ mapped' = [mapped EXCEPT ![m] = m \in Native]
    /\ stopped' = [stopped EXCEPT ![m] = FALSE]
    /\ contributed' = [contributed EXCEPT ![m] = TRUE]
    /\ built' = Built(m)
    /\ busy' = NoModule
    /\ op' = Continued(TRUE)
    /\ UNCHANGED <<files, specs, phase, prepared, replacing, kept>>

\* The backend fails and leaves nothing behind.
BackendFails(m) ==
    /\ Loading(m)
    /\ state' = [state EXCEPT ![m] = "Failed"]
    /\ built' \in {built, Built(m)}
    /\ kept' = [kept EXCEPT ![m] = {}]
    /\ busy' = NoModule
    /\ op' = Continued(FALSE)
    /\ UNCHANGED <<files, specs, phase, handle, prepared, replacing, backend>>

FirstCleanupPhase(m) == IF m \in Native THEN "BackendBegin" ELSE "BackendUnload"

\* The initialisation fails (a C++ module is then stopped at once) and so does
\* revoking what it had contributed: the handle is kept and goes through the
\* unload protocol before the load returns.
BackendFailsHolding(m) ==
    /\ Loading(m) /\ CanRun(m)
    /\ handle' = [handle EXCEPT ![m] = TRUE]
    /\ mapped' = [mapped EXCEPT ![m] = m \in Native]
    /\ stopped' = [stopped EXCEPT ![m] = m \in Native]
    /\ contributed' = [contributed EXCEPT ![m] = TRUE]
    /\ built' = Built(m)
    /\ state' = [state EXCEPT ![m] = "Unloading"]
    /\ phase' = [phase EXCEPT ![m] = FirstCleanupPhase(m)]
    /\ replacing' = TRUE
    /\ UNCHANGED <<files, specs, prepared, op, busy, kept>>

-----------------------------------------------------------------------------
\* unload_module_impl.

\* Nothing to unload; a reload does not even ask.
NothingToUnload(m) ==
    /\ Turn("unload", m)
    /\ ~Holding(m) /\ state[m] # "CleanupFailed"
    /\ state' = IF op.name = "reload" THEN state ELSE [state EXCEPT ![m] = "Unloaded"]
    /\ op' = Continued(TRUE)
    /\ UNCHANGED <<files, specs, phase, handle, prepared, busy, replacing, backend, built, kept>>

RefuseUnload(m) ==
    /\ Turn("unload", m)
    /\ Holding(m) /\ state[m] # "CleanupFailed"
    /\ ActiveDependents(m) # {}
    /\ op' = Continued(FALSE)
    /\ UNCHANGED <<files, specs, status, prepared, busy, replacing, backend, built, kept>>

PrepareUnload(m) ==
    /\ Turn("unload", m)
    /\ Holding(m) /\ state[m] # "CleanupFailed"
    /\ ActiveDependents(m) = {}
    /\ phase' = [phase EXCEPT ![m] = "Prepare"]
    /\ busy' = m
    /\ UNCHANGED <<files, specs, state, handle, prepared, op, replacing, backend, built, kept>>

\* before_unload or before_module_remove refuses: nothing has happened.
PreparationFails(m) ==
    /\ busy = m /\ phase[m] = "Prepare"
    /\ phase' = [phase EXCEPT ![m] = "None"]
    /\ busy' = NoModule
    /\ op' = Continued(FALSE)
    /\ UNCHANGED <<files, specs, state, handle, prepared, replacing, backend, built, kept>>

StartCleanup(m) ==
    /\ busy = m /\ phase[m] = "Prepare"
    /\ state' = [state EXCEPT ![m] = "Unloading"]
    /\ phase' = [phase EXCEPT ![m] = FirstCleanupPhase(m)]
    /\ UNCHANGED <<files, specs, handle, prepared, call, backend, built, kept>>

ResumeCleanup(m) ==
    /\ Turn("unload", m)
    /\ state[m] = "CleanupFailed"
    /\ state' = [state EXCEPT ![m] = "Unloading"]
    /\ busy' = m
    /\ UNCHANGED <<files, specs, phase, handle, prepared, op, replacing, backend, built, kept>>

Cleaning(m, ph) == busy = m /\ state[m] = "Unloading" /\ phase[m] = ph

MutantCleanupFails(m) ==
    /\ state' = [state EXCEPT ![m] = "CleanupFailed"]
    /\ phase' = [phase EXCEPT ![m] = "None"]
    /\ busy' = NoModule
    /\ replacing' = FALSE
    /\ op' = Continued(FALSE)
    /\ UNCHANGED <<files, specs, handle, prepared, built, kept>>

\* fail_after_boundary: the phase is kept for the next unload_module.
CleanupFails(m) ==
    /\ state' = [state EXCEPT ![m] = "CleanupFailed"]
    /\ busy' = NoModule
    /\ replacing' = FALSE
    /\ op' = Continued(FALSE)
    /\ UNCHANGED <<files, specs, phase, handle, prepared, built, kept>>

MutantNextPhaseUnknown(ph) == IF ph = "BackendBegin" THEN "RevokeContributions" ELSE "BackendClose"
MutantNextPhase(ph) == IF ph = "BackendBegin" THEN "BackendFinish" ELSE ph
NextPhase(ph) == IF ph = "BackendBegin" THEN "RevokeContributions" ELSE "BackendFinish"
PhaseDone(m) ==
    /\ phase' = [phase EXCEPT ![m] = NextPhase(@)]
    /\ UNCHANGED <<files, specs, state, handle, prepared, call, built, kept>>

\* The module is unloaded; a failed load that came here reports its failure.
Unloaded(m) ==
    /\ state' = [state EXCEPT ![m] = IF replacing THEN "Failed" ELSE "Unloaded"]
    /\ phase' = [phase EXCEPT ![m] = "None"]
    /\ handle' = [handle EXCEPT ![m] = FALSE]
    /\ kept' = [kept EXCEPT ![m] = {}]
    /\ busy' = NoModule
    /\ replacing' = FALSE
    /\ op' = Continued(~replacing)
    /\ UNCHANGED <<files, specs, prepared, built>>

\* The module's own shutdown function, which must not be called again once it
\* has succeeded.
BeginUnload(m) ==
    /\ Cleaning(m, "BackendBegin")
    /\ \/ /\ stopped' = [stopped EXCEPT ![m] = TRUE]
          /\ PhaseDone(m)
       \/ /\ ~stopped[m]
          /\ UNCHANGED stopped
          /\ CleanupFails(m)
    /\ UNCHANGED <<mapped, contributed>>

\* before_native_close revokes all registrations of the module, or none.
RevokeContributions(m) ==
    /\ Cleaning(m, "RevokeContributions")
    /\ \/ /\ contributed' = [contributed EXCEPT ![m] = FALSE]
          /\ PhaseDone(m)
       \/ /\ UNCHANGED contributed
          /\ CleanupFails(m)
    /\ UNCHANGED <<mapped, stopped>>

\* The library is closed in any case; removing its copy may fail.
FinishUnload(m) ==
    /\ Cleaning(m, "BackendFinish")
    /\ mapped' = [mapped EXCEPT ![m] = FALSE]
    /\ Unloaded(m) \/ CleanupFails(m)
    /\ UNCHANGED <<stopped, contributed>>

\* Python: registrations are revoked and audited, then the imports evicted.
BackendUnload(m) ==
    /\ Cleaning(m, "BackendUnload")
    /\ \/ contributed' = [contributed EXCEPT ![m] = FALSE] /\ Unloaded(m)
       \/ UNCHANGED contributed /\ CleanupFails(m)
    /\ UNCHANGED <<mapped, stopped>>

-----------------------------------------------------------------------------
\* What is particular to reload, rebuild, build, clean and shutdown.

\* require_completed_reload_unload
Gate ==
    /\ op.mode = "gate"
    /\ op' = IF \A m \in ToSet(op.plan) :
                   state[m] \notin {"Loaded", "Loading"} /\ ~CleanupIncomplete(m) /\ ~handle[m]
             THEN [op EXCEPT !.mode = "load"] ELSE Idle
    /\ UNCHANGED <<files, specs, status, prepared, busy, replacing, backend, built, kept>>

RestoreSucceeds(m) ==
    /\ Turn("restore", m)
    /\ op' = Continued(TRUE)
    /\ UNCHANGED <<files, specs, status, prepared, busy, replacing, backend, built, kept>>

\* restore_reload_state reports failure: the new generation stays in place.
RestoreFails(m) ==
    /\ Turn("restore", m)
    /\ state' = [state EXCEPT ![m] = "Failed"]
    /\ op' = Continued(FALSE)
    /\ UNCHANGED <<files, specs, phase, handle, prepared, busy, replacing, backend, built, kept>>

\* build_module; without a build command nothing is built and nothing fails.
Build(m) ==
    /\ Refreshable
    /\ SnapshotTaken
    /\ op = Idle \/ Turn("build", m)
    /\ op' = Idle
    /\ IF CleanupIncomplete(m) THEN UNCHANGED <<state, built>>
       ELSE \/ /\ state' = [state EXCEPT ![m] = IF @ = "Failed" THEN "Unloaded" ELSE @]
               /\ built' = Built(m)
            \/ /\ m \in Buildable
               /\ state' = [state EXCEPT ![m] = "Failed"]
               /\ UNCHANGED built
    /\ UNCHANGED <<files, phase, handle, prepared, busy, replacing, backend>>

MayClean(m) == state[m] \notin {"Loaded", "Loading"} /\ ~CleanupIncomplete(m)

\* clean_module, on its own or before the build of rebuild_module.
Clean(m) ==
    /\ Refreshable
    /\ SnapshotTaken
    /\ op = Idle \/ Turn("clean", m)
    /\ \/ /\ MayClean(m)
          /\ built' = [built EXCEPT ![m] = @ /\ m \notin Buildable]
          /\ op' = IF op = Idle THEN Idle ELSE [op EXCEPT !.mode = "build"]
       \/ /\ m \in Buildable \/ ~MayClean(m)
          /\ op' = Idle
          /\ UNCHANGED built
    /\ UNCHANGED <<files, status, prepared, busy, replacing, backend>>

\* A refresh inside rebuild_module meets descriptors that are not valid.
RebuildStops ==
    /\ op.name = "rebuild" /\ busy = NoModule /\ ~Refreshable
    /\ op' = Idle
    /\ UNCHANGED <<files, specs, status, prepared, busy, replacing, backend, built, kept>>

MutantTeardown ==
    /\ op.mode = "teardown"
    /\ prepared' \in {prepared, FALSE}
    /\ op' = Idle
    /\ UNCHANGED <<files, specs, status, busy, replacing, backend, built, kept>>

\* The end of shutdown: the environments go only after the last handle.
Teardown ==
    /\ op.mode = "teardown"
    /\ prepared' \in {prepared, IF Holders = {} THEN FALSE ELSE prepared}
    /\ op' = Idle
    /\ UNCHANGED <<files, specs, status, busy, replacing, backend, built, kept>>

-----------------------------------------------------------------------------
LoadStep(m) ==
    \/ AlreadyLoaded(m) \/ RefuseLoad(m) \/ FailLoad(m) \/ Ignore(m) \/ StartLoad(m)
    \/ BackendLoads(m) \/ BackendFails(m) \/ BackendFailsHolding(m)

UnloadStep(m) ==
    \/ NothingToUnload(m) \/ RefuseUnload(m) \/ PrepareUnload(m)
    \/ PreparationFails(m) \/ StartCleanup(m) \/ ResumeCleanup(m)
    \/ BeginUnload(m) \/ RevokeContributions(m) \/ FinishUnload(m) \/ BackendUnload(m)

OperationStep ==
    \/ \E m \in Modules :
         \/ LoadStep(m) \/ UnloadStep(m)
         \/ RestoreSucceeds(m) \/ RestoreFails(m)
         \/ op # Idle /\ (Build(m) \/ Clean(m))
    \/ Gate \/ RebuildStops \/ Teardown

Next ==
    \/ EditDescriptors \/ Discover \/ Refresh
    \/ LoadAll \/ Shutdown
    \/ \E m \in Modules :
         \/ LoadModule(m) \/ UnloadModule(m) \/ ReloadModule(m)
         \/ ReloadModuleWithDependents(m) \/ RebuildModule(m)
         \/ op = Idle /\ (Build(m) \/ Clean(m))
    \/ OperationStep

Spec == Init /\ [][Next]_vars

\* Callbacks and backends return, so an operation under way goes on.
FairSpec == Spec /\ WF_vars(OperationStep)

-----------------------------------------------------------------------------
TypeOK ==
    /\ files \in Descriptors
    /\ known \in BOOLEAN
    /\ deps \in [Modules -> SUBSET Modules]
    /\ ignored \in SUBSET Modules
    /\ state \in [Modules -> ModuleStates]
    /\ phase \in [Modules -> CleanupPhases \cup {"None", "Prepare"}]
    /\ handle \in [Modules -> BOOLEAN]
    /\ prepared \in BOOLEAN
    /\ op \in [name : {"none", "load", "load_all", "unload", "reload", "rebuild", "shutdown"},
               mode : {"none", "load", "unload", "gate", "restore", "clean", "build", "teardown"},
               plan : Seq(Modules), all : Seq(Modules)]
    /\ busy \in Modules \cup {NoModule}
    /\ replacing \in BOOLEAN
    /\ mapped \in [Modules -> BOOLEAN]
    /\ stopped \in [Modules -> BOOLEAN]
    /\ contributed \in [Modules -> BOOLEAN]
    /\ built \in [Modules -> BOOLEAN]
    /\ kept \in [Modules -> SUBSET Modules]

\* lifecycle.md:155-162: the cleanup phase, the state and the handle of a record
\* tell the same story, whatever failed and in whichever order calls came: a
\* cleanup that crossed the boundary keeps its handle and phase until it is
\* complete, and nothing is in progress on any module but the busy one.
CleanupConsistent ==
    \A m \in Modules :
        /\ phase[m] \in CleanupPhases <=> state[m] \in {"Unloading", "CleanupFailed"}
        /\ phase[m] \in CleanupPhases => handle[m]
        /\ phase[m] \in {"BackendBegin", "RevokeContributions", "BackendFinish"} => m \in Native
        /\ phase[m] = "BackendUnload" => m \notin Native
        /\ state[m] = "Loaded" => handle[m]
        /\ state[m] = "Loading" => busy = m /\ ~handle[m]
        /\ state[m] = "Unloading" \/ phase[m] = "Prepare" => busy = m
        /\ busy = m => state[m] \in {"Loading", "Unloading"} \/ phase[m] = "Prepare"

\* callbacks.md:59-66: no registration points into a library that is closed or
\* belongs to a module the runtime no longer has a handle of, no library is
\* mapped that no handle can close, and none is closed or loses its
\* registrations before the module's shutdown function has run.
NoDanglingContribution ==
    \A m \in Modules :
        /\ contributed[m] => handle[m]
        /\ mapped[m] => handle[m]
        /\ contributed[m] /\ m \in Native => mapped[m]
        /\ handle[m] /\ m \in Native /\ ~(mapped[m] /\ contributed[m]) => stopped[m]

\* The unload guard: while a module is in the process, so is every dependency
\* its descriptor has named ever since it was loaded, and none of them has
\* begun its cleanup.  A dependent that a failed build, restore or unload has
\* left with a handle counts.
DependenciesLive ==
    \A m \in Modules : handle[m] =>
        \A d \in kept[m] : handle[d] /\ phase[d] \notin CleanupPhases

\* lifecycle.md:232-247: no member of a reload starts its new generation while
\* an old one of the members still to be loaded is in the process.
ReplacementAfterUnload ==
    op.name = "reload" /\ op.mode = "load" =>
        \A i \in DOMAIN op.plan : op.plan[i] = busy \/ ~handle[op.plan[i]]

\* lifecycle.md:121-138: a Python module is in the process only while the
\* session environment is.
EnvironmentOutlivesModules ==
    \A m \in Modules \ Native : handle[m] => prepared

\* Descriptor cycles never reach the graph while anything is loaded, so that
\* the shutdown order always exists (module_runtime.cpp:174-181 is dead).
HeldGraphAcyclic == Holders # {} => Acyclic(deps)

\* lifecycle.md:151-152: an unloaded module has no handle.
UnloadedHoldsNothing == \A m \in Modules : state[m] = "Unloaded" => ~handle[m]

\* Every operation comes to its end.
OperationsEnd == op # Idle ~> op = Idle

-----------------------------------------------------------------------------
\* The runtime implements the promise about module code.
Promise == INSTANCE ModuleLinks WITH
    inside  <- {m \in Modules : handle[m]},
    leaving <- {m \in Modules : phase[m] \in CleanupPhases},
    links   <- [m \in Modules |-> IF handle[m] THEN kept[m] ELSE {}]

\* Nothing is used again once its cleanup has begun, and no module loses a
\* dependency it is linked to.
ImplementsModuleLinks == Promise!Spec
=============================================================================
