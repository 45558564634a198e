# Termin in TLA+

TLA+ models of the parts of the Termin engine whose correctness depends on
order: what runs while something else is half done, what is still pointed at
when it goes away, what happens after a failure. TLC checks them on small
instances, TLAPS proves the main results for all instances. `PROJECT.json` maps
every definition to the lines it stands for and lists runs, hazards, mutants,
findings and theorems. Paths below are relative to `src/`.

1. The system
2. The plan
3. The deferred dispatcher
4. The module runtime
5. The handle pool
6. The component scheduler of a scene
7. The entity pool
8. The remote profiler
9. Findings
10. What is not modelled, and why

Run `tlc -config X.cfg M` for a run (module and cfg are listed in the tables
below) and `tlapm M_proofs.tla` for the proofs.

## 1. The system

Termin is a C and C++ engine with an editor, in districts: `core` (values,
registries, reflection, dispatch), `graphics`, `engine` (scenes, modules,
rendering, remote tools), `physics`, `editor`, `platform`. It is mostly
sequential by design (`docs/architecture/2026-07-24-no-owner-thread-restrictions.md`):
one thread runs the frame. What makes it hard is re-entrance. Nearly every
structure calls back into host code (C++, Python, C#) in the middle of an
operation, and that code may use the structure again. Real threads appear in
the dispatcher, in the remote profiler and framegraph tools and in the audio
mixer.

| Component | State | Operations | Calls and is called by | Hard behaviour | Must hold |
|---|---|---|---|---|---|
| `core/termin-dispatch` | queue, slots with generations, two mutexes | post, drain, cancel, discard, close, destroy | any thread posts; drain runs host callbacks | threads, re-entrance from callbacks and dispose functions, failing allocation | every payload disposed once; cancelled work never runs; order of posting |
| `engine/termin-modules` | records with state, cleanup phase and handle; Python environment | discover, load, unload, reload, rebuild, build, clean, shutdown | backends load libraries and interpreters; callbacks register and revoke contributions; the editor's panel listens | every step may fail half-way; descriptors change under it | nothing points into code that left; dependencies outlive dependents; operations end |
| `core/termin-base` `tc_pool` | slots, generations, free list, epoch across bootstraps | init, alloc, free, clear, foreach | every C registry is built on it | callbacks in foreach, exhausted generations, shutdown and bootstrap | a handle is valid from issue to release and never again |
| `engine/termin-scene` scheduler | pending-start queue with revisions, three ordered lists per scene | register, unregister, enable, prioritise, update, editor update | callbacks of components; entity pool; scene manager | lists edited while they are walked; a shortcut over a queue that has not changed | nobody forgotten, nobody called after removal, start once |
| `engine/termin-scene` entity pool | slots, parent and child links, component arrays, SoA rows, uuid map | alloc, free, set parent, add / remove / replace component, migrate | scene scheduler, archetypes, editor | callbacks in the middle of removal, partial migration | a forest; components owned once; rows match entities |
| `engine/termin-scene` scene pool, extensions | slots of scenes, extension instances | new, free, attach, update hooks | everything holds scene handles | the array moves when it grows | handles, order of detachment |
| `core/termin-base` `tc_event`, `tc_resource_map`, profiler ring | subscription records; open-addressed map; frame ring | subscribe, publish; add, replace, remove; capture | all registries; remote profiler | subscription from a handler; tombstones and growth; ring overwritten under a reader | delivery, map equals a function, gaps are reported |
| `core/termin-inspect` | types, owners, factories, live instances | register, unregister owner | modules that come and go | an owner leaves while instances live | no factory of a module that left |
| `graphics` registries (mesh, texture, shader, material, pipeline...) | pool + uuid map + reference counts + hooks | declare, load, find, destroy | assets, renderer, GPU caches | lazy loading, hooks during destruction | map, pool and counts agree |
| `graphics` rendering core, `engine/termin-render*` | frame graphs, render targets, pipelines | build, execute, resize | engine core, passes | topology rebuilt between frames | attach and detach balance |
| `engine/termin-engine` | scenes by key and role, modes, worlds, render attachment | create, close, copy, mode, tick | scene, rendering, editor | scenes closed from callbacks of a tick | each scene owned once |
| `engine/termin-profiler-remote` | SPSC queues, session, dictionary, late-time map | pump, handshake, send, control | frame thread and I/O thread, TCP client | threads, disconnects, full queues, late data | no silent loss, sessions do not mix |
| `engine/termin-framegraph-remote*` | latest-value slots, requests | publish, request, stop | as above | as above | newest value wins, answers match requests |
| `engine/termin-audio` | voices and clips in pools | play, stop, load | external mixer thread | voice ends while it is controlled | voices match mixer sounds |
| `engine/termin-prefab`, `-assets`, `-default-assets` | prefab instances and overrides, asset records | instantiate, apply, revert | scene, editor | propagation to instances | overrides survive propagation |
| `engine` the rest (`-runtime`, `-bootstrap`, `-components`, `-display`, `-input`, `-voxels`, `-csg`, `-lighting`, `-profiler`, `-stdlib`) | application state | — | — | little | — |
| `graphics` the rest (GUI, plots, node graph, visual scene, glTF, image, tween, animation, window) | retained documents | edits, layout | editor | little concurrency | — |
| `physics` | numeric state | solve, detect | components | floating point | numeric |
| `editor` | documents, undo, project builds | user commands | all of the above | long command sequences | undo restores |
| `platform`, `termin-csharp`, `termin-thirdparty`, scripts | ports, generated and vendored code | — | — | — | — |

## 2. The plan

Ordered by how much of the engine rests on the component and how little of its
behaviour a test can reach.

| # | Modules | Abstract specification | Proofs | Status |
|---|---|---|---|---|
| 1 | `Dispatcher` | `DeferredWork` | inductive invariant, disposal, cancellation, queue, destruction, refinement | done |
| 2 | `ModuleRuntime` (with both backends) | `ModuleLinks` | every safety property and the refinement | done |
| 3 | `ResourcePool` | `HandleTable` | everything, refinement included | done |
| 4 | `SceneScheduler` | — | type, lists, queue, shortcut, calls, walks, starts | done |
| 5 | `EntityPool` over `EntityRows` | `EntityForest` | type, slots and uuids, forest, refinement, row correspondence, ownership | done; the composition with `SceneScheduler` through registration to come |
| 6 | `RemoteProfiler` over `SpscQueue`; then `LatestValueSlot` of the framegraph tools | `BoundedFifo`; a register | queue implements the FIFO, discarded controls, order of controls, the stream of frames, stopped service | profiler done; `LatestValueSlot` to come |
| 7 | `MeshRegistry` over `ResourcePool`, `RuntimeTypeRegistry`, `SceneManager` with scenes | handle table with names | map, pool and counts agree | |
| 8 | `EventBus`, `ResourceMap` and the audio registry | a function, a set of subscribers | | |

Every module is parameterised by CONSTANTS with named assumptions, has one
action per operation, and declares no recursive operator, so that it can be
proved about. An MC module gives the constants of the TLC runs; state spaces are
kept under a few million states.

## 3. The deferred dispatcher — `Dispatcher`, `DeferredWork`

Source: `core/termin-dispatch/src/dispatcher.cpp`, contract in
`include/termin/dispatch/dispatcher.h` and `docs/index.md`.

### What it is

Any thread posts a callback with a payload and gets a ticket. Some thread calls
`drain(limit)`, which takes the oldest `limit` entries out of the line as one
batch and runs them one after another; `cancel(ticket)`, `discard_pending()`,
`close()` and `destroy()` complete the interface. Work lives in a table of slots
that are reused under a new generation; `mutex` guards the tables,
`drain_mutex`, recursive, serialises the drains. No lock on `mutex` is held
while host code (a callback or a dispose function) runs, so host code may call
every operation again, from inside the drain and from other threads.

### How the model corresponds to the code

| `Dispatcher` | `dispatcher.cpp` |
|---|---|
| `open`, `nslots`, `slots`, `free_slots`, `queue`, `queued_count` | the fields of `tc_dispatcher` (64-70); `free_slots` is the multiset of indices on the free stack |
| `drainer`, `dpc`, `batch`, `below` | `drain_mutex` with its holder, and the locals of the drain it protects: the point reached, the part of the batch not yet completed, the disposals the draining thread already owed when it called drain |
| `owed[t]`, `inUser[t]` | work that thread `t` has taken out of the table and must still dispose; whether `t` runs host code |
| `phase`, `destroyer` | the progress of `tc_dispatcher_destroy` |
| `allocs`, `ticket`, `calls`, `disposals`, `cancelled` | history only: what was issued, called, disposed and cancelled |

One action stands for one critical section of `mutex`, or for one entry into or
return from host code:

| Action | Code |
|---|---|
| `Post`, `PostFails` | `tc_dispatcher_post`; `PostFails` when `queue.push_back` throws and the slot is given back |
| `Cancel`, `DiscardPending`, `Close` | the calls of those names |
| `BeginDrain`, `TakeBatch`, `RunCallback`, `CompleteCallback`, `EndDrain` | `tc_dispatcher_drain`, lock by lock |
| `Dispose` | `dispose_payload`, wherever it is called |
| `DestroyBegin`, `DestroyDiscard`, `DestroyDelete` | `tc_dispatcher_destroy`: close, wait for `drain_mutex` and discard, delete |

A drain that another thread calls while one is active waits; one that the
draining thread calls itself returns "busy" and changes nothing. Calls that
change nothing (a cancel that returns false, the queries) are not actions.

Three things are left out. Which of several free slots a post takes is left open
(the code takes the one released last), which only adds behaviours. And
`destroy` is only called within its contract (`docs/index.md`: the owner
outlives every call): by a thread that is in no other call, when no other thread
is in one except the drain destroy waits for. And of the allocations only those of a
post fail: a `release_locked` whose `push_back` throws leaves a drain or a cancel
half done, which is a hazard in `PROJECT.json` without a property.

### Runs

| Run | Question | Bounds |
|---|---|---|
| `dispatcher_threads` | Under every interleaving of two threads: are the tables exact, is each payload disposed once, does a ticket only ever reach its own work? Is every run one of the abstract line of work `DeferredWork` (callbacks once and in posting order, fairness included); is taken work eventually disposed; does destroy return? | 2 threads, 3 allocations, drain limits 1 and 3; no symmetry because of liveness |

Three allocations are enough for every case the code distinguishes: a slot
reused while an old ticket for it is still about, a batch of more than one
entry whose callbacks cancel, discard and post into the slots just released, a
second drain over work posted by the first. Two threads are enough because a
third could only do what the second does: at most one thread drains and one
destroys, and the rest are posters and cancellers whose steps are single
critical sections. `MaxGen` is large enough that no generation wraps
(`NoWrapAssumption`): the code's generation is 32 bits wide and a wrap would let
an old ticket reach new work.

### Fairness

A call under way proceeds: weak fairness of the drain's own steps and of
destroy's. That includes that callbacks and dispose functions return, which the
contract asks of the host. `Dispose` is strongly fair: the disposals an outer
call still owes are held back while the same thread drains from inside a dispose
function, and a host whose dispose function drains for ever would never finish
the first call. Nothing is assumed of posting, cancelling or draining: a host
may never drain, and then queued work waits (no property says otherwise).

### Proofs — `Dispatcher_proofs`

All theorems hold for any set of threads, any number of allocations, any
generation width not exhausted by them and any set of limits.

`IndInv` is inductive (`Invariance`). It is the conjunction of the typing of the
tables; `QueueExact`, `BatchExact`, `FreeListExact` (each list describes exactly
the slots of its state); `TicketsExact` (a slot's work and generation agree with
the ticket issued, and no generation runs behind a ticket); `DrainExact` (who
may have a batch); `DisposedExactlyOnce`, `OwnedWasAccepted` (each accepted
payload has one owner until it is disposed); `CancelledNeverRuns` and
`CalledAtMostOnce`. None of them is inductive alone: that a cancel removes its
own work needs `TicketsExact`, whose step for `TakeBatch` needs `QueueExact`,
whose step for `Post` needs `FreeListExact`, and the ownership facts need all of
them, since a work's owner is found through the slot its queue entry names.

The proof has a layer per part of the model. Lemmas about the helpers come
first: what `Released` does to the slots, to the free list and to the works the
slots hold, what `RemoveAt` and `SubSeq` do to the queue. Then there is one
lemma per action and group of conjuncts, and a case split over `Next` joins
them. `CallBeforeDispose` is an action property and follows from the invariant
by looking at `RunCallback` alone.

`DestroyedIsEmpty` needs what destroy has achieved so far, `DestroyExact`: once
it has begun nothing is accepted and only the awaited drain's thread and the
destroying one owe disposals (so no third thread can withdraw work and still
hold it when destroy returns), and once it has discarded nothing is queued.
Together with `IndInv` it is inductive; when destroy returns there is no batch,
so no executing slot, hence no owner left, and `DisposedExactlyOnce` turns that
into one disposal per accepted work (`DestructionIsComplete`).

`DispatcherKeepsPromise` is the refinement of `DeferredWork`, without the
fairness: the line is the works of the queued slots in queue order, the batch is
the drain's, the latest work is the largest accepted number. Each action has its
lemma; `PostFails`, `BeginDrain`, `EndDrain` and `DestroyDelete` leave the
abstract state alone, and so do an empty `TakeBatch`, a `DestroyBegin` after
`Close` and a `DestroyDiscard` of nothing. `IndInv` is needed because a released or reused
slot must not be one the queue names.

Only model-checked: the fairness half of the refinement and the two liveness
properties (liveness is out of the prover's reach). `CallBeforeDispose` and
`CalledAtMostOnce` are only proved.

## 4. The module runtime — `ModuleRuntime`, `ModuleLinks`

Source: `engine/termin-modules/src/module_runtime.cpp` with the lifecycle calls
of `module_cpp_backend.cpp` and `module_python_backend.cpp`; contract in
`engine/termin-modules/docs/lifecycle.md` and `callbacks.md`.

### What it is

The runtime brings C++ libraries and Python packages into the process in the
order of their dependencies and takes them out again. A C++ module leaves in
stages: its shutdown function (`begin_unload`), the revocation of what it
contributed to the engine's registries, then the library itself
(`finish_unload`). A Python module leaves in one step. Each stage may fail, and a
later unload resumes at the stage that failed.

### How the model corresponds to the code

| `ModuleRuntime` | `module_runtime.cpp` |
|---|---|
| `known`, `deps`, `ignored`, `state`, `phase`, `handle` | the `ModuleRecord`s: spec, `state`, `cleanup_phase`, whether `handle` is set |
| `prepared` | `_backend_environments_prepared` |
| `op` | the operation of the host under way: its name, the part it is in, the modules still to be handled and, for a reload, all of them |
| `busy` | the module whose backend call or callback is on the stack |
| `replacing` | the reload whose unload the record of a module goes through |
| `mapped`, `stopped`, `contributed`, `built` | what the backends know: library mapped, shutdown function called, registrations alive, build output present |
| `files` | what the descriptor files say at the moment (external) |
| `kept` | history: the dependencies a module has named ever since they were checked at its load |

One operation of the host is under way at a time and suspends wherever host code
runs. `docs/callbacks.md:105-111` forbids callbacks to change the module table,
so the guards against re-entrant loads and unloads cannot be reached and are not
modelled. A listener may ask `needs_rebuild`, though, and the editor's module
panel does: that reads every descriptor again in the middle of an operation, and
is the action `Refresh`. Every backend step and callback may fail. Left out:
exceptions out of callbacks, a descriptor that changes its kind, and calls whose
first refresh fails (they change nothing).

### Runs

| Run | Question | Bounds |
|---|---|---|
| `modules_chain` | Through every call, failure and retry: does code leave in the documented stages, are registrations gone before their library, is the old generation out before the new one, does the environment outlive the modules? | a chain of three: two native modules, one buildable, and a Python one; descriptors with the middle module ignored or not |
| `modules_edits` | With descriptors edited at any moment (links dropped, reversed, made cyclic, files unreadable): is code in the process as long as something is linked to it, does the runtime implement `ModuleLinks`, and does every operation end? | two modules, one of each kind; with fairness |
| `modules_unloaded` | Does `Unloaded` mean that the module is out of the process (`lifecycle.md:151-152`)? It does not; see section 9 | two modules, fixed descriptors |

Two modules suffice for every relation between a module and one dependency or
dependent; three are needed for orders (load, shutdown, reload with dependents)
and for a failure in the middle of a plan.

### Properties

`CleanupConsistent` relates state, phase, handle and the operation.
`NoDanglingContribution` says that no registration points into a closed library
and no library is closed before its shutdown function ran. `DependenciesLive` is
the unload guard: what a loaded module was checked against at its load and has
named ever since stays in the process. `ReplacementAfterUnload`: no new
generation is loaded while an old one of the same reload is inside.
`EnvironmentOutlivesModules`: Python modules live within the session's
environment. `HeldGraphAcyclic`: an order for shutdown always exists. The
refinement `ImplementsModuleLinks` says all of this abstractly: modules come in
on top of usable dependencies, begin to leave only when nobody linked to them is
in, and then go all the way.

### Fairness

`WF(OperationStep)`: a backend call or a callback returns, with success or
failure. Nothing else is assumed; the host may never call anything.

### Proofs

`ModuleRuntime_proofs` proves every safety property of this section, and the
refinement `ImplementsModuleLinks`, for any finite set of modules, any kinds of
them and any descriptors (`ModuleRuntimeAssumption`). `Invariant` is inductive
and strengthens the properties where a step needs more than they say:

- `RecordsExact` adds to `CleanupConsistent` that a loading module has no
  cleanup behind it and one being prepared for its unload is loaded; without
  the first a successful load could leave a phase behind.
- `OperationExact` ties the operation to the records: the busy module is the
  head of the plan, only mode "load" loads, and what a reload is about to
  restore has no cleanup pending, so that a failing restore cannot overwrite
  "CleanupFailed".
- `BackendExact` says what each phase has behind it: after `BackendBegin` the
  module is stopped, after `RevokeContributions` it has no registrations.
- `LinksExact` is the argument for `DependenciesLive`: what a module is linked
  to has a handle and phase "None". A preparation needs no dependents, so it
  makes the phase of nothing linked other than "None"; while it lasts its module
  is the busy one and nothing else can load on top of it; and only a module
  whose phase is not "None" is unloaded.
- `ReloadExact` follows a reload through its restores: the plan has no module
  twice, so the members behind the one being restored are still unloaded.
- `GraphExact` adds that the graph stays acyclic during every operation but
  shutdown, since each begins with a refresh that has checked it.

`StepKinds` and `OperationKinds` say once what a step can do to the records and
to the operation; each part of the invariant is then one case per kind.
`OperationsEnd` is model-checked only, being a liveness property.

## 5. The handle pool — `ResourcePool`, `HandleTable`

Source: `core/termin-base/src/tc_pool.c`.

### What it is

Every C registry of the engine keeps its objects in a `tc_pool`: an array of
slots with a generation each. A handle is an index and a generation. Releasing
a slot advances its generation, so that old handles become stale; a slot whose
generation is used up is retired; the `tc_pool_generation_epoch` of a registry
carries the highest generation across its shutdown and the next bootstrap.

### How the model corresponds to the code

`capacity`, `generations`, `states`, `freeList`, `count` and
`initialGeneration` are the fields of `tc_pool`, `epoch` is the epoch the
registry passes in. Each function is one action: `InitEx`, `InitExRefused` (the
epoch is exhausted), `InitExFails` (no memory), `Clear`, `Alloc`, `AllocGrows`,
`FreeSlot`, `FreePool`. The pool is sequential; its one interleaving is
`tc_pool_foreach`, whose callback may call anything: `walk` is the iteration in
progress and each visited slot is a step. `held` and `dead` are history: the
handles issued and not given up, and those given up. A growth that fails and a
refused handle change nothing. Pools that are freed and created again without
an epoch are excluded (the repository has none).

### Run

`pool_handles` answers all questions in one run: up to 3 slots (initially none
or 2, doubling from 1, so that the limit cuts a doubling short), 3 generations,
so that slots are retired and the epoch is exhausted; 558,000 states. Three
slots give a free list with an inner element and a growth in the middle of an
iteration.

### Properties and proofs — `ResourcePool_proofs`

Proved for every capacity, generation width, set of initial capacities and
order of allocation: `TypeOK`; `StaleStaysStale` (a handle given up is refused
for ever); `HeldIsValid` (exactly the handles issued and not given up are
accepted); `FreeListExact`; `WalkComplete` (an iteration that was not stopped
called back for everyone who lived throughout); and the whole refinement of
`HandleTable`, the table in which handles are issued once and revoked once.

The inductive invariant `IndInv` adds to these: how the epoch bounds the
generations of the open pool and of every dead handle (a dead handle of slot i
has a generation below the current one, or at most the slot's last one if it is
retired); what an iteration still has to visit; and that `count` is the
cardinality of the occupied slots, for which cardinality lemmas are needed. The
refinement follows: a slot's step issues a handle that is neither held nor dead
because its generation is above every dead one of that slot.

Nothing of this component is only model-checked. `StaleStaysStale` and
`HeldIsValid` are no properties of the run: the refinement implies them on small
instances, and both are theorems.

## 6. The component scheduler of a scene — `SceneScheduler`

Source: `engine/termin-scene/src/tc_scene.c`, with `tc_component.c` and
`include/core/tc_component.h`; contract in `engine/termin-scene/docs/lifecycle.md`.

### What it is

A component registered with a scene waits in `pending_starts` until an update
starts it, and stands in one list per lifecycle stage it takes part in, ordered
by priority and registration. `tc_scene_update` starts what waits, runs the
fixed steps due, the update, the scene's extensions and the late update;
`tc_scene_editor_update` does the same for components active in the editor. To
keep a steady scene free of work, the queue carries a revision, advanced by
whatever may make a component startable; each of the two modes remembers the
revision it processed and skips the queue while it is unchanged.

### How the model corresponds to the code

| `SceneScheduler` | code |
|---|---|
| `home`, `order`, `enabled`, `inEditor`, `started`, `caps`, `priority` | `lifecycle_scene`, `lifecycle_registration_order`, `enabled`, `active_in_editor`, `_started`, `has_update...`, `lifecycle_priorities` |
| `entityOn`, `alive` | whether the owning entity is enabled; whether the component still exists |
| `pending`, `schedule`, `revision`, `processed`, `nextOrder` | fields of `tc_scene_slot` |
| `pass` | the update on the stack: scene, mode, phase, snapshot, index of the loop, fixed steps left, component being called |
| `sweep`, `edits` | history: who stayed due during the walk of a list, who was called, whether the part already walked was changed; a counter that bounds the runs |

The API calls (`Register`, `Unregister`, `SetEnabled`, `SetActiveInEditor`,
`SetEntityEnabled`, `SetCapabilities`, `SetPriority`) are enabled when host code
runs: between updates, in the update hook of extensions, and in any callback of
a component (`CodeRuns`). The pass moves in steps: `BeginUpdate` takes the
snapshot, `Call` goes to the next component to be called (those skipped in
between are skipped in the same step, since nothing can run in between),
`StartReturns` and `StageReturns` finish the callback, the others turn to the
next phase. `BeginUpdateNoMemory` is the failed allocation of the snapshot. Time
is abstracted to the number of whole fixed steps due.

Left out: capability and type indices, creation and destruction of scenes, an
update called from an update, and reuse of the memory of a deleted component.
`_started` written after deletion has no effect in the model; that it happens is
a finding.

### Runs

| Run | Question | Bounds |
|---|---|---|
| `scheduler_callbacks` | Who is called when callbacks edit the scene in the middle of a pass? | one scene, three components in one stage, five API calls: the host registers, callbacks do the rest (`HostOnlyRegisters`) |
| `scheduler_scenes` | Are lists and queue exact, does the shortcut forget nobody, and is an enabled component started in the end, when two scenes exchange components? | two scenes, two components in the fixed and late stages or in none, up to one fixed step, three calls by anyone, revisions modulo 3 so that they wrap, snapshot allocation may fail; no symmetry because of liveness |
| `scheduler_removed_while_starting` | Is `_started` only written to a component that still exists? It is not; see section 9 | one scene, three components, four calls by anyone |

Three components are what the walk of a list needs (one before, one at and one
after the index); two are enough for the order of a list, which compares pairs,
and for the queue. The calls are bounded by `MaxEdits` only to keep the runs
finite; registrations count among them. With three calls `scheduler_scenes` does not
reach a component that would keep its order from another scene and tie with one
there; that the orders are right then too is what `SchedulesAreExact` proves.

`SweepReachesAll` says what the walk by index really guarantees: as long as
callbacks leave alone the part of the list up to the component being called, it
calls everyone who stayed due, once. When something at or before the index
leaves, the next component is missed in this pass; when something is inserted
there, the current one is called twice. A component registered by a start
callback is updated in the same pass, before its start. Neither contradicts a
statement of the docs; both are listed under hazards.

### Fairness

Callbacks return (`WF(PassStep)`), and every scene in play is updated again and
again: `SceneManager::tick` updates all of them each frame. An update is not
possible during another, hence `SF(BeginUpdate(s, "Game"))`.

### Proofs — `SceneScheduler_proofs`, `ListLemmas`

For any finite scenes and components, any integer priorities and any width of
the revision, from `SchedulerAssumption` alone:

* `SchedulesAreExact`, `QueuesAreExact`, `NothingForgotten`, `CallsJustified` and
  `TypeCorrect` state the properties the runs check;
* `Invariance` is what they follow from. Its conjunction `IndInv` needs more
  than the properties say:
  * `OrdersExact` — a component has an order exactly while it is registered, its
    own in its scene and not above the scene's counter, and is alive then.
    Without it two components of equal priority could tie, and an insertion
    would not keep a list in order; that callbacks go to the living follows from
    it too.
  * `ListsExact` — each list is ordered by priority and then by that order
    (`Ordered`), which also says that no component is in it twice.
  * `PassExact` — a pass past its beginning has a scene, and the component being
    started is the one the index of the snapshot stands on, so that its return
    takes out of `ToStart` what it takes out of the queue.
  * `RevisionInv` — no processed revision is above the scene's. The wrap rests
    on it: after it the modes have processed 0 and the scene is at 1.

The argument has one lemma per part and action: `RegisterLists`,
`UnregisterPending`, `CallForgets` and so on, gathered in one lemma per group of
actions (`RegisterInv` to `PassStepInv`) and in `StepInv`. `ListLemmas` holds
what the operations of the code's lists return for lists of any length; the
dispatcher's proofs use it as well.

Two action properties need an account of their own, kept beside `IndInv`:

* `SweepsAreComplete` — `SweepInv` follows one walk of an update list: as long as
  nothing behind the pass has changed, whoever was called stands behind it, and
  whoever stayed due stands in front of it or was called (`Reached`). It holds
  because a list has nobody twice (`ListsExact`), so that what a callback moves
  about further down cannot come from behind. A pass in front of its extensions is
  in no callback, which is why the last stage too is entered with nobody behind.
* `StartedAtHomeOnce` — nobody in a queue was started (`NoneWaitsStarted`). The one
  way out of this is a component that its own start callback moves to another
  scene: it is queued there while `_started` is still false, and the queue the
  pass then takes it out of is the old one. The theorem holds for any number of
  scenes and excludes exactly that (`StartsAtHome`); `StartedOnce` is the case of
  one scene, which the run checks.

Only model-checked: `EventuallyStarted`, which is liveness.

## 7. The entity pool — `EntityPool`, `EntityRows`, `EntityForest`, `EntityPool_proofs`, `EntityContents_proofs`

Source: `engine/termin-scene/src/tc_entity_pool.c`, with
`tc_entity_pool_soa.c` and `tc_archetype.c` (`EntityRows`) and the parts of
`tc_component.c` and `tc_scene.c` these call.

### What it is

A pool keeps the entities of one scene in slots that are reused under a new
generation. An entity has a parent and an ordered list of children (or stands
in the list of roots), a uuid that finds it, the components it owns, and one row
of data-only components in a dense table per set of types. Creating, freeing,
adding, removing and replacing call host code in the middle: `on_removed` before
a component leaves, `on_added` once it is on, an event when an entity is out of
the tree and not dead yet, `on_destroy` when the whole pool goes. That code may
use the pool again.

### How the model corresponds to the code

| `EntityPool`, `EntityRows` | code |
|---|---|
| `cap`, `free`, `gen`, `alive`, `uuid`, `byUuid`, `parent`, `children`, `roots`, `comps` | the arrays and maps of `tc_entity_pool`; `open` holds the pools not destroyed |
| `owner`, `registered`, `refs`, `retained` | `owner`, `lifecycle_scene`, the reference count and `factory_retained` of a component |
| `born`, `held` | the components that exist, and the references the host holds |
| `mask`, `row`, `rows`, `memory` | `soa_type_masks`, `soa_archetype_rows`, and the rows of each table; `memory` is the storage behind them, which keeps the values of rows given up |
| `frames` | the operations in progress, the innermost last: C's call stack, reduced to the locals that survive a callback |
| `written`, `strays` | history: what an entity's fields were given last, and which entities a callback moved while they were freed |

An operation that calls nobody is one action (`Alloc`, `SetUuid`, `SetParent`,
`SetSiblingIndex`, `SetComponentIndex`, `ChangeRow`). One that calls host code
pushes a frame and goes on, stage by stage, whenever that frame is on top:
`AddComponent` (with a frame for every required component it creates first),
`RemoveComponent`, `ReplaceComponent`, `Free`, `DestroyPool`, `Migrate` (with a
frame for every child). The host runs when there is no frame or the top one
stands in a callback (`HostRuns`).

What the code leaves to its callers, without checking it, is stated in one place,
"The discipline of the host":

* a component some operation works on is left alone (`Working`), and so is an
  entity whose destruction was announced (`Usable`); an entity some operation works
  on is neither freed nor migrated (`Busy`);
* nobody shortens or reorders the component array of an entity while a replacement
  on it calls `on_removed`, because that operation goes on at the index it was given
  (`Settled`). An add holds no position: its callbacks may take off, replace and
  reorder what they like;
* a pool does not grow while a free or a replacement calls `on_removed`, because
  both hold a pointer to a component array across it (`MayGrow`), and nothing is
  created in a pool that is going (`MayCreate`).

Everything else the callbacks may do. They may, in particular, move an entity that
is being freed: the free has read its parent before (`tc_entity_pool.c:660`) and
unlinks it from that one afterwards (lines 698-702), so the entity dies and stays
in the list it was moved to. `FreeUnlink` does what the code does; `strays`
remembers such entities, and `MigrateSkip` is the branch of a migration that drops
a dead entry from a list (lines 1820-1822).

A migration that meets a child whose uuid is taken in the destination is given up
where it stands (`MigrateAbandon`): the components of the ancestors have changed
pools by then (lines 1786, 1816), although the comment at line 1754 promises that
nothing is moved before the uuids are checked. The run and the proofs go through
this: what is left is two forests, each exact, with half of the subtree in either.

Three points of the discipline exclude what the code would get wrong (a pool that
grows, `MayGrow`; an array that changes under a replacement, `Settled`; an entity
that is moved between its last event and its death, `Usable`); they are hazards in
`PROJECT.json` without a property.
`docs/gotchas.md:37` says that `set_parent` does not look for cycles; the code does
(`tc_entity_pool.c:1354`), and `SetParent` follows the code.

Deviations: `FreeUnlink` and `MigrateEnd` clear the uuid of a dead slot, whose
string the code keeps until the slot is reused (nothing reads it); handlers
called inside a migration leave both pools alone; transforms, flags, names and
pick ids are left out, and a generation does not wrap.

### Runs

| Run | Question | Bounds |
|---|---|---|
| `entities` | Through all operations and those begun in their callbacks: do slots, tree, ownership, reference counts and rows stay exact, and does the tree do what a forest does? | two pools of 2 slots that grow to 4, three uuids (symmetric), two components of which one requires the other, two data-only types, one reuse of a slot; explored one concern at a time (`OneConcern`); 53,483 states, depth 34 |
| `entity_rows_lost` | Does a migration copy all data, as the header says? It does not | as `entities`, with data-only components on the entities that move (`MigratesRows`) |
| `entity_strayed` | Is a freed entity out of its parent's children, as the comment over the unlinking says? Not if `on_removed` moved it | as `entities` |

The product of all operations is out of reach, and most of it says nothing new: a
row does not depend on who owns a component. `OneConcern` therefore follows a
state only while it belongs to one of four families: trees in a pool that grows,
with a reuse of a slot among roots; components with operations nested in
callbacks; a tree with a component, moved in callbacks and to the other pool, an
entity that is moved while it is freed included; data-only components. Each family
has the sizes it needs: three entities for a parent, a child and a grandchild; a
growth and a reuse for the slots; two operations in one another for the callbacks,
which is enough for an `on_added` that takes off or reorders what was just
provided. (One that replaces it needs a third component: that case is left to the
proofs.) `entities` excludes the
migration of data-only components, which the run `entity_rows_lost` is about, and gives every
type an init function (`InitTypes`): with a type that has none, `RowsExact` fails,
because a row used before keeps its values.

### Properties

`SlotsExact` relates free stack, liveness and uuid map; `ForestExact` says that
parents and lists describe the same tree and that it has no ring, whatever was
moved, freed and migrated in callbacks, and that nothing else is in a list but an
entity that a callback moved while it was freed, under an id that is not given
again; `OwnershipExact` that a component is in the array of its
owner and of nobody else, registered with the scene of that pool, and that its
count is the number of those who hold a reference, so that it is neither deleted
early nor leaked. It does not say that an entity has what its components require:
the code adds a requirement once and does not look for it again, so an `on_added`
or anybody later may take it off. `RowsExact` that every entity finds its own row and its own
values after any number of swaps. `ImplementsForest` forgets the lists: whatever
the pool does is creating, removing or moving one node of a forest whose nodes
are never reused (`EntityForest`). `FreeLeavesTree` states the comment
"Remove from parent's children" (`tc_entity_pool.c:697`): when a free ends, no
list names the entity. The code breaks it.

### Proofs — `EntityPool_proofs`, `EntityContents_proofs`

For any pools, components, types with any requirements, uuids, capacities and
depth of nesting, from `PoolAssumption` and `RowsAssumption` (the null values are
none of the proper ones, the first capacity is positive and below the bound,
every component has a type):

* `SlotsStayExact` and `ForestStaysExact` state the properties the run `entities`
  checks;
* `PoolsImplementForest` states that the pools implement `EntityForest`. It has
  no fairness, so the theorem is the whole of it;
* `InvariantHolds` is what they follow from.

`SlotsExact` and `ForestExact` are not inductive. The step that ends a free, say,
puts a slot back and is right only if the entity is still the one that left the
tree when the free began, although callbacks have run since. So the invariant
`IndInv` speaks of the stack as well. Its parts:

* `Typed` — arrays, maps and frames have their types;
* `PoolOK` for every pool — the free stack holds the dead slots, the map of uuids
  and the uuids of the entities are inverse to each other, the lists hold the
  children that say so (`ListsHold`), what else is in a list is there because a
  callback moved it while it was freed (`StraysHold`), and there is no ring. All of it is said of the entities
  in the tree; those that left it and are not dead yet are accounted for by the
  frame that frees them;
* `StackOK` — what a frame may rely on when it goes on:
  * `FrameOK` — its entity is alive; a free finds the parent it has saved, unless
    that one went in the meantime and left a root behind, or a callback has moved
    the entity since (`OldOK`); a migration
    finds its entity in the tree and its copies among the roots of the other pool
    (`MigrationOK`);
  * `NestOK` — a frame was begun by the one below it, as the code calls itself
    (`made`), or by the host in a callback;
  * `PairOK` — no frame takes away what one below it works on. This is where the
    discipline of the host enters;
* `MovesApart` — what is below an entity that is migrated moves with it and is not
  worked on by anybody else. Without it the copy of a child could be attached in
  a pool its parent never reaches.

One lemma per action shows that its step keeps the invariant and says what it did
to the trees: nothing (`TreesStand`), an entity entered (`Enters`), went below
another or to the roots (`GoesUnder`), left the tree (`Unlinks`) or died (`Dies`,
`SourceDies` for the source of a migration). `SetParentKeeps` and its like rest on
lemmas about values, not states (`SlotsHold`, `ListsHold`, `NoCycle` of a list
with one more or one fewer, `TailKeepsLists` for the dead entry a migration drops), and on `ListLemmas`. The refinement then follows from
those six cases alone, each one a step of `EntityForest` or a stutter.

The proof that `set_parent` makes no ring needs the meaning of the walk up
the parents (`Chain`), which the code writes as a loop: `Chain` is the least set
with the entity that holds the parents of its members, so that an entity that is
not in it can be put below without closing a ring.

`RowsStayConsistent` and `RowsStayExact` (`EntityContents_proofs`) are about the
tables of data-only components, under two hypotheses on constants, both of which
the code needs:

* `~MigratesRows`, no entity that is migrated has data-only components: a
  migration forgets the row (the run `entity_rows_lost`);
* for the values also `InitTypes = RowTypes`: a row used before is reset only by
  init functions (the hazard at tc_archetype.c:182).

Here too the property is not inductive. `RowInv` says that every table holds
exactly the rows of the entities in the tree with its types (`TablesOK`), that the
empty set of types has none, and that the entity of a migration in progress, with
all that is below it, has no row (`MovesBareIn`): it had none when the migration
began, and no code of the host runs before it ends. The proof rests on values
first: `GiveUpHolds` and `TakeRowHolds` say what the two
operations of tc_archetype.c do to one table, `RowMoved` what a change of types
does to two, the last row swapped into the gap included. Then every action is one
of three kinds for the tables: it leaves them alone (`QuietStep`), it moves,
writes or drops the row of one entity, or it changes which bare entities there
are.

`OwnershipStaysExact` states `OwnershipExact`, and `TypeCorrect` states `TypeOK`
(under `~MigratesRows`, for the tables). `OwnershipExact` is far from inductive:
it says what owners, arrays, scene and counts are, and nothing of an operation
that has given away half of a component and goes on after a callback. `OwnInv` adds
that:

* `Ledger` is the part of the state that ownership is about, as one value, so that
  lemmas can compare what an operation relied on with what a callback left;
* `ArraysOK`, `OwnersLive` — the array of an entity holds what the entity owns,
  once each, and an owner is alive;
* `Settles` — the count of a component is the number of its holders (owner, host,
  factory, frames that owe a release: `OwedIn`), and the scene has it exactly if
  it has an owner and is not being taken off (`CountOK`, `SceneOK`);
* `WorkOK` — what the frames rely on. `StagesOK`: which components a frame names
  at which stage. `FrameHolds`: its component still has the owner it found, or
  still waits for one; while it removes, the entry it replaces is where it was; the array
  it has emptied is empty. `ApartOK`: a frame does not name a component one below it
  works on, and removes or replaces nothing on the entity where one below is
  replacing. `BegunOK`: an add that was made by another add stands on one that is
  still resolving.

The hard part of each step is `WorkOK` after it: that what is removed, replaced or
freed above an operation leaves to that operation its component, with its owner
and its reference, and to a replacement its position. It
does because of what the host may do in a callback (`FitsOn` of the frame that
begins), and because arrays only grow beneath a replacement that counts on them
(`Extends`, `ArrayStays`, `LeavesAlone`). The count of a component that changes
hands is followed by the lemmas on `OwedIn` (a frame pushed, popped or changed).
`TypeOK` needs all of it, because a count is a natural number only if nobody gives
back a reference that nobody holds.

Nothing of this component is only model-checked.


## 8. The remote profiler — `RemoteProfiler`, `SpscQueue`, `BoundedFifo`

Source: `engine/termin-profiler-remote` (`client.cpp`, `target_service.cpp`,
`bounded_spsc_queue.hpp`) and `engine/termin-frame-profiler`
(`remote_frame_profiler_source.cpp`); contract in
`engine/termin-profiler-remote/docs/index.md`.

### What it is

The editor shows the frames of another process. Four threads take part: the
editor's thread, which sends controls through a queue; the client's worker,
which connects, sends the controls and hands what it reads to the editor's
source; the target's I/O thread, which accepts one client at a time; and the
target's frame thread, which applies controls, captures frames and packs them.
Connections break, queues fill up, the service is stopped and started, the target
process dies.

### How the model corresponds to the code

| Model | code |
|---|---|
| `slots`, `head`, `tail` (`SpscQueue`) | the fields of `BoundedSpscQueue`; `putting`, `taking`, `taken` are a push or a pop between its two accesses |
| `shown`, `known`, `lastFrame`, `told`, `nextRequest` | `RemoteFrameProfilerSource::Impl`: status, dictionary, and what it makes of the frame and drop messages |
| `worker`, `link` | the program counter of `client.cpp:run` and its socket |
| `io`, `accepted`, `served`, `hand`, `sentNames` | the program counter and locals of `io_main`, `handshake`, `serve_client` |
| `frame`, `running`, `commands`, `outbound`, `capturing`, `fresh`, `completed`, `pending` | the frame thread's side of `RemoteProfilerTarget::Impl` |
| `toTarget`, `toClient`, `cut`, `connections` | the TCP connections (external): what is written and not read, and which broke |
| a frame's number | its place among the frames packed, so that pauses and cleared frames are not losses |
| `stale`, `applied`, `faults` | history: controls queued when a connection ended, the control applied last, the faults so far |

`SpscQueue` has a step per access to the shared indices and slots; that is where
the two threads meet. Acquire and release make the accesses visible in the order
they are written, so nothing weaker than interleaving is modelled. The client's
command queue is that module itself. The target's `command_queue` and
`outbound_queue` are objects of the same class and are sequences in
`RemoteProfiler`, which `ImplementsFifo`, proved for every capacity, justifies. The
move of `head` is merged with what the worker does with the control it popped,
because no other thread sees anything in between but room in the queue.
`Send` and `SendEnds`, and the handlers of the worker, exclude each other by the
source's mutex (`MutexFree`).

Left out: starting and stopping the client, a rejected handshake, controls that
do not touch the capture (sections, ping, status), overwritten capture rings
(the host pumps after every frame, so at most one frame is unsent), late GPU
times, the bounded history of frames the source shows, and the codec.

### Run

`profiler_session`: a queue of controls with room for two, queues of one entry in
the target, two section names (symmetric), three controls, three frames, two
connections, two faults; 1,113,000 states. Two values wait in the queue of controls
together, a push overlaps a pop, a third control finds the queue full or makes the
indices wrap; with room for one, two slots, a push would need an empty queue and a
pop a full one. `FewTogether` keeps the run small: three frames beside one control,
two beside two, and the third control is only followed where no frame was completed
and at most one fault has happened, because the queue does not depend on frames.
The target's queues of one entry are full and
empty all the time, which is where drops and refusals happen; the second connection
is needed for a session that begins after another ended, the second fault for one
during the recovery from the first.

### Properties

* `StreamExact` — what the source gets is enough to show it: no name arrives
  twice, every frame's name arrived before it, and the frames missing before a
  frame are as many as the losses reported since the one before. The names of a
  packet that was dropped, and its report of earlier losses, must therefore
  travel with a later packet, and nothing told to one session counts as told to
  the next.
* `ControlsInOrder` — controls are applied in the order of the user's clicks and
  at most once, through reconnections and crashes.
* `QueuedIsDiscarded` — a control queued when the connection ended is never sent.
* `StoppedIsIdle` — a stopped service holds nothing of its last run.
* `ImplementsFifo` — the queue, under the interleavings of its two threads, is a
  bounded FIFO.

`docs/index.md` calls queued controls session-scoped. The code discards what is
queued when a connection ends and then, in a second step, tells the source that
the session is over; a control sent between the two is accepted for the old
session and reaches the next one. `QueuedIsDiscarded` says what holds.

Nothing is assumed about fairness: a peer may never answer.

### Proofs — `RemoteProfiler_proofs`

The first two are about the queue alone and cite no assumption but its own
(`QueueAssumption`). For every capacity, number of controls, names, connections and faults:

* `SlotsAreExact`: exactly the slots from `head` to `tail` hold values, one more
  while a push is under way and one less while a pop is. From it
  `QueueImplementsFifo`: each of the four accesses is a step of the FIFO or none.
  The arithmetic of the ring (`Plus`, `Distance`) is in lemmas of its own.
* `ProfilerUsesQueue`: every step of the profiler is a step of the queue or
  leaves it alone, so that `CommandsAreFifo` follows from the theorem above
  instead of being proved again.
* `StoppedServiceIsIdle` from `Lifecycle`: the I/O thread runs only between start
  and join, and socket and hand belong to a run of the service.
* `QueuedControlsAreDiscarded` from `DiscardInv`: controls in the slots have
  different numbers, all given out before; once the worker has stopped
  discarding, none of the numbers in the slots or in its hand is stale; and a push
  still under way then has a new one.
* `ControlsStayInOrder` states `ControlsInOrder`. The numbers of the controls
  rise along their way, and `OrderInv` says so of the whole of it: from the one
  applied last over `commands` and `hand` (`TargetRises`), what is on the wire,
  connection after connection (`WireRises`), to the worker's hand, the slots of
  the queue and the next number (`ClientRises`), each part before the next
  (`Precede`). For that `WireUsed` has to say which connections can carry
  anything: the client writes to its last one only, and what a service did not
  read of the earlier ones is gone before it serves another. A step then moves a
  control to the next part or loses some; losing is one lemma (`FewerRises`) for
  reads, broken connections, stops and crashes.
* `StreamStaysExact` states `StreamExact`. The property is about one message that is
  read; what makes it true is spread over both processes. `StreamInv` ties them
  together: reading all that is on its way takes the source from what it knows
  (`View`) through messages that each make sense to it (`Leads`, a sequence of
  views, one per message) to a view that is the target's idea of it — the names in
  `sentNames`, no loss reported and not applied, and as the last frame the number
  after which the packets still queued go on (`Continues`, `Counts`). The queue in
  turn is tied to `completed` and `pending`, so that a packet that is dropped is
  reported by the next one that fits. All this is claimed only while the target
  writes to the connection the worker reads (`Heard`); when it breaks, what is left
  of the stream is a first part of it (`LeadsPart`), and the next session begins
  with the hello, which both sides take as knowing nothing (`HelloFirst`).
* `ProfilerTypeCorrect`: every variable has its type (`TypeOK`, which the run leaves to the
  proof). Most of the types are already parts of the
  invariants above; `RestOK` has the others, the bounds on the target's two queues
  among them.

Nothing of this component is only model-checked.

## 9. Findings

Each is shown by a run that violates one property (`PROJECT.json`, "findings",
quotes the lines).

* A successful build marks a failed module that still holds its handle as
  unloaded; `clean_module`, which refuses active modules, then runs on it while
  its library is in the process.
* A component that its own start callback removes is written to after its
  deletion; `lifecycle.md` calls registration and removal from such a callback
  safe.
* A migration drops the data-only components of the entities it moves, and leaves
  their rows behind in the table of the source; the header says that all data is
  copied.
* An entity that `on_removed` gives another parent while it is being freed dies and
  stays in the children of that parent: the free unlinks it from the parent it read
  before the callbacks.

## 10. What is not modelled, and why

Numeric algorithms (physics, geometry, layout, rendering), decoders and
conversions, the GUI, GPU calls, platform ports and generated bindings: their
correctness is about values, not about order, or rests on external interfaces.
Of the components in the plan that are not modelled yet, section 1 says what
should be checked, and the hazards in `PROJECT.json` name the lines.

Liveness, refinement under fairness and ENABLED are outside TLAPS; they are
model-checked only. C++ memory order is not modelled: the dispatcher's state is
guarded by mutexes, the profiler's queue publishes with acquire and release (section
8), and the other components modelled here are sequential.
