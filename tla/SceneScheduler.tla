--------------------------- MODULE SceneScheduler ---------------------------
(***************************************************************************)
(* The component scheduler of a scene (termin-scene, tc_scene.c): which    *)
(* component callback runs, when and in which order.  Components are       *)
(* registered with a scene, wait in its pending_starts until a pass starts *)
(* them, and stand in one list per lifecycle stage, kept in the order of   *)
(* priority and registration.  tc_scene_update and tc_scene_editor_update  *)
(* walk those lists by index and call the components.                      *)
(*                                                                         *)
(* Everything happens on one thread; the concurrency is that a callback    *)
(* may register, unregister, delete, enable, disable and reorder any       *)
(* component of any scene, the one being called included, while the pass   *)
(* that called it stands in the middle of a list.  Between two callbacks   *)
(* of a pass nothing else runs, so the components a pass skips are skipped *)
(* in the step that calls the next one.                                    *)
(*                                                                         *)
(* Left out: the capability and type indices, creation and destruction of  *)
(* scenes, an update of a scene from a callback of an update, and reuse of *)
(* a deleted component's address.                                          *)
(***************************************************************************)
EXTENDS Integers, Sequences, FiniteSets, SequencesExt

CONSTANTS
    Scenes,             \* the scenes, alive throughout
    Components,
    Priorities,         \* the lifecycle priorities callers choose from
    CapabilityChoices,  \* the sets of stages a component may take part in
    RevisionModulus,    \* 2^64 in the code: revisions count modulo this
    MaxFixedSteps,      \* bound: fixed steps due in one pass
    MaxEdits,           \* bound: calls of the scene API in a behaviour
    AllocMayFail,       \* malloc of the pending-start snapshot may fail
    NoScene, NoComponent

Stages == {"fixed_update", "update", "late_update"}
Modes == {"Game", "Editor"}

ASSUME SchedulerAssumption ==
    /\ IsFiniteSet(Scenes) /\ NoScene \notin Scenes
    /\ IsFiniteSet(Components) /\ NoComponent \notin Components
    /\ 0 \in Priorities /\ Priorities \subseteq Int
    /\ CapabilityChoices \subseteq SUBSET Stages /\ {} \in CapabilityChoices
    /\ RevisionModulus \in Nat /\ RevisionModulus > 1
    /\ MaxFixedSteps \in Nat /\ MaxEdits \in Nat
    /\ AllocMayFail \in BOOLEAN

VARIABLES
    home,               \* lifecycle_scene of a component
    order,              \* its lifecycle_registration_order, 0 when unregistered
    enabled, inEditor,  \* enabled, active_in_editor
    entityOn,           \* component_entity_enabled of its owner
    started,            \* _started
    caps, priority,     \* has_update..., lifecycle_priorities
    alive,              \* the components not deleted
    pending,            \* pending_starts of a scene
    schedule,           \* its update_list, fixed_update_list, late_update_list
    revision, processed,    \* pending_start_revision, ..._processed_revision
    nextOrder,          \* next_lifecycle_registration_order
    pass,               \* the update in progress
    sweep,              \* history of the walk of one list, see SweepReachesAll
    edits               \* history: calls of the scene API so far

component == <<home, order, enabled, inEditor, entityOn, started, caps, priority, alive>>
scene == <<pending, schedule, revision, processed, nextOrder>>
vars == <<component, scene, pass, sweep, edits>>

Idle == [scene |-> NoScene, mode |-> "Game", stage |-> "idle", snapshot |-> <<>>,
         index |-> 1, fixedLeft |-> 0, call |-> NoComponent]

NoSweep == [steady |-> {}, called |-> {}, shifted |-> FALSE]

(* A component as tc_component_init leaves it, attached to nothing. *)
Init ==
    /\ home = [c \in Components |-> NoScene]
    /\ order = [c \in Components |-> 0]
    /\ enabled = [c \in Components |-> TRUE]
    /\ inEditor = [c \in Components |-> FALSE]
    /\ entityOn = [c \in Components |-> TRUE]
    /\ started = [c \in Components |-> FALSE]
    /\ caps \in [Components -> CapabilityChoices]
    /\ priority = [c \in Components |-> [s \in Stages |-> 0]]
    /\ alive = Components
    /\ pending = [s \in Scenes |-> <<>>]
    /\ schedule = [s \in Scenes |-> [g \in Stages |-> <<>>]]
    /\ revision = [s \in Scenes |-> 0]
    /\ processed = [s \in Scenes |-> [m \in Modes |-> 0]]
    /\ nextOrder = [s \in Scenes |-> 0]
    /\ pass = Idle
    /\ sweep = NoSweep
    /\ edits = 0

-----------------------------------------------------------------------------
(* The lists. *)

(* A plausible bug: a component goes behind all others of its priority    *)
(* whatever its registration order.                                        *)
MutantInserted(list, c, ord, pri) ==
    LET i == SelectInSeq(list, LAMBDA e : pri[e] < pri[c])
    IN  IF i = 0 THEN Append(list, c) ELSE InsertAt(list, i, c)

(* list_insert_lifecycle_priority: before the first component of lower     *)
(* priority, or of the same priority and a later registration.             *)
Inserted(list, c, ord, pri) ==
    LET i == SelectInSeq(list, LAMBDA e : \/ pri[e] < pri[c]
                                          \/ pri[e] = pri[c] /\ ord[e] > ord[c])
    IN  IF i = 0 THEN Append(list, c) ELSE InsertAt(list, i, c)

(* list_set_lifecycle_membership *)
Membership(list, c, present, ord, pri) ==
    IF present /\ ~Contains(list, c) THEN Inserted(list, c, ord, pri)
    ELSE IF ~present THEN RemoveFirst(list, c)
    ELSE list

StagePriority(pri, g) == [c \in Components |-> pri[c][g]]

(* Every list of scene s once component c takes part in the stages present. *)
Reindexed(s, c, present, ord) ==
    [g \in Stages |-> Membership(schedule[s][g], c, g \in present, ord,
                                 StagePriority(priority, g))]

-----------------------------------------------------------------------------
(* What a pass calls. *)

Startable(m, c) == enabled[c] /\ (m = "Editor" => inEditor[c])
Due(c) == Startable(pass.mode, c) /\ entityOn[c]

(* The list the pass walks: a copy in the start phase, the live one else. *)
Walked == IF pass.stage = "start" THEN pass.snapshot ELSE schedule[pass.scene][pass.stage]

(* A plausible bug: the snapshot is trusted, a component that has left the *)
(* queue since is started all the same.                                    *)
MutantWanted(c) == IF pass.stage = "start" THEN Startable(pass.mode, c) ELSE Due(c)

Wanted(c) ==
    IF pass.stage = "start"
    THEN Contains(pending[pass.scene], c) /\ Startable(pass.mode, c)
    ELSE Due(c)

NextIndex == SelectInSubSeq(Walked, pass.index, Len(Walked), Wanted)

(* The walked list up to the component being called. *)
WalkedSoFar == SubSeq(Walked, 1, IF pass.index < Len(Walked) THEN pass.index ELSE Len(Walked))

(* Code that may use the scene API is running: the host between updates,   *)
(* the callback of a component, or the update hook of a scene extension.    *)
CodeRuns == pass.stage \in {"idle", "extensions"} \/ pass.call # NoComponent

-----------------------------------------------------------------------------
(* tc_scene_mark_component_startability_changed.  A revision that wraps    *)
(* round restarts at 1 and forgets what the passes had processed.           *)

(* A plausible bug: the processed revisions survive the wrap. *)
MutantForgetsOnWrap(s) == UNCHANGED processed

ForgetsOnWrap(s) ==
    processed' = IF revision[s] + 1 = RevisionModulus
                 THEN [processed EXCEPT ![s] = [m \in Modes |-> 0]]
                 ELSE processed

(* A plausible bug: the revision is not an integer of fixed width. *)
MutantNextRevision(r) == r + 1

NextRevision(r) == IF r + 1 = RevisionModulus THEN 1 ELSE r + 1

MarkStartability(s) ==
    /\ revision' = [revision EXCEPT ![s] = NextRevision(@)]
    /\ ForgetsOnWrap(s)

Unmarked == UNCHANGED <<revision, processed>>

(* History: what a call of the API does to the walk in progress. *)
SweepNotices ==
    sweep' = IF pass.stage \notin Stages THEN sweep
             ELSE [sweep EXCEPT
                     !.steady = {c \in @ : Due(c)' /\ Contains(Walked', c)},
                     !.shifted = @ \/ WalkedSoFar' # WalkedSoFar]

Edit ==
    /\ CodeRuns
    /\ edits < MaxEdits
    /\ edits' = edits + 1
    /\ UNCHANGED pass

-----------------------------------------------------------------------------
(* The API of the scene and of its components. *)

(* A plausible bug: a component started before is queued again. *)
MutantQueuesAgain(s, c) == ~Contains(pending[s], c)

(* A plausible bug: a component that waits already is queued twice. *)
MutantQueuesTwice(s, c) == ~started[c]

Queues(s, c) == ~started[c] /\ ~Contains(pending[s], c)

(* tc_scene_register_component.  A component of another scene is refused.  *)
Register(s, c) ==
    /\ Edit
    /\ c \in alive
    /\ home[c] \in {NoScene, s}
    /\ home' = [home EXCEPT ![c] = s]
    /\ IF order[c] = 0
       THEN /\ nextOrder' = [nextOrder EXCEPT ![s] = @ + 1]
            /\ order' = [order EXCEPT ![c] = nextOrder[s] + 1]
       ELSE UNCHANGED <<nextOrder, order>>
    /\ IF Queues(s, c)
       THEN /\ pending' = [pending EXCEPT ![s] = Append(@, c)]
            /\ MarkStartability(s)
       ELSE UNCHANGED pending /\ Unmarked
    /\ schedule' = [schedule EXCEPT ![s] =
                      [g \in Stages |-> IF g \in caps[c] THEN Reindexed(s, c, caps[c], order')[g]
                                        ELSE @[g]]]
    /\ UNCHANGED <<enabled, inEditor, entityOn, started, caps, priority, alive>>
    /\ SweepNotices

(* tc_scene_unregister_component.  The owner may have held the last        *)
(* reference: then tc_entity_pool_remove_component deletes the component.   *)
Unregister(s, c, deletes) ==
    /\ Edit
    /\ c \in alive
    /\ home[c] = s
    /\ home' = [home EXCEPT ![c] = NoScene]
    /\ order' = [order EXCEPT ![c] = 0]
    /\ pending' = [pending EXCEPT ![s] = RemoveFirst(@, c)]
    /\ schedule' = [schedule EXCEPT ![s] = Reindexed(s, c, {}, order)]
    /\ alive' = IF deletes THEN alive \ {c} ELSE alive
    /\ Unmarked
    /\ UNCHANGED <<enabled, inEditor, entityOn, started, caps, priority, nextOrder>>
    /\ SweepNotices

MarkHome(c) == IF home[c] = NoScene THEN Unmarked ELSE MarkStartability(home[c])

(* A plausible bug: a change of enabled wakes no pass. *)
MutantSetEnabled(c) ==
    /\ Edit
    /\ c \in alive
    /\ enabled' = [enabled EXCEPT ![c] = ~@]
    /\ Unmarked
    /\ UNCHANGED <<home, order, inEditor, entityOn, started, caps, priority, alive>>
    /\ UNCHANGED <<pending, schedule, nextOrder>>
    /\ SweepNotices

(* tc_component_set_enabled, with a value that changes something *)
SetEnabled(c) ==
    /\ Edit
    /\ c \in alive
    /\ enabled' = [enabled EXCEPT ![c] = ~@]
    /\ MarkHome(c)
    /\ UNCHANGED <<home, order, inEditor, entityOn, started, caps, priority, alive>>
    /\ UNCHANGED <<pending, schedule, nextOrder>>
    /\ SweepNotices

SetActiveInEditor(c) ==
    /\ Edit
    /\ c \in alive
    /\ inEditor' = [inEditor EXCEPT ![c] = ~@]
    /\ MarkHome(c)
    /\ UNCHANGED <<home, order, enabled, entityOn, started, caps, priority, alive>>
    /\ UNCHANGED <<pending, schedule, nextOrder>>
    /\ SweepNotices

(* The entity that owns the component is enabled or disabled. *)
SetEntityEnabled(c) ==
    /\ Edit
    /\ c \in alive
    /\ entityOn' = [entityOn EXCEPT ![c] = ~@]
    /\ Unmarked
    /\ UNCHANGED <<home, order, enabled, inEditor, started, caps, priority, alive>>
    /\ UNCHANGED <<pending, schedule, nextOrder>>
    /\ SweepNotices

(* tc_component_set_lifecycle_capabilities *)
SetCapabilities(c, stages) ==
    /\ Edit
    /\ c \in alive
    /\ caps' = [caps EXCEPT ![c] = stages]
    /\ schedule' = IF home[c] = NoScene THEN schedule
                   ELSE [schedule EXCEPT ![home[c]] = Reindexed(home[c], c, stages, order)]
    /\ Unmarked
    /\ UNCHANGED <<home, order, enabled, inEditor, entityOn, started, priority, alive>>
    /\ UNCHANGED <<pending, nextOrder>>
    /\ SweepNotices

(* tc_component_set_lifecycle_priority *)
SetPriority(c, g, p) ==
    /\ Edit
    /\ c \in alive
    /\ priority[c][g] # p
    /\ priority' = [priority EXCEPT ![c][g] = p]
    /\ schedule' = IF home[c] # NoScene /\ g \in caps[c] /\ Contains(schedule[home[c]][g], c)
                   THEN [schedule EXCEPT ![home[c]][g] =
                           Inserted(RemoveFirst(@, c), c, order, StagePriority(priority', g))]
                   ELSE schedule
    /\ Unmarked
    /\ UNCHANGED <<home, order, enabled, inEditor, entityOn, started, caps, alive>>
    /\ UNCHANGED <<pending, nextOrder>>
    /\ SweepNotices

Edits ==
    \E c \in Components :
        \/ \E s \in Scenes : Register(s, c) \/ \E deletes \in BOOLEAN : Unregister(s, c, deletes)
        \/ SetEnabled(c) \/ SetActiveInEditor(c) \/ SetEntityEnabled(c)
        \/ \E stages \in CapabilityChoices : SetCapabilities(c, stages)
        \/ \E g \in Stages, p \in Priorities : SetPriority(c, g, p)

-----------------------------------------------------------------------------
(* tc_scene_update (mode Game) and tc_scene_editor_update (mode Editor). *)

(* process_pending_start up to its loop.  The revision is taken before the *)
(* callbacks, so that what they change wakes the next pass.                *)
BeginUpdate(s, m) ==
    /\ pass.stage = "idle"
    /\ pass' = [Idle EXCEPT !.scene = s, !.mode = m, !.stage = "start",
                            !.snapshot = IF processed[s][m] = revision[s] THEN <<>> ELSE pending[s]]
    /\ processed' = [processed EXCEPT ![s][m] = revision[s]]
    /\ UNCHANGED <<component, pending, schedule, revision, nextOrder, sweep, edits>>

(* No memory for the snapshot: nothing starts, and nothing counts as processed. *)
BeginUpdateNoMemory(s, m) ==
    /\ AllocMayFail
    /\ pass.stage = "idle"
    /\ processed[s][m] # revision[s] /\ pending[s] # <<>>
    /\ pass' = [Idle EXCEPT !.scene = s, !.mode = m, !.stage = "start"]
    /\ UNCHANGED <<component, scene, sweep, edits>>

(* The next component to call, in the start phase or in a stage. *)
Call ==
    /\ pass.stage \in Stages \cup {"start"}
    /\ pass.call = NoComponent
    /\ NextIndex # 0
    /\ pass' = [pass EXCEPT !.index = NextIndex, !.call = Walked[NextIndex]]
    /\ sweep' = [sweep EXCEPT !.called = IF pass.stage = "start" THEN @ ELSE @ \cup {Walked[NextIndex]}]
    /\ UNCHANGED <<component, scene, edits>>

(* tc_component_start has returned.  The write of _started to a component  *)
(* that was deleted meanwhile falls on freed memory and changes nothing here. *)
StartReturns ==
    /\ pass.stage = "start"
    /\ pass.call # NoComponent
    /\ started' = [started EXCEPT ![pass.call] = @ \/ pass.call \in alive]
    /\ pending' = [pending EXCEPT ![pass.scene] = RemoveFirst(@, pass.call)]
    /\ pass' = [pass EXCEPT !.index = @ + 1, !.call = NoComponent]
    /\ UNCHANGED <<home, order, enabled, inEditor, entityOn, caps, priority, alive>>
    /\ UNCHANGED <<schedule, revision, processed, nextOrder, sweep, edits>>

StageReturns ==
    /\ pass.stage \in Stages
    /\ pass.call # NoComponent
    /\ pass' = [pass EXCEPT !.index = @ + 1, !.call = NoComponent]
    /\ UNCHANGED <<component, scene, sweep, edits>>

(* A plausible bug: the index of the last walk is not reset. *)
MutantEnter(g, fixedLeft) ==
    /\ pass' = [pass EXCEPT !.stage = g, !.snapshot = <<>>, !.fixedLeft = fixedLeft]
    /\ sweep' = [NoSweep EXCEPT !.steady = {c \in ToSet(schedule[pass.scene][g]) : Due(c)}]
    /\ UNCHANGED <<component, scene, edits>>

(* The pass turns to a stage of its scene. *)
Enter(g, fixedLeft) ==
    /\ pass' = [pass EXCEPT !.stage = g, !.snapshot = <<>>, !.index = 1, !.fixedLeft = fixedLeft]
    /\ sweep' = [NoSweep EXCEPT !.steady = {c \in ToSet(schedule[pass.scene][g]) : Due(c)}]
    /\ UNCHANGED <<component, scene, edits>>

WalkedOut == pass.call = NoComponent /\ NextIndex = 0

(* accumulated_time now holds due whole fixed steps. *)
StartDone(due) ==
    /\ pass.stage = "start" /\ WalkedOut
    /\ IF due = 0 THEN Enter("update", 0) ELSE Enter("fixed_update", due - 1)

FixedUpdateDone ==
    /\ pass.stage = "fixed_update" /\ WalkedOut
    /\ IF pass.fixedLeft = 0 THEN Enter("update", 0) ELSE Enter("fixed_update", pass.fixedLeft - 1)

UpdateDone ==
    /\ pass.stage = "update" /\ WalkedOut
    /\ pass' = [pass EXCEPT !.stage = "extensions", !.index = 1]
    /\ sweep' = NoSweep
    /\ UNCHANGED <<component, scene, edits>>

(* tc_scene_ext_on_scene_update has called the extensions. *)
ExtensionsDone ==
    /\ pass.stage = "extensions"
    /\ Enter("late_update", 0)

LateUpdateDone ==
    /\ pass.stage = "late_update" /\ WalkedOut
    /\ pass' = Idle
    /\ sweep' = NoSweep
    /\ UNCHANGED <<component, scene, edits>>

PassStep ==
    \/ Call
    \/ StartReturns
    \/ StageReturns
    \/ \E due \in 0 .. MaxFixedSteps : StartDone(due)
    \/ FixedUpdateDone
    \/ UpdateDone
    \/ ExtensionsDone
    \/ LateUpdateDone

Next ==
    \/ Edits
    \/ \E s \in Scenes, m \in Modes : BeginUpdate(s, m) \/ BeginUpdateNoMemory(s, m)
    \/ PassStep

Spec == Init /\ [][Next]_vars

(* Callbacks return, and the host goes on updating every scene in play:    *)
(* SceneManager::tick updates them all.  An update is impossible during    *)
(* another one, hence strong fairness.                                     *)
FairSpec ==
    /\ Spec
    /\ WF_vars(PassStep)
    /\ \A s \in Scenes : SF_vars(BeginUpdate(s, "Game"))

-----------------------------------------------------------------------------
(* Properties. *)

(* Every variable ranges over what the code can store in it. *)
TypeOK ==
    /\ home \in [Components -> Scenes \cup {NoScene}]
    /\ order \in [Components -> Nat]
    /\ enabled \in [Components -> BOOLEAN] /\ inEditor \in [Components -> BOOLEAN]
    /\ entityOn \in [Components -> BOOLEAN] /\ started \in [Components -> BOOLEAN]
    /\ caps \in [Components -> SUBSET Stages]
    /\ priority \in [Components -> [Stages -> Priorities]]
    /\ alive \subseteq Components
    /\ pending \in [Scenes -> Seq(Components)]
    /\ schedule \in [Scenes -> [Stages -> Seq(Components)]]
    /\ revision \in [Scenes -> 0 .. RevisionModulus - 1]
    /\ processed \in [Scenes -> [Modes -> 0 .. RevisionModulus - 1]]
    /\ nextOrder \in [Scenes -> Nat]
    /\ pass \in [scene : Scenes \cup {NoScene}, mode : Modes,
                 stage : Stages \cup {"idle", "start", "extensions"},
                 snapshot : Seq(Components), index : Nat \ {0},
                 fixedLeft : Nat, call : Components \cup {NoComponent}]
    /\ sweep \in [steady : SUBSET Components, called : SUBSET Components, shifted : BOOLEAN]
    /\ edits \in 0 .. MaxEdits

Before(g, c, d) ==
    \/ priority[c][g] > priority[d][g]
    \/ priority[c][g] = priority[d][g] /\ order[c] < order[d]

(* The lists of a scene hold exactly the components registered with it     *)
(* that take part in the stage, each once, in the order of priority and    *)
(* then of registration, whatever sequence of registrations, changes of    *)
(* capability and of priority, moves between scenes and deletions led here. *)
SchedulesExact ==
    \A s \in Scenes, g \in Stages :
        LET list == schedule[s][g]
        IN  /\ ToSet(list) = {c \in Components : home[c] = s /\ g \in caps[c]}
            /\ \A i, j \in 1 .. Len(list) : i < j => Before(g, list[i], list[j])

(* The queue of a scene holds components registered with it, each once,    *)
(* and every one of them that was not started.                             *)
PendingExact ==
    \A s \in Scenes :
        /\ IsInjective(pending[s])
        /\ ToSet(pending[s]) \subseteq {c \in Components : home[c] = s}
        /\ {c \in Components : home[c] = s /\ ~started[c]} \subseteq ToSet(pending[s])

(* The snapshot of the start phase still to be looked at. *)
ToStart(s, m) ==
    IF pass.stage = "start" /\ pass.scene = s /\ pass.mode = m
    THEN {pass.snapshot[i] : i \in pass.index .. Len(pass.snapshot)}
    ELSE {}

(* A revision is marked processed only when no component that could start  *)
(* is left in the queue: the shortcut that makes a steady state free never *)
(* forgets one, across edits from callbacks, the two modes that share one  *)
(* queue, failed allocations and the wrap of the revision.                 *)
NoForgottenStart ==
    \A s \in Scenes, m \in Modes :
        processed[s][m] = revision[s] =>
            {c \in ToSet(pending[s]) : Startable(m, c)} \subseteq ToStart(s, m)

Begins(c) == pass.call = NoComponent /\ pass'.call = c

(* A callback is made only on a live component registered with the scene   *)
(* of the pass, enabled, meant for the mode and, outside the start phase,  *)
(* of an enabled entity and for a stage it takes part in: whatever an      *)
(* earlier callback of the same pass removed, disabled or deleted is not    *)
(* called any more.                                                         *)
CallsAreJustified ==
    [][\A c \in Components : Begins(c) =>
          /\ c \in alive /\ home[c] = pass.scene
          /\ enabled[c] /\ (pass.mode = "Editor" => inEditor[c])
          /\ pass.stage # "start" => entityOn[c] /\ pass.stage \in caps[c]]_vars

(* A component is started once in its life. *)
StartsOnce == [][\A c \in Components : Begins(c) /\ pass.stage = "start" => ~started[c]]_vars

(* As long as callbacks leave alone the part of the list up to the         *)
(* component being called, a walk calls every component that stayed due    *)
(* all along, and none twice: changes further down the list, disabling     *)
(* and enabling included, lose nobody.                                     *)
SweepReachesAll ==
    [][pass.stage \in Stages /\ ~sweep.shifted =>
          /\ WalkedOut /\ pass' # pass => sweep.steady \subseteq sweep.called
          /\ \A c \in Components : Begins(c) => c \notin sweep.called]_vars

(* tc_component_start writes _started to a component that still exists:    *)
(* the docs call removal from a callback safe.                             *)
StartedIsWrittenToTheLiving ==
    [][pass.stage = "start" /\ pass.call # NoComponent /\ pass'.call = NoComponent
          => pass.call \in alive]_vars

(* A component enabled in a scene that is played is started in the end. *)
EventuallyStarted ==
    \A s \in Scenes, c \in Components :
        home[c] = s /\ enabled[c] /\ ~started[c] ~> started[c] \/ home[c] # s \/ ~enabled[c]
=============================================================================
