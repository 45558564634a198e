------------------------ MODULE ModuleRuntime_proofs ------------------------
(***************************************************************************)
(* Proofs about the module runtime for any set of modules, any kinds of    *)
(* them and any descriptors.                                               *)
(***************************************************************************)
EXTENDS ModuleRuntime, ListLemmas, FiniteSetTheorems

-----------------------------------------------------------------------------
(* The operation under way. *)

Operations ==
    [name : {"none", "load", "load_all", "unload", "reload", "rebuild", "shutdown"},
     mode : {"none", "load", "unload", "gate", "restore", "clean", "build", "teardown"},
     plan : Seq(Modules), all : Seq(Modules)]

Names == {"none", "load", "load_all", "unload", "reload", "rebuild", "shutdown"}
Modes == {"none", "load", "unload", "gate", "restore", "clean", "build", "teardown"}

\* What is known of a record put together from its fields.
LEMMA OperationFacts ==
    ASSUME NEW name \in Names, NEW mode \in Modes,
           NEW plan \in Seq(Modules), NEW all \in Seq(Modules)
    PROVE  /\ Operation(name, mode, plan, all) \in Operations
           /\ Operation(name, mode, plan, all).name = name
           /\ Operation(name, mode, plan, all).mode = mode
           /\ Operation(name, mode, plan, all).plan = plan
           /\ Operation(name, mode, plan, all).all = all
  BY DEF Operation, Operations, Names, Modes

\* The idle operation.
LEMMA IdleFacts ==
    /\ Idle \in Operations
    /\ Idle.name = "none" /\ Idle.mode = "none" /\ Idle.plan = <<>> /\ Idle.all = <<>>
  BY DEF Idle, Operations

\* The fields of an operation.
LEMMA FieldFacts ==
    ASSUME NEW o \in Operations
    PROVE  /\ o.name \in {"none", "load", "load_all", "unload", "reload", "rebuild", "shutdown"}
           /\ o.mode \in {"none", "load", "unload", "gate", "restore", "clean", "build", "teardown"}
           /\ o.plan \in Seq(Modules) /\ o.all \in Seq(Modules)
           /\ Len(o.plan) \in Nat /\ Len(o.all) \in Nat
  BY DEF Operations

Turned(o, mode) == [o EXCEPT !.mode = mode]
Replanned(o, mode, plan) == [o EXCEPT !.mode = mode, !.plan = plan]

\* An operation that goes on in another mode.
LEMMA TurnedFacts ==
    ASSUME NEW o \in Operations, NEW mode \in Modes
    PROVE  /\ Turned(o, mode) \in Operations
           /\ Turned(o, mode).name = o.name
           /\ Turned(o, mode).mode = mode
           /\ Turned(o, mode).plan = o.plan
           /\ Turned(o, mode).all = o.all
  BY DEF Operations, Modes, Turned

\* An operation that goes on in another mode and with another plan.
LEMMA ReplannedFacts ==
    ASSUME NEW o \in Operations, NEW mode \in Modes, NEW plan \in Seq(Modules)
    PROVE  /\ Replanned(o, mode, plan) \in Operations
           /\ Replanned(o, mode, plan).name = o.name
           /\ Replanned(o, mode, plan).mode = mode
           /\ Replanned(o, mode, plan).plan = plan
           /\ Replanned(o, mode, plan).all = o.all
  BY DEF Operations, Modes, Replanned

\* How an operation goes on: it ends, treats the next module of its plan, goes
\* through its plan again in another way, or comes to what it does last.
Continues(ok, o) ==
    \/ o = Idle
    \/ /\ o.name = op.name /\ o.all = op.all
       /\ \/ /\ Len(op.plan) > 1 /\ o.plan = Tail(op.plan)
             /\ \/ op.name = "load_all" /\ o.mode = "load"
                \/ op.name = "shutdown" /\ o.mode = "unload"
                \/ ok /\ op.name = "reload" /\ op.mode = "unload" /\ o.mode = "unload"
                \/ ok /\ op.name = "reload" /\ op.mode = "restore" /\ o.mode = "load"
          \/ /\ ok /\ o.plan = op.plan
             /\ \/ op.name = "reload" /\ op.mode = "load" /\ o.mode = "restore"
                \/ op.name = "rebuild" /\ o.mode = "clean"
          \/ ok /\ op.name = "reload" /\ op.mode = "unload" /\ o.plan = op.all /\ o.mode = "gate"
          \/ op.name = "shutdown" /\ o.plan = <<>> /\ o.mode = "teardown"

\* Advanced takes the head off the plan, or ends the pass.
LEMMA AdvancedFacts ==
    ASSUME op \in Operations, NEW last \in Operations,
           NEW mode \in {"load", "unload"}
    PROVE  /\ Advanced(mode, last) \in Operations
           /\ \/ /\ Len(op.plan) > 1
                 /\ Advanced(mode, last).plan = Tail(op.plan)
                 /\ Advanced(mode, last).name = op.name
                 /\ Advanced(mode, last).all = op.all
                 /\ Advanced(mode, last).mode = mode
              \/ Advanced(mode, last) = last
  <1>1. Len(op.plan) > 1 => Tail(op.plan) \in Seq(Modules)
    BY FieldFacts
  <1>2. Advanced(mode, last) = IF Len(op.plan) > 1 THEN Replanned(op, mode, Tail(op.plan)) ELSE last
    BY DEF Advanced, Replanned
  <1>3. mode \in Modes
    BY DEF Modes
  <1> DEFINE rest == Tail(op.plan)
             next == Replanned(op, mode, rest)
  <1> HIDE DEF rest
  <1>4. Len(op.plan) > 1 => rest \in Seq(Modules)
    BY <1>1 DEF rest
  <1>5. ASSUME Len(op.plan) > 1
        PROVE  /\ next \in Operations /\ next.name = op.name /\ next.mode = mode
               /\ next.plan = rest /\ next.all = op.all
    BY <1>3, <1>4, <1>5, ReplannedFacts
  <1> HIDE DEF next
  <1> QED
    BY <1>2, <1>5 DEF next, rest

\* The cases of Continued.
LEMMA ContinuedFacts ==
    ASSUME op \in Operations, NEW ok \in BOOLEAN
    PROVE  Continued(ok) \in Operations /\ Continues(ok, Continued(ok))
  <1> DEFINE nothing == <<>>
             everything == op.all
             done == Replanned(op, "teardown", nothing)
             gate == Replanned(op, "gate", everything)
             restore == Turned(op, "restore")
             clean == Turned(op, "clean")
             C == Continued(ok)
  <1>0. {"teardown", "gate", "restore", "clean"} \subseteq Modes
    BY DEF Modes
  <1>1. nothing \in Seq(Modules) /\ everything \in Seq(Modules)
    BY FieldFacts
  <1> HIDE DEF nothing, everything
  <1>2. /\ done \in Operations /\ done.name = op.name /\ done.all = op.all
        /\ done.plan = nothing /\ done.mode = "teardown"
    BY <1>0, <1>1, ReplannedFacts
  <1>3. /\ gate \in Operations /\ gate.name = op.name /\ gate.all = op.all
        /\ gate.plan = everything /\ gate.mode = "gate"
    BY <1>0, <1>1, ReplannedFacts
  <1>4. /\ restore \in Operations /\ restore.name = op.name /\ restore.all = op.all
        /\ restore.plan = op.plan /\ restore.mode = "restore"
    BY <1>0, <1>1, TurnedFacts
  <1>5. /\ clean \in Operations /\ clean.name = op.name /\ clean.all = op.all
        /\ clean.plan = op.plan /\ clean.mode = "clean"
    BY <1>0, <1>1, TurnedFacts
  <1>6. /\ op.name = "load_all" => C = Advanced("load", Idle)
        /\ op.name = "shutdown" => C = Advanced("unload", done)
        /\ op.name = "reload" /\ ok /\ op.mode = "unload" => C = Advanced("unload", gate)
        /\ op.name = "reload" /\ ok /\ op.mode = "load" => C = restore
        /\ op.name = "reload" /\ ok /\ op.mode = "restore" => C = Advanced("load", Idle)
        /\ op.name = "rebuild" /\ ok => C = clean
        /\ ~ (\/ op.name = "load_all" \/ op.name = "shutdown"
              \/ op.name = "reload" /\ ok /\ op.mode \in {"unload", "load", "restore"}
              \/ op.name = "rebuild" /\ ok) => C = Idle
    BY DEF Continued, Turned, Replanned, nothing, everything
  <1> HIDE DEF done, gate, restore, clean, C
  <1>7. /\ Advanced("load", Idle) \in Operations
        /\ Advanced("unload", done) \in Operations
        /\ Advanced("unload", gate) \in Operations
    BY <1>2, <1>3, AdvancedFacts, IdleFacts
  <1>8. C \in Operations
    BY <1>4, <1>5, <1>6, <1>7, IdleFacts
  <1>9. Continues(ok, C)
    <2>1. CASE op.name = "load_all"
      BY <1>6, <2>1, AdvancedFacts, IdleFacts DEF Continues
    <2>2. CASE op.name = "shutdown"
      BY <1>2, <1>6, <2>2, AdvancedFacts DEF Continues, nothing
    <2>3. CASE op.name = "reload" /\ ok /\ op.mode = "unload"
      BY <1>3, <1>6, <2>3, AdvancedFacts DEF Continues, everything
    <2>4. CASE op.name = "reload" /\ ok /\ op.mode = "load"
      BY <1>4, <1>6, <2>4 DEF Continues
    <2>5. CASE op.name = "reload" /\ ok /\ op.mode = "restore"
      BY <1>6, <2>5, AdvancedFacts, IdleFacts DEF Continues
    <2>6. CASE op.name = "rebuild" /\ ok
      BY <1>5, <1>6, <2>6 DEF Continues
    <2> QED
      BY <1>6, <2>1, <2>2, <2>3, <2>4, <2>5, <2>6 DEF Continues
  <1> QED
    BY <1>8, <1>9 DEF C

-----------------------------------------------------------------------------
(* Plans. *)

\* An order of modules names modules, each once.
LEMMA LinearizationFacts ==
    ASSUME NEW S \in SUBSET Modules, NEW g, NEW s \in Linearizations(S, g)
    PROVE  s \in Seq(Modules) /\ IsInjective(s)
  <1>1. IsFiniteSet(S) /\ Cardinality(S) \in Nat
    BY ModuleRuntimeAssumption, FS_Subset, FS_CardinalityType
  <1>2. /\ s \in [1..Cardinality(S) -> S]
        /\ \A i, j \in 1..Cardinality(S) : i # j => s[i] # s[j]
    BY DEF Linearizations, SetToSeqs
  <1>3. DOMAIN s = 1..Cardinality(S)
    BY <1>2
  <1>4. s \in Seq(Modules)
    <2>1. s \in Seq(S)
      BY <1>1, <1>2, IsASeq
    <2> QED
      BY <2>1, SeqMonotonic
  <1> QED
    BY <1>2, <1>3, <1>4 DEF IsInjective

\* The reverse of a plan is a plan.
LEMMA ReverseIsPlan ==
    ASSUME NEW s \in Seq(Modules)
    PROVE  Reverse(s) \in Seq(Modules)
  <1>1. Len(s) \in Nat
    OBVIOUS
  <1>2. \A i \in 1..Len(s) : (Len(s) - i) + 1 \in 1..Len(s)
    BY <1>1
  <1>3. \A i \in 1..Len(s) : s[i] \in Modules
    OBVIOUS
  <1>4. Reverse(s) \in [1..Len(s) -> Modules]
    BY <1>1, <1>2, <1>3 DEF Reverse
  <1> QED
    BY <1>1, <1>4, IsASeq

\* What is left of a plan.
LEMMA TailFacts ==
    ASSUME NEW s \in Seq(Modules), s # <<>>
    PROVE  /\ Head(s) \in Modules /\ Head(s) = s[1] /\ Len(s) \in Nat \ {0}
           /\ Tail(s) \in Seq(Modules) /\ Len(Tail(s)) = Len(s) - 1
           /\ \A i \in 1..(Len(s) - 1) : Tail(s)[i] = s[i + 1]
           /\ \A i \in 1..Len(s) : s[i] \in Modules
           /\ DOMAIN s = 1..Len(s) /\ DOMAIN Tail(s) = 1..(Len(s) - 1)
           /\ IsInjective(s) => IsInjective(Tail(s))
  <1>1. /\ Head(s) \in Modules /\ Head(s) = s[1] /\ Len(s) \in Nat \ {0}
        /\ Tail(s) \in Seq(Modules) /\ Len(Tail(s)) = Len(s) - 1
        /\ \A i \in 1..(Len(s) - 1) : Tail(s)[i] = s[i + 1]
        /\ \A i \in 1..Len(s) : s[i] \in Modules
    BY HeadTailProperties
  <1>2. DOMAIN s = 1..Len(s) /\ DOMAIN Tail(s) = 1..(Len(s) - 1)
    BY <1>1
  <1>3. ASSUME IsInjective(s) PROVE IsInjective(Tail(s))
    <2> SUFFICES ASSUME NEW i \in 1..(Len(s) - 1), NEW j \in 1..(Len(s) - 1),
                        Tail(s)[i] = Tail(s)[j]
                 PROVE  i = j
      BY <1>2 DEF IsInjective
    <2>1. s[i + 1] = s[j + 1] /\ i + 1 \in 1..Len(s) /\ j + 1 \in 1..Len(s)
      BY <1>1
    <2>2. i + 1 = j + 1
      BY <1>2, <1>3, <2>1 DEF IsInjective
    <2> QED
      BY <2>2
  <1> QED
    BY <1>1, <1>2, <1>3

-----------------------------------------------------------------------------
(* Types. *)

Phases == CleanupPhases \cup {"None", "Prepare"}

\* The types of all variables but op.
RecordTypes ==
    /\ files \in Descriptors
    /\ known \in BOOLEAN
    /\ deps \in [Modules -> SUBSET Modules]
    /\ ignored \in SUBSET Modules
    /\ state \in [Modules -> ModuleStates]
    /\ phase \in [Modules -> Phases]
    /\ handle \in [Modules -> BOOLEAN]
    /\ prepared \in BOOLEAN
    /\ busy \in Modules \cup {NoModule}
    /\ replacing \in BOOLEAN
    /\ mapped \in [Modules -> BOOLEAN]
    /\ stopped \in [Modules -> BOOLEAN]
    /\ contributed \in [Modules -> BOOLEAN]
    /\ built \in [Modules -> BOOLEAN]
    /\ kept \in [Modules -> SUBSET Modules]

\* TypeOK in two parts.
LEMMA TypeParts == TypeOK <=> RecordTypes /\ op \in Operations
  BY DEF TypeOK, RecordTypes, Operations, Phases

\* Every descriptor file names dependencies and ignored modules.
LEMMA DescriptorFacts ==
    ASSUME NEW f \in Descriptors
    PROVE  /\ f.readable \in BOOLEAN
           /\ f.deps \in [Modules -> SUBSET Modules]
           /\ f.ignored \in SUBSET Modules
  BY ModuleRuntimeAssumption

\* At the start everything has its type.
LEMMA InitTypes == Init => TypeOK
  <1> SUFFICES ASSUME Init PROVE RecordTypes /\ op \in Operations
    BY TypeParts
  <1>1. op \in Operations
    BY IdleFacts DEF Init
  <1>2. RecordTypes
    BY DEF Init, RecordTypes, ModuleStates, Phases
  <1> QED
    BY <1>1, <1>2

\* A refresh takes well-formed descriptors.
LEMMA SnapshotTypes ==
    ASSUME RecordTypes, SnapshotTaken
    PROVE  /\ known' \in BOOLEAN
           /\ deps' \in [Modules -> SUBSET Modules]
           /\ ignored' \in SUBSET Modules
           /\ kept' \in [Modules -> SUBSET Modules]
  BY DescriptorFacts DEF RecordTypes, SnapshotTaken

\* What a step does to the records, the backends and the flags keeps their types.
LEMMA RecordTypesStep ==
    ASSUME RecordTypes, [Next]_vars
    PROVE  RecordTypes'
  <1> USE DEF specs, status, backend, call
  <1>1. CASE UNCHANGED vars
    BY <1>1 DEF vars, RecordTypes
  <1>2. CASE EditDescriptors
    BY <1>2 DEF EditDescriptors, RecordTypes
  <1>3. CASE Discover
    BY <1>3, DescriptorFacts DEF Discover, RecordTypes, ModuleStates, Phases
  <1>4. CASE Refresh
    BY <1>4, SnapshotTypes DEF Refresh, RecordTypes
  <1>5. CASE LoadAll
    BY <1>5, SnapshotTypes DEF LoadAll, Begin, RecordTypes
  <1>6. CASE Shutdown
    BY <1>6 DEF Shutdown, Begin, RecordTypes
  <1>7. ASSUME NEW m \in Modules,
               LoadModule(m) \/ UnloadModule(m) \/ ReloadModule(m)
               \/ ReloadModuleWithDependents(m) \/ RebuildModule(m)
        PROVE  RecordTypes'
    BY <1>7, SnapshotTypes
       DEF LoadModule, UnloadModule, ReloadModule, ReloadModuleWithDependents, RebuildModule,
           ExecuteReload, Begin, RecordTypes
  <1>8. ASSUME NEW m \in Modules, Build(m) PROVE RecordTypes'
    <2>1. built' \in [Modules -> BOOLEAN] /\ state' \in [Modules -> ModuleStates]
      BY <1>8 DEF Build, Built, RecordTypes, ModuleStates
    <2> QED
      BY <1>8, <2>1, SnapshotTypes DEF Build, RecordTypes
  <1>9. ASSUME NEW m \in Modules, Clean(m) PROVE RecordTypes'
    <2>1. built' \in [Modules -> BOOLEAN]
      BY <1>9 DEF Clean, RecordTypes
    <2> QED
      BY <1>9, <2>1, SnapshotTypes DEF Clean, RecordTypes
  <1>10. ASSUME NEW m \in Modules,
                AlreadyLoaded(m) \/ RefuseLoad(m) \/ FailLoad(m) \/ Ignore(m) \/ StartLoad(m)
         PROVE  RecordTypes'
    <2>1. CASE AlreadyLoaded(m) \/ RefuseLoad(m)
      BY <2>1 DEF AlreadyLoaded, RefuseLoad, RecordTypes
    <2>2. CASE FailLoad(m)
      BY <2>2 DEF FailLoad, RecordTypes, ModuleStates
    <2>3. CASE Ignore(m)
      BY <2>3 DEF Ignore, RecordTypes, ModuleStates
    <2>4. CASE StartLoad(m)
      BY <2>4 DEF StartLoad, RecordTypes, ModuleStates
    <2> QED
      BY <1>10, <2>1, <2>2, <2>3, <2>4
  <1>11. ASSUME NEW m \in Modules, BackendLoads(m) PROVE RecordTypes'
    BY <1>11 DEF BackendLoads, Built, RecordTypes, ModuleStates
  <1>12. ASSUME NEW m \in Modules, BackendFails(m) PROVE RecordTypes'
    BY <1>12 DEF BackendFails, Built, RecordTypes, ModuleStates
  <1>13. ASSUME NEW m \in Modules, BackendFailsHolding(m) PROVE RecordTypes'
    BY <1>13 DEF BackendFailsHolding, Built, FirstCleanupPhase, RecordTypes, ModuleStates,
                 Phases, CleanupPhases
  <1>14. ASSUME NEW m \in Modules,
                NothingToUnload(m) \/ RefuseUnload(m) \/ PrepareUnload(m)
                \/ PreparationFails(m) \/ StartCleanup(m) \/ ResumeCleanup(m)
         PROVE  RecordTypes'
    <2>1. state' \in [Modules -> ModuleStates]
      BY <1>14 DEF NothingToUnload, RefuseUnload, PrepareUnload, PreparationFails, StartCleanup,
                   ResumeCleanup, RecordTypes, ModuleStates
    <2>2. phase' \in [Modules -> Phases]
      BY <1>14 DEF NothingToUnload, RefuseUnload, PrepareUnload, PreparationFails, StartCleanup,
                   ResumeCleanup, FirstCleanupPhase, RecordTypes, Phases, CleanupPhases
    <2> QED
      BY <1>14, <2>1, <2>2
         DEF NothingToUnload, RefuseUnload, PrepareUnload, PreparationFails, StartCleanup,
             ResumeCleanup, RecordTypes
  <1>15. ASSUME NEW m \in Modules,
                BeginUnload(m) \/ RevokeContributions(m) \/ FinishUnload(m) \/ BackendUnload(m)
         PROVE  RecordTypes'
    <2>1. CASE PhaseDone(m)
      <3>1. phase' \in [Modules -> Phases]
        BY <2>1 DEF PhaseDone, NextPhase, RecordTypes, Phases, CleanupPhases
      <3>2. UNCHANGED <<files, specs, state, handle, prepared, call, built, kept>>
        BY <2>1 DEF PhaseDone
      <3>3. /\ mapped' \in [Modules -> BOOLEAN] /\ stopped' \in [Modules -> BOOLEAN]
            /\ contributed' \in [Modules -> BOOLEAN]
        BY <1>15 DEF BeginUnload, RevokeContributions, FinishUnload, BackendUnload, RecordTypes
      <3> QED
        BY <3>1, <3>2, <3>3 DEF RecordTypes
    <2>2. CASE CleanupFails(m)
      <3>1. state' \in [Modules -> ModuleStates]
        BY <2>2 DEF CleanupFails, RecordTypes, ModuleStates
      <3>2. /\ UNCHANGED <<files, specs, phase, handle, prepared, built, kept>>
            /\ busy' = NoModule /\ replacing' = FALSE
        BY <2>2 DEF CleanupFails
      <3>3. /\ mapped' \in [Modules -> BOOLEAN] /\ stopped' \in [Modules -> BOOLEAN]
            /\ contributed' \in [Modules -> BOOLEAN]
        BY <1>15 DEF BeginUnload, RevokeContributions, FinishUnload, BackendUnload, RecordTypes
      <3> QED
        BY <3>1, <3>2, <3>3 DEF RecordTypes
    <2>3. CASE Unloaded(m)
      <3>1. state' \in [Modules -> ModuleStates] /\ phase' \in [Modules -> Phases]
        BY <2>3 DEF Unloaded, RecordTypes, ModuleStates, Phases
      <3>2. handle' \in [Modules -> BOOLEAN] /\ kept' \in [Modules -> SUBSET Modules]
        BY <2>3 DEF Unloaded, RecordTypes
      <3>3. /\ UNCHANGED <<files, specs, prepared, built>>
            /\ busy' = NoModule /\ replacing' = FALSE
        BY <2>3 DEF Unloaded
      <3>4. /\ mapped' \in [Modules -> BOOLEAN] /\ stopped' \in [Modules -> BOOLEAN]
            /\ contributed' \in [Modules -> BOOLEAN]
        BY <1>15 DEF BeginUnload, RevokeContributions, FinishUnload, BackendUnload, RecordTypes
      <3> QED
        BY <3>1, <3>2, <3>3, <3>4 DEF RecordTypes
    <2> QED
      BY <1>15, <2>1, <2>2, <2>3 DEF BeginUnload, RevokeContributions, FinishUnload, BackendUnload
  <1>16. ASSUME NEW m \in Modules, RestoreSucceeds(m) \/ RestoreFails(m) PROVE RecordTypes'
    BY <1>16 DEF RestoreSucceeds, RestoreFails, RecordTypes, ModuleStates
  <1>17. CASE Gate \/ RebuildStops \/ Teardown
    BY <1>17 DEF Gate, RebuildStops, Teardown, RecordTypes
  <1> QED
    BY <1>1, <1>2, <1>3, <1>4, <1>5, <1>6, <1>7, <1>8, <1>9, <1>10, <1>11, <1>12, <1>13, <1>14,
       <1>15, <1>16, <1>17
       DEF Next, OperationStep, LoadStep, UnloadStep

\* So does what it does to the operation.
LEMMA OperationTypesStep ==
    ASSUME RecordTypes, op \in Operations, [Next]_vars
    PROVE  op' \in Operations
  <1>0. \A ok \in BOOLEAN : Continued(ok) \in Operations
    BY ContinuedFacts
  <1> DEFINE nothing == <<>>
  <1>0a. nothing \in Seq(Modules)
    OBVIOUS
  <1>0b. /\ {"load_all", "shutdown", "load", "unload", "rebuild", "reload"} \subseteq Names
         /\ {"load", "teardown", "unload", "clean"} \subseteq Modes
    BY DEF Names, Modes
  <1>0c. \A name \in Names, mode \in Modes, plan \in Seq(Modules) :
           Operation(name, mode, plan, nothing) \in Operations
    BY <1>0a, OperationFacts
  <1> HIDE DEF nothing
  <1> USE DEF call
  <1>1. CASE UNCHANGED vars
    BY <1>1 DEF vars
  <1>2. CASE EditDescriptors \/ Discover \/ Refresh
    BY <1>2 DEF EditDescriptors, Discover, Refresh
  <1>3. CASE LoadAll
    <2>1. PICK s \in Linearizations(Modules, files.deps) :
            op' = Operation("load_all", "load", s, nothing)
      BY <1>3 DEF nothing, LoadAll, Begin
    <2> QED
      BY <2>1, <1>0b, <1>0c, LinearizationFacts
  <1>4. CASE Shutdown
    <2>1. PICK s \in Linearizations(Holders, deps) :
            op' = IF s = <<>> THEN Operation("shutdown", "teardown", nothing, nothing)
                              ELSE Operation("shutdown", "unload", Reverse(s), nothing)
      BY <1>4 DEF nothing, Shutdown, Begin
    <2>2. Reverse(s) \in Seq(Modules)
      BY LinearizationFacts, ReverseIsPlan DEF Holders
    <2> QED
      BY <2>1, <2>2, <1>0a, <1>0b, <1>0c
  <1>5. ASSUME NEW m \in Modules, NEW s \in Seq(Modules), ExecuteReload(s) PROVE op' \in Operations
    BY <1>5, <1>0b, ReverseIsPlan, OperationFacts DEF ExecuteReload, Begin
  <1>6. ASSUME NEW m \in Modules,
               LoadModule(m) \/ UnloadModule(m) \/ ReloadModule(m)
               \/ ReloadModuleWithDependents(m) \/ RebuildModule(m)
        PROVE  op' \in Operations
    <2>1. <<m>> \in Seq(Modules)
      OBVIOUS
    <2>2. CASE LoadModule(m)
      BY <2>1, <2>2, <1>0b, <1>0c DEF LoadModule, Begin, nothing
    <2>3. CASE UnloadModule(m)
      BY <2>1, <2>3, <1>0b, <1>0c DEF UnloadModule, Begin, nothing
    <2>4. CASE ReloadModule(m)
      BY <2>1, <2>4, <1>5 DEF ReloadModule
    <2>5. CASE ReloadModuleWithDependents(m)
      <3>1. PICK s \in Linearizations(Affected(m, files.deps), files.deps) : ExecuteReload(s)
        BY <2>5 DEF ReloadModuleWithDependents
      <3>2. s \in Seq(Modules)
        BY LinearizationFacts DEF Affected
      <3> QED
        BY <1>5, <3>1, <3>2
    <2>6. CASE RebuildModule(m)
      BY <2>1, <2>6, <1>0b, <1>0c DEF RebuildModule, Begin, nothing
    <2> QED
      BY <1>6, <2>2, <2>3, <2>4, <2>5, <2>6
  <1>7. ASSUME NEW m \in Modules, LoadStep(m) PROVE op' \in Operations
    <2>1. CASE AlreadyLoaded(m) \/ RefuseLoad(m) \/ FailLoad(m) \/ Ignore(m) \/ StartLoad(m)
      BY <2>1, <1>0 DEF AlreadyLoaded, RefuseLoad, FailLoad, Ignore, StartLoad
    <2>2. CASE BackendLoads(m) \/ BackendFails(m) \/ BackendFailsHolding(m)
      BY <2>2, <1>0 DEF BackendLoads, BackendFails, BackendFailsHolding
    <2> QED
      BY <1>7, <2>1, <2>2 DEF LoadStep
  <1>8. ASSUME NEW m \in Modules, UnloadStep(m) PROVE op' \in Operations
    <2>0. (~replacing) \in BOOLEAN
      BY DEF RecordTypes
    <2>1. CASE NothingToUnload(m) \/ RefuseUnload(m) \/ PrepareUnload(m)
               \/ PreparationFails(m) \/ StartCleanup(m) \/ ResumeCleanup(m)
      BY <2>1, <1>0 DEF NothingToUnload, RefuseUnload, PrepareUnload, PreparationFails,
                        StartCleanup, ResumeCleanup
    <2>2. CASE BeginUnload(m) \/ RevokeContributions(m) \/ FinishUnload(m) \/ BackendUnload(m)
      <3>1. PhaseDone(m) \/ CleanupFails(m) \/ Unloaded(m)
        BY <2>2 DEF BeginUnload, RevokeContributions, FinishUnload, BackendUnload
      <3> QED
        BY <3>1, <2>0, <1>0 DEF PhaseDone, CleanupFails, Unloaded
    <2> QED
      BY <1>8, <2>1, <2>2 DEF UnloadStep
  <1>9. ASSUME NEW m \in Modules,
               RestoreSucceeds(m) \/ RestoreFails(m) \/ Build(m) \/ Clean(m)
        PROVE  op' \in Operations
    <2>1. [op EXCEPT !.mode = "build"] \in Operations
      BY TurnedFacts DEF Turned, Modes
    <2> QED
      BY <1>9, <2>1, <1>0, IdleFacts DEF RestoreSucceeds, RestoreFails, Build, Clean
  <1>10. CASE Gate \/ RebuildStops \/ Teardown
    <2>1. [op EXCEPT !.mode = "load"] \in Operations
      BY TurnedFacts DEF Turned, Modes
    <2> QED
      BY <1>10, <2>1, IdleFacts DEF Gate, RebuildStops, Teardown
  <1> QED
    BY <1>1, <1>2, <1>3, <1>4, <1>6, <1>7, <1>8, <1>9, <1>10 DEF Next, OperationStep

\* The variables of the module runtime always have values of their types.
THEOREM TypesCorrect == Spec => []TypeOK
  <1>1. Init => TypeOK
    BY InitTypes
  <1>2. TypeOK /\ [Next]_vars => TypeOK'
    <2> SUFFICES ASSUME TypeOK, [Next]_vars PROVE TypeOK'
      OBVIOUS
    <2>1. RecordTypes /\ op \in Operations
      BY TypeParts
    <2>2. RecordTypes' /\ op' \in Operations
      BY <2>1, RecordTypesStep, OperationTypesStep
    <2>3. TypeOK' <=> RecordTypes' /\ op' \in Operations
      BY DEF TypeOK, RecordTypes, Operations, Phases
    <2> QED
      BY <2>2, <2>3
  <1> QED
    BY <1>1, <1>2, PTL DEF Spec

-----------------------------------------------------------------------------
(* The records. *)

\* CleanupConsistent and two facts a step relies on: a module that is loading
\* has no cleanup behind it, and one that is prepared for unloading is loaded.
RecordsExact ==
    /\ CleanupConsistent
    /\ \A m \in Modules :
         /\ state[m] = "Loading" => phase[m] = "None"
         /\ phase[m] = "Prepare" => handle[m]

\* The operation and the records agree: the busy module is the one the plan
\* has come to, and a reload restores what it has just loaded.
OperationExact ==
    /\ busy # NoModule => op.plan # <<>> /\ busy = Head(op.plan) /\ op.mode \in {"load", "unload"}
    /\ \A m \in Modules : state[m] = "Loading" => op.mode = "load"
    /\ op.mode = "restore" => op.plan # <<>> /\ phase[Head(op.plan)] = "None"
    /\ op.name \in {"none", "shutdown"} => op.mode \in {"none", "unload", "teardown"}

\* Nothing is in progress when no module is busy.
LEMMA QuietRecords ==
    ASSUME RecordTypes, RecordsExact, busy = NoModule, NEW m \in Modules
    PROVE  /\ state[m] \notin {"Loading", "Unloading"} /\ phase[m] # "Prepare"
           /\ state[m] # "CleanupFailed" => phase[m] = "None"
  BY ModuleRuntimeAssumption DEF RecordsExact, CleanupConsistent, RecordTypes, Phases

\* m comes to rest in a state in which nothing is under way.
Settles(m) ==
    /\ busy = NoModule /\ phase[m] = "None"
    /\ \E s \in {"Failed", "Ignored", "Unloaded"} : state' = [state EXCEPT ![m] = s]
    /\ UNCHANGED <<phase, handle, busy, backend, prepared>>

\* New descriptors are read, or not.
Follows == UNCHANGED <<deps, kept>> \/ (SnapshotTaken /\ Refreshable)

\* The steps that leave the records and the backends alone.
Stays ==
    /\ UNCHANGED <<status, busy, backend>>
    /\ prepared' = prepared \/ Holders = {}
    /\ Follows

\* The steps of a load or an unload.
Works(m) ==
    \/ StartLoad(m) \/ BackendLoads(m) \/ BackendFails(m) \/ BackendFailsHolding(m)
    \/ PrepareUnload(m) \/ PreparationFails(m) \/ StartCleanup(m) \/ ResumeCleanup(m)
    \/ BeginUnload(m) \/ RevokeContributions(m) \/ FinishUnload(m) \/ BackendUnload(m)

\* What a step does to the records.
LEMMA StepKinds ==
    ASSUME RecordTypes, op \in Operations, RecordsExact, OperationExact, [Next]_vars
    PROVE  \/ Stays
           \/ Discover
           \/ \E m \in Modules : Settles(m) /\ Follows
           \/ \E m \in Modules : Works(m)
  <1> USE DEF call, specs, status
  <1>1. CASE UNCHANGED vars
    BY <1>1 DEF vars, Stays, Follows
  <1>2. CASE EditDescriptors \/ Refresh
    BY <1>2 DEF EditDescriptors, Refresh, Stays, Follows
  <1>3. CASE LoadAll
    BY <1>3 DEF LoadAll, Begin, Stays, Follows
  <1>4. CASE Shutdown
    BY <1>4 DEF Shutdown, Begin, Stays, Follows
  <1>5. ASSUME NEW m \in Modules,
               LoadModule(m) \/ UnloadModule(m) \/ ReloadModule(m)
               \/ ReloadModuleWithDependents(m) \/ RebuildModule(m)
        PROVE  Stays
    BY <1>5 DEF LoadModule, UnloadModule, ReloadModule, ReloadModuleWithDependents, RebuildModule,
                ExecuteReload, Begin, Stays, Follows
  <1>6. ASSUME NEW m \in Modules, Build(m) PROVE Stays \/ (Settles(m) /\ Follows)
    <2>1. busy = NoModule
      BY <1>6, IdleFacts DEF Build, Turn, OperationExact
    <2>2. Follows
      BY <1>6 DEF Build, Follows
    <2>3. CASE CleanupIncomplete(m)
      BY <1>6, <2>2, <2>3 DEF Build, Stays
    <2>4. CASE ~CleanupIncomplete(m)
      <3>1. phase[m] = "None"
        BY <2>4 DEF CleanupIncomplete
      <3>2. \/ state[m] = "Failed" /\ state' = [state EXCEPT ![m] = "Unloaded"]
            \/ state[m] # "Failed" /\ state' = state
            \/ state' = [state EXCEPT ![m] = "Failed"]
        BY <1>6, <2>4 DEF Build, RecordTypes
      <3>3. UNCHANGED <<phase, handle, busy, backend, prepared>>
        BY <1>6 DEF Build
      <3> QED
        BY <2>1, <2>2, <3>1, <3>2, <3>3 DEF Stays, Settles
    <2> QED
      BY <2>3, <2>4
  <1>7. ASSUME NEW m \in Modules, Clean(m) PROVE Stays
    BY <1>7 DEF Clean, Stays, Follows
  <1>8. ASSUME NEW m \in Modules,
               AlreadyLoaded(m) \/ RefuseLoad(m) \/ RefuseUnload(m) \/ RestoreSucceeds(m)
        PROVE  Stays
    BY <1>8 DEF AlreadyLoaded, RefuseLoad, RefuseUnload, RestoreSucceeds, Stays, Follows
  <1>9. ASSUME NEW m \in Modules, FailLoad(m) \/ Ignore(m) PROVE Settles(m) /\ Follows
    <2>1. busy = NoModule /\ phase[m] = "None"
      BY <1>9 DEF FailLoad, Ignore, Turn, MayLoad, CleanupIncomplete
    <2> QED
      BY <1>9, <2>1 DEF FailLoad, Ignore, Settles, Follows
  <1>10. ASSUME NEW m \in Modules, NothingToUnload(m) PROVE Stays \/ (Settles(m) /\ Follows)
    <2>1. busy = NoModule /\ phase[m] = "None"
      BY <1>10, QuietRecords DEF NothingToUnload, Turn
    <2> QED
      BY <1>10, <2>1 DEF NothingToUnload, Settles, Stays, Follows
  <1>11. ASSUME NEW m \in Modules, RestoreFails(m) PROVE Settles(m) /\ Follows
    <2>1. busy = NoModule /\ phase[m] = "None"
      BY <1>11 DEF RestoreFails, Turn, OperationExact
    <2> QED
      BY <1>11, <2>1 DEF RestoreFails, Settles, Follows
  <1>12. CASE Gate \/ RebuildStops \/ Teardown
    BY <1>12 DEF Gate, RebuildStops, Teardown, Stays, Follows
  <1>13. ASSUME NEW m \in Modules, LoadStep(m) \/ UnloadStep(m)
         PROVE  Stays \/ (Settles(m) /\ Follows) \/ Works(m)
    BY <1>8, <1>9, <1>10, <1>13 DEF LoadStep, UnloadStep, Works
  <1> QED
    BY <1>1, <1>2, <1>3, <1>4, <1>5, <1>6, <1>7, <1>8, <1>11, <1>12, <1>13
       DEF Next, OperationStep

\* One step on m, which is or becomes the busy module, or stops being it.
LEMMA RecordsByOne ==
    ASSUME RecordTypes, RecordTypes', RecordsExact, NEW m \in Modules,
           busy \in {NoModule, m}, busy' \in {NoModule, m},
           \A n \in Modules \ {m} :
              state'[n] = state[n] /\ phase'[n] = phase[n] /\ handle'[n] = handle[n],
           /\ phase'[m] \in CleanupPhases <=> state'[m] \in {"Unloading", "CleanupFailed"}
           /\ phase'[m] \in CleanupPhases => handle'[m]
           /\ phase'[m] \in {"BackendBegin", "RevokeContributions", "BackendFinish"} => m \in Native
           /\ phase'[m] = "BackendUnload" => m \notin Native
           /\ state'[m] = "Loaded" => handle'[m]
           /\ state'[m] = "Loading" => busy' = m /\ ~handle'[m]
           /\ state'[m] = "Unloading" \/ phase'[m] = "Prepare" => busy' = m
           /\ busy' = m => state'[m] \in {"Loading", "Unloading"} \/ phase'[m] = "Prepare",
           state'[m] = "Loading" => phase'[m] = "None",
           phase'[m] = "Prepare" => handle'[m]
    PROVE  RecordsExact'
  <1> SUFFICES ASSUME NEW n \in Modules
               PROVE  /\ phase'[n] \in CleanupPhases <=> state'[n] \in {"Unloading", "CleanupFailed"}
                      /\ phase'[n] \in CleanupPhases => handle'[n]
                      /\ phase'[n] \in {"BackendBegin", "RevokeContributions", "BackendFinish"} =>
                           n \in Native
                      /\ phase'[n] = "BackendUnload" => n \notin Native
                      /\ state'[n] = "Loaded" => handle'[n]
                      /\ state'[n] = "Loading" => busy' = n /\ ~handle'[n]
                      /\ state'[n] = "Unloading" \/ phase'[n] = "Prepare" => busy' = n
                      /\ busy' = n => state'[n] \in {"Loading", "Unloading"} \/ phase'[n] = "Prepare"
                      /\ state'[n] = "Loading" => phase'[n] = "None"
                      /\ phase'[n] = "Prepare" => handle'[n]
    BY DEF RecordsExact, CleanupConsistent
  <1>1. CASE n = m
    BY <1>1
  <1>2. CASE n # m
    <2>1. busy # n /\ busy' # n
      BY <1>2, ModuleRuntimeAssumption
    <2>2. state'[n] = state[n] /\ phase'[n] = phase[n] /\ handle'[n] = handle[n]
      BY <1>2
    <2> QED
      BY <2>1, <2>2 DEF RecordsExact, CleanupConsistent
  <1> QED
    BY <1>1, <1>2

\* What a function says after one of its values has changed.
LEMMA ExceptFacts ==
    ASSUME NEW S, NEW f \in [Modules -> S], NEW m \in Modules, NEW v
    PROVE  /\ [f EXCEPT ![m] = v][m] = v
           /\ \A n \in Modules \ {m} : [f EXCEPT ![m] = v][n] = f[n]
  OBVIOUS

\* Every step keeps the records exact.
LEMMA RecordsStep ==
    ASSUME RecordTypes, RecordTypes', op \in Operations, RecordsExact, OperationExact, [Next]_vars
    PROVE  RecordsExact'
  <1> USE DEF call, specs, status
  <1>1. CASE Stays
    BY <1>1 DEF Stays, RecordsExact, CleanupConsistent
  <1>2. CASE Discover
    <2>1. busy' = NoModule /\ handle' = handle
      BY <1>2, IdleFacts DEF Discover, OperationExact
    <2>2. \A m \in Modules : state'[m] = "Discovered" /\ phase'[m] = "None"
      BY <1>2 DEF Discover
    <2> QED
      BY <2>1, <2>2, ModuleRuntimeAssumption DEF RecordsExact, CleanupConsistent, CleanupPhases
  <1>3. ASSUME NEW m \in Modules, Settles(m) PROVE RecordsExact'
    <2>1. state'[m] \in {"Failed", "Ignored", "Unloaded"} /\ \A n \in Modules \ {m} : state'[n] = state[n]
      BY <1>3 DEF Settles, RecordTypes
    <2>2. busy = NoModule /\ phase[m] = "None" /\ UNCHANGED <<phase, handle, busy>>
      BY <1>3 DEF Settles
    <2> QED
      BY <2>1, <2>2, RecordsByOne, ModuleRuntimeAssumption DEF CleanupPhases
  <1>4. ASSUME NEW m \in Modules, StartLoad(m) PROVE RecordsExact'
    <2>1. /\ busy = NoModule /\ busy' = m /\ UNCHANGED <<phase, handle>>
          /\ phase[m] = "None" /\ ~handle[m]
      BY <1>4 DEF StartLoad, Turn, MayLoad, CleanupIncomplete
    <2>2. state'[m] = "Loading" /\ \A n \in Modules \ {m} : state'[n] = state[n]
      BY <1>4 DEF StartLoad, RecordTypes
    <2> QED
      BY <2>1, <2>2, RecordsByOne DEF CleanupPhases
  <1>5. ASSUME NEW m \in Modules, BackendLoads(m) PROVE RecordsExact'
    <2>1. /\ busy = m /\ busy' = NoModule /\ UNCHANGED phase /\ phase[m] = "None"
      BY <1>5 DEF BackendLoads, Loading, RecordsExact
    <2>2. /\ state'[m] = "Loaded" /\ \A n \in Modules \ {m} : state'[n] = state[n]
          /\ handle'[m] /\ \A n \in Modules \ {m} : handle'[n] = handle[n]
      BY <1>5 DEF BackendLoads, RecordTypes
    <2> QED
      BY <2>1, <2>2, RecordsByOne, ModuleRuntimeAssumption DEF CleanupPhases
  <1>6. ASSUME NEW m \in Modules, BackendFails(m) PROVE RecordsExact'
    <2>1. /\ busy = m /\ busy' = NoModule /\ UNCHANGED <<phase, handle>> /\ phase[m] = "None"
      BY <1>6 DEF BackendFails, Loading, RecordsExact
    <2>2. state'[m] = "Failed" /\ \A n \in Modules \ {m} : state'[n] = state[n]
      BY <1>6 DEF BackendFails, RecordTypes
    <2> QED
      BY <2>1, <2>2, RecordsByOne, ModuleRuntimeAssumption DEF CleanupPhases
  <1>7. ASSUME NEW m \in Modules, BackendFailsHolding(m) PROVE RecordsExact'
    <2>1. busy = m /\ busy' = m
      BY <1>7 DEF BackendFailsHolding, Loading
    <2>2. /\ state'[m] = "Unloading" /\ \A n \in Modules \ {m} : state'[n] = state[n]
          /\ handle'[m] /\ \A n \in Modules \ {m} : handle'[n] = handle[n]
          /\ phase'[m] = FirstCleanupPhase(m) /\ \A n \in Modules \ {m} : phase'[n] = phase[n]
      BY <1>7 DEF BackendFailsHolding, RecordTypes
    <2> QED
      BY <2>1, <2>2, RecordsByOne DEF CleanupPhases, FirstCleanupPhase
  <1>8. ASSUME NEW m \in Modules, PrepareUnload(m) PROVE RecordsExact'
    <2>1. /\ busy = NoModule /\ busy' = m /\ UNCHANGED <<state, handle>>
          /\ Holding(m) /\ state[m] # "CleanupFailed"
      BY <1>8 DEF PrepareUnload, Turn
    <2>2. handle[m] /\ state[m] \notin {"Loading", "Unloading"}
      BY <2>1, QuietRecords DEF Holding, RecordsExact, CleanupConsistent
    <2>3. phase'[m] = "Prepare" /\ \A n \in Modules \ {m} : phase'[n] = phase[n]
      BY <1>8 DEF PrepareUnload, RecordTypes
    <2> QED
      BY <2>1, <2>2, <2>3, RecordsByOne DEF CleanupPhases
  <1>9. ASSUME NEW m \in Modules, PreparationFails(m) PROVE RecordsExact'
    <2>1. /\ busy = m /\ busy' = NoModule /\ UNCHANGED <<state, handle>> /\ phase[m] = "Prepare"
      BY <1>9 DEF PreparationFails
    <2>2. phase'[m] = "None" /\ \A n \in Modules \ {m} : phase'[n] = phase[n]
      BY <1>9 DEF PreparationFails, RecordTypes
    <2>3. /\ state[m] \notin {"Loading", "Unloading", "CleanupFailed"}
          /\ handle[m]
      BY <2>1 DEF RecordsExact, CleanupConsistent, CleanupPhases
    <2> QED
      BY <2>1, <2>2, <2>3, RecordsByOne, ModuleRuntimeAssumption DEF CleanupPhases
  <1>10. ASSUME NEW m \in Modules, StartCleanup(m) PROVE RecordsExact'
    <2>1. busy = m /\ busy' = m /\ UNCHANGED handle /\ phase[m] = "Prepare"
      BY <1>10 DEF StartCleanup
    <2>2. /\ state'[m] = "Unloading" /\ \A n \in Modules \ {m} : state'[n] = state[n]
          /\ phase'[m] = FirstCleanupPhase(m) /\ \A n \in Modules \ {m} : phase'[n] = phase[n]
      BY <1>10 DEF StartCleanup, RecordTypes
    <2>3. handle[m]
      BY <2>1 DEF RecordsExact
    <2> QED
      BY <2>1, <2>2, <2>3, RecordsByOne DEF CleanupPhases, FirstCleanupPhase
  <1>11. ASSUME NEW m \in Modules, ResumeCleanup(m) PROVE RecordsExact'
    <2>1. /\ busy = NoModule /\ busy' = m /\ UNCHANGED <<phase, handle>> /\ state[m] = "CleanupFailed"
      BY <1>11 DEF ResumeCleanup, Turn
    <2>2. state'[m] = "Unloading" /\ \A n \in Modules \ {m} : state'[n] = state[n]
      BY <1>11 DEF ResumeCleanup, RecordTypes
    <2>3. /\ phase[m] \in CleanupPhases /\ handle[m]
          /\ phase[m] \in {"BackendBegin", "RevokeContributions", "BackendFinish"} => m \in Native
          /\ phase[m] = "BackendUnload" => m \notin Native
      BY <2>1 DEF RecordsExact, CleanupConsistent
    <2> QED
      BY <2>1, <2>2, <2>3, RecordsByOne DEF CleanupPhases
  <1>12. ASSUME NEW m \in Modules, NEW ph \in CleanupPhases, Cleaning(m, ph) PROVE
                /\ busy = m /\ state[m] = "Unloading" /\ phase[m] = ph /\ handle[m]
                /\ ph \in {"BackendBegin", "RevokeContributions", "BackendFinish"} => m \in Native
                /\ ph = "BackendUnload" => m \notin Native
    BY <1>12 DEF Cleaning, RecordsExact, CleanupConsistent
  <1>13. ASSUME NEW m \in Modules, NEW ph \in {"BackendBegin", "RevokeContributions"},
                Cleaning(m, ph), PhaseDone(m)
         PROVE  RecordsExact'
    <2>1. busy' = m /\ UNCHANGED <<state, handle>>
      BY <1>12, <1>13 DEF PhaseDone, CleanupPhases
    <2>2. phase'[m] = NextPhase(ph) /\ \A n \in Modules \ {m} : phase'[n] = phase[n]
      BY <1>12, <1>13 DEF PhaseDone, RecordTypes, CleanupPhases
    <2>3. /\ busy = m /\ state[m] = "Unloading" /\ handle[m] /\ m \in Native
      BY <1>12, <1>13 DEF CleanupPhases
    <2>4. phase'[m] \in {"RevokeContributions", "BackendFinish"}
      BY <2>2 DEF NextPhase
    <2> QED
      BY <2>1, <2>2, <2>3, <2>4, RecordsByOne DEF CleanupPhases
  <1>14. ASSUME NEW m \in Modules, NEW ph \in CleanupPhases, Cleaning(m, ph), CleanupFails(m)
         PROVE  RecordsExact'
    <2>1. busy' = NoModule /\ UNCHANGED <<phase, handle>>
      BY <1>14 DEF CleanupFails
    <2>2. state'[m] = "CleanupFailed" /\ \A n \in Modules \ {m} : state'[n] = state[n]
      BY <1>14 DEF CleanupFails, RecordTypes
    <2> QED
      BY <1>12, <1>14, <2>1, <2>2, RecordsByOne, ModuleRuntimeAssumption DEF CleanupPhases
  <1>15. ASSUME NEW m \in Modules, NEW ph \in CleanupPhases, Cleaning(m, ph), Unloaded(m)
         PROVE  RecordsExact'
    <2>1. busy' = NoModule
      BY <1>15 DEF Unloaded
    <2>2. /\ state'[m] \in {"Failed", "Unloaded"} /\ \A n \in Modules \ {m} : state'[n] = state[n]
          /\ phase'[m] = "None" /\ \A n \in Modules \ {m} : phase'[n] = phase[n]
          /\ ~handle'[m] /\ \A n \in Modules \ {m} : handle'[n] = handle[n]
      BY <1>15 DEF Unloaded, RecordTypes
    <2> QED
      BY <1>12, <1>15, <2>1, <2>2, RecordsByOne, ModuleRuntimeAssumption DEF CleanupPhases
  <1>16. ASSUME NEW m \in Modules,
                BeginUnload(m) \/ RevokeContributions(m) \/ FinishUnload(m) \/ BackendUnload(m)
         PROVE  RecordsExact'
    BY <1>13, <1>14, <1>15, <1>16
       DEF BeginUnload, RevokeContributions, FinishUnload, BackendUnload, CleanupPhases
  <1> QED
    BY StepKinds, <1>1, <1>2, <1>3, <1>4, <1>5, <1>6, <1>7, <1>8, <1>9, <1>10, <1>11, <1>16 DEF Works

-----------------------------------------------------------------------------
(* The operation and the records. *)

\* A plan goes on when the work on its head has returned.
LEMMA OperationContinues ==
    ASSUME RecordTypes', op \in Operations, op' \in Operations, RecordsExact', OperationExact,
           NEW ok \in BOOLEAN, op' = Continued(ok), busy' = NoModule, op.plan # <<>>,
           ok /\ op.mode = "load" => phase'[Head(op.plan)] = "None"
    PROVE  OperationExact'
  <1>1. Continues(ok, op')
    BY ContinuedFacts
  <1>2. \A m \in Modules : state'[m] # "Loading"
    BY ModuleRuntimeAssumption DEF RecordsExact, CleanupConsistent
  <1>3. op'.mode = "restore" => op'.plan # <<>> /\ phase'[Head(op'.plan)] = "None"
    BY <1>1, IdleFacts DEF Continues
  <1>4. op'.name \in {"none", "shutdown"} => op'.mode \in {"none", "unload", "teardown"}
    BY <1>1, IdleFacts DEF Continues, OperationExact
  <1> QED
    BY <1>2, <1>3, <1>4 DEF OperationExact

\* An operation begins, ends or changes its mode when no module is busy.
LEMMA OperationTurns ==
    ASSUME RecordTypes', RecordsExact', busy' = NoModule,
           op'.mode # "restore",
           op'.name \in {"none", "shutdown"} => op'.mode \in {"none", "unload", "teardown"}
    PROVE  OperationExact'
  <1>1. \A m \in Modules : state'[m] # "Loading"
    BY ModuleRuntimeAssumption DEF RecordsExact, CleanupConsistent
  <1> QED
    BY <1>1 DEF OperationExact

\* What follows from the place of a busy module in the operation.
LEMMA BusyFacts ==
    ASSUME op \in Operations, OperationExact
    PROVE  /\ op = Idle => busy = NoModule
           /\ busy # NoModule => op.plan # <<>> /\ busy = Head(op.plan) /\ op.mode \in {"load", "unload"}
           /\ \A m \in Modules : \A mode : Turn(mode, m) =>
                busy = NoModule /\ op.plan # <<>> /\ m = Head(op.plan) /\ op.mode = mode
  BY IdleFacts DEF OperationExact, Turn

\* Every step keeps the operation in agreement with the records.
LEMMA OperationStepExact ==
    ASSUME RecordTypes, RecordTypes', op \in Operations, op' \in Operations,
           RecordsExact, RecordsExact', OperationExact, [Next]_vars
    PROVE  OperationExact'
  <1> USE DEF call, specs, status
  <1> DEFINE nothing == <<>>
  <1>0. nothing \in Seq(Modules) /\ \A n \in Modules : <<n>> \in Seq(Modules)
    OBVIOUS
  <1>0a. /\ {"load_all", "shutdown", "load", "unload", "rebuild", "reload"} \subseteq Names
         /\ {"load", "teardown", "unload", "clean", "build"} \subseteq Modes
    BY DEF Names, Modes
  <1>0b. \A name \in Names, mode \in Modes, plan \in Seq(Modules), all \in Seq(Modules) :
           /\ Operation(name, mode, plan, all).name = name
           /\ Operation(name, mode, plan, all).mode = mode
    BY OperationFacts
  <1> HIDE DEF nothing
  <1>1. CASE UNCHANGED vars
    BY <1>1 DEF vars, OperationExact
  <1>2. CASE EditDescriptors \/ Refresh
    BY <1>2 DEF EditDescriptors, Refresh, OperationExact
  <1>3. CASE Discover
    BY <1>3, OperationTurns, BusyFacts, IdleFacts DEF Discover
  <1>4. CASE LoadAll
    <2>1. PICK s \in Linearizations(Modules, files.deps) :
            op' = Operation("load_all", "load", s, nothing)
      BY <1>4 DEF LoadAll, Begin, nothing
    <2>2. op'.name = "load_all" /\ op'.mode = "load"
      BY <2>1, <1>0, <1>0a, <1>0b, LinearizationFacts
    <2> QED
      BY <1>4, <2>2, OperationTurns, BusyFacts DEF LoadAll, Begin
  <1>5. CASE Shutdown
    <2>1. PICK s \in Linearizations(Holders, deps) :
            op' = IF s = <<>> THEN Operation("shutdown", "teardown", nothing, nothing)
                              ELSE Operation("shutdown", "unload", Reverse(s), nothing)
      BY <1>5 DEF Shutdown, Begin, nothing
    <2>2. Reverse(s) \in Seq(Modules)
      BY LinearizationFacts, ReverseIsPlan DEF Holders
    <2>3. op'.mode \in {"unload", "teardown"}
      BY <2>1, <2>2, <1>0, <1>0a, <1>0b
    <2> QED
      BY <1>5, <2>3, OperationTurns, BusyFacts DEF Shutdown, Begin
  <1>6. ASSUME NEW s \in Seq(Modules), ExecuteReload(s) PROVE OperationExact'
    <2>1. op' = Operation("reload", "unload", Reverse(s), s) /\ op = Idle /\ busy' = busy
      BY <1>6 DEF ExecuteReload, Begin
    <2>2. op'.name = "reload" /\ op'.mode = "unload"
      BY <2>1, <1>0a, <1>0b, ReverseIsPlan
    <2> QED
      BY <2>1, <2>2, OperationTurns, BusyFacts
  <1>7. ASSUME NEW m \in Modules,
               LoadModule(m) \/ UnloadModule(m) \/ ReloadModule(m)
               \/ ReloadModuleWithDependents(m) \/ RebuildModule(m)
        PROVE  OperationExact'
    <2> DEFINE one == <<m>>
    <2>0. one \in Seq(Modules)
      BY <1>0
    <2> HIDE DEF one
    <2>1. CASE LoadModule(m)
      <3>1. op' = Operation("load", "load", one, nothing) /\ op = Idle /\ busy' = busy
        BY <2>1 DEF LoadModule, Begin, nothing, one
      <3>2. op'.name = "load" /\ op'.mode = "load"
        BY <3>1, <2>0, <1>0, <1>0a, <1>0b
      <3> QED
        BY <3>1, <3>2, OperationTurns, BusyFacts
    <2>2. CASE UnloadModule(m)
      <3>1. op' = Operation("unload", "unload", one, nothing) /\ op = Idle /\ busy' = busy
        BY <2>2 DEF UnloadModule, Begin, nothing, one
      <3>2. op'.name = "unload" /\ op'.mode = "unload"
        BY <3>1, <2>0, <1>0, <1>0a, <1>0b
      <3> QED
        BY <3>1, <3>2, OperationTurns, BusyFacts
    <2>3. CASE ReloadModule(m)
      BY <2>0, <1>6, <2>3 DEF ReloadModule, one
    <2>4. CASE ReloadModuleWithDependents(m)
      <3>1. PICK s \in Linearizations(Affected(m, files.deps), files.deps) : ExecuteReload(s)
        BY <2>4 DEF ReloadModuleWithDependents
      <3>2. s \in Seq(Modules)
        BY LinearizationFacts DEF Affected
      <3> QED
        BY <1>6, <3>1, <3>2
    <2>5. CASE RebuildModule(m)
      <3>1. /\ op' = Operation("rebuild", IF state[m] = "Loaded" THEN "unload" ELSE "clean", one, nothing)
            /\ op = Idle /\ busy' = busy
        BY <2>5 DEF RebuildModule, Begin, nothing, one
      <3>2. op'.name = "rebuild" /\ op'.mode \in {"unload", "clean"}
        BY <3>1, <2>0, <1>0, <1>0a, <1>0b
      <3> QED
        BY <3>1, <3>2, OperationTurns, BusyFacts
    <2> QED
      BY <1>7, <2>1, <2>2, <2>3, <2>4, <2>5
  <1>8. ASSUME NEW m \in Modules, LoadStep(m) PROVE OperationExact'
    <2>1. CASE AlreadyLoaded(m)
      <3>1. phase[m] = "None"
        BY <2>1, BusyFacts, QuietRecords DEF AlreadyLoaded
      <3> QED
        BY <2>1, <3>1, BusyFacts, OperationContinues DEF AlreadyLoaded
    <2>2. CASE RefuseLoad(m)
      BY <2>2, BusyFacts, OperationContinues DEF RefuseLoad
    <2>3. CASE FailLoad(m)
      BY <2>3, BusyFacts, OperationContinues DEF FailLoad
    <2>4. CASE Ignore(m)
      BY <2>4, BusyFacts, OperationContinues DEF Ignore, MayLoad, CleanupIncomplete
    <2>5. CASE StartLoad(m)
      <3>1. op' = op /\ busy' = m /\ m = Head(op.plan) /\ op.plan # <<>> /\ op.mode = "load"
        BY <2>5, BusyFacts DEF StartLoad
      <3>2. \A n \in Modules : state'[n] = "Loading" => n = m
        BY <3>1 DEF RecordsExact, CleanupConsistent
      <3> QED
        BY <3>1, <3>2 DEF OperationExact
    <2>6. CASE BackendLoads(m)
      <3>1. busy = m /\ busy' = NoModule /\ UNCHANGED phase /\ phase[m] = "None" /\ op' = Continued(TRUE)
        BY <2>6 DEF BackendLoads, Loading, RecordsExact
      <3>2. op.plan # <<>> /\ m = Head(op.plan)
        BY <3>1, BusyFacts, ModuleRuntimeAssumption
      <3> QED
        BY <3>1, <3>2, OperationContinues
    <2>7. CASE BackendFails(m)
      <3>1. busy = m /\ busy' = NoModule /\ op' = Continued(FALSE)
        BY <2>7 DEF BackendFails, Loading
      <3>2. op.plan # <<>> /\ m = Head(op.plan)
        BY <3>1, BusyFacts, ModuleRuntimeAssumption
      <3> QED
        BY <3>1, <3>2, OperationContinues
    <2>8. CASE BackendFailsHolding(m)
      <3>1. /\ op' = op /\ busy' = m /\ busy = m /\ state[m] = "Loading"
            /\ \A n \in Modules : state'[n] # "Loading"
        <4>1. op' = op /\ busy' = m /\ busy = m /\ state[m] = "Loading" /\ state'[m] = "Unloading"
          BY <2>8 DEF BackendFailsHolding, Loading, RecordTypes
        <4> QED
          BY <4>1 DEF RecordsExact, CleanupConsistent
      <3>2. op.plan # <<>> /\ m = Head(op.plan) /\ op.mode \in {"load", "unload"}
        BY <3>1, BusyFacts, ModuleRuntimeAssumption
      <3> QED
        BY <3>1, <3>2 DEF OperationExact
    <2> QED
      BY <1>8, <2>1, <2>2, <2>3, <2>4, <2>5, <2>6, <2>7, <2>8 DEF LoadStep
  <1>9. ASSUME NEW m \in Modules, busy' = m, op' = op, busy = m,
               state' = state \/ state'[m] = "Unloading"
        PROVE  OperationExact'
    <2>1. op.plan # <<>> /\ m = Head(op.plan) /\ op.mode \in {"load", "unload"}
      BY <1>9, BusyFacts, ModuleRuntimeAssumption
    <2>2. \A n \in Modules : state'[n] = "Loading" => op.mode = "load"
      BY <1>9 DEF RecordsExact, CleanupConsistent, OperationExact
    <2> QED
      BY <1>9, <2>1, <2>2 DEF OperationExact
  <1>10. ASSUME NEW m \in Modules, UnloadStep(m) PROVE OperationExact'
    <2>1. CASE NothingToUnload(m)
      <3>1. /\ op' = Continued(TRUE) /\ busy' = NoModule /\ op.plan # <<>>
            /\ op.mode # "load"
        BY <2>1, BusyFacts DEF NothingToUnload
      <3> QED
        BY <3>1, OperationContinues
    <2>2. CASE RefuseUnload(m)
      BY <2>2, BusyFacts, OperationContinues DEF RefuseUnload
    <2>3. CASE PrepareUnload(m) \/ ResumeCleanup(m)
      <3>1. op' = op /\ busy' = m /\ m = Head(op.plan) /\ op.plan # <<>> /\ op.mode = "unload"
        BY <2>3, BusyFacts DEF PrepareUnload, ResumeCleanup
      <3>2. state'[m] # "Loading"
        BY <2>3, BusyFacts, QuietRecords DEF PrepareUnload, ResumeCleanup, RecordTypes
      <3>3. \A n \in Modules : state'[n] # "Loading"
        BY <3>1, <3>2 DEF RecordsExact, CleanupConsistent
      <3> QED
        BY <3>1, <3>3 DEF OperationExact
    <2>4. CASE PreparationFails(m)
      <3>1. busy = m /\ busy' = NoModule /\ op' = Continued(FALSE)
        BY <2>4 DEF PreparationFails
      <3>2. op.plan # <<>> /\ m = Head(op.plan)
        BY <3>1, BusyFacts, ModuleRuntimeAssumption
      <3> QED
        BY <3>1, <3>2, OperationContinues
    <2>5. CASE StartCleanup(m)
      BY <2>5, <1>9 DEF StartCleanup, RecordTypes
    <2>6. CASE BeginUnload(m) \/ RevokeContributions(m) \/ FinishUnload(m) \/ BackendUnload(m)
      <3>0. busy = m
        BY <2>6 DEF BeginUnload, RevokeContributions, FinishUnload, BackendUnload, Cleaning
      <3>1. op.plan # <<>> /\ m = Head(op.plan)
        BY <3>0, BusyFacts, ModuleRuntimeAssumption
      <3>2. CASE PhaseDone(m)
        BY <3>0, <3>2, <1>9 DEF PhaseDone
      <3>3. CASE CleanupFails(m)
        BY <3>1, <3>3, OperationContinues DEF CleanupFails
      <3>4. CASE Unloaded(m)
        <4>1. phase'[m] = "None" /\ busy' = NoModule /\ op' = Continued(~replacing)
          BY <3>4 DEF Unloaded, RecordTypes
        <4>2. (~replacing) \in BOOLEAN
          BY DEF RecordTypes
        <4> QED
          BY <3>1, <4>1, <4>2, OperationContinues
      <3> QED
        BY <2>6, <3>2, <3>3, <3>4 DEF BeginUnload, RevokeContributions, FinishUnload, BackendUnload
    <2> QED
      BY <1>10, <2>1, <2>2, <2>3, <2>4, <2>5, <2>6 DEF UnloadStep
  <1>11. ASSUME NEW m \in Modules, RestoreSucceeds(m) \/ RestoreFails(m) PROVE OperationExact'
    <2>1. /\ op' \in {Continued(TRUE), Continued(FALSE)} /\ busy' = NoModule
          /\ op.plan # <<>> /\ op.mode # "load"
      <3>1. /\ Turn("restore", m) /\ busy' = busy
            /\ op' = Continued(TRUE) \/ op' = Continued(FALSE)
        BY <1>11 DEF RestoreSucceeds, RestoreFails
      <3>2. op.mode = "restore" /\ op.plan # <<>> /\ busy = NoModule
        BY <3>1, BusyFacts
      <3> QED
        BY <3>1, <3>2
    <2> QED
      BY <2>1, OperationContinues
  <1>12. ASSUME NEW m \in Modules, Build(m) PROVE OperationExact'
    BY <1>12, BusyFacts, OperationTurns, IdleFacts DEF Build
  <1>13. ASSUME NEW m \in Modules, Clean(m) PROVE OperationExact'
    <2>1. busy' = NoModule
      BY <1>13, BusyFacts DEF Clean
    <2>2. CASE op' = Idle
      BY <2>1, <2>2, OperationTurns, IdleFacts
    <2>3. CASE op # Idle /\ op' = Turned(op, "build")
      <3>1. op.mode = "clean"
        BY <1>13, <2>3 DEF Clean, Turn
      <3>2. op'.name = op.name /\ op'.mode = "build"
        BY <2>3, <1>0a, TurnedFacts
      <3> QED
        BY <2>1, <3>1, <3>2, OperationTurns DEF OperationExact
    <2> QED
      BY <1>13, <2>2, <2>3 DEF Clean, Turned
  <1>14. CASE Gate
    <2>1. busy' = NoModule
      BY <1>14, BusyFacts DEF Gate
    <2>2. CASE op' = Idle
      BY <2>1, <2>2, OperationTurns, IdleFacts
    <2>3. CASE op' = Turned(op, "load")
      <3>1. op'.name = op.name /\ op'.mode = "load"
        BY <2>3, <1>0a, TurnedFacts
      <3> QED
        BY <1>14, <2>1, <3>1, OperationTurns DEF OperationExact, Gate
    <2> QED
      BY <1>14, <2>2, <2>3 DEF Gate, Turned
  <1>15. CASE RebuildStops \/ Teardown
    BY <1>15, BusyFacts, OperationTurns, IdleFacts DEF RebuildStops, Teardown
  <1> QED
    BY <1>1, <1>2, <1>3, <1>4, <1>5, <1>7, <1>8, <1>10, <1>11, <1>12, <1>13, <1>14, <1>15
       DEF Next, OperationStep

-----------------------------------------------------------------------------
(* Registrations and libraries. *)

\* NoDanglingContribution, and what each phase of a cleanup has behind it.
BackendExact ==
    /\ NoDanglingContribution
    /\ \A m \in Modules :
         /\ phase[m] \in {"RevokeContributions", "BackendFinish"} => stopped[m]
         /\ phase[m] = "BackendFinish" => ~contributed[m]
         /\ mapped[m] => m \in Native

\* A step on m that keeps the backend's view of m exact.
LEMMA BackendByOne ==
    ASSUME BackendExact, NEW m \in Modules,
           \A n \in Modules \ {m} :
              /\ phase'[n] = phase[n] /\ handle'[n] = handle[n] /\ mapped'[n] = mapped[n]
              /\ stopped'[n] = stopped[n] /\ contributed'[n] = contributed[n],
           contributed'[m] => handle'[m],
           mapped'[m] => handle'[m],
           contributed'[m] /\ m \in Native => mapped'[m],
           handle'[m] /\ m \in Native /\ ~(mapped'[m] /\ contributed'[m]) => stopped'[m],
           phase'[m] \in {"RevokeContributions", "BackendFinish"} => stopped'[m],
           phase'[m] = "BackendFinish" => ~contributed'[m],
           mapped'[m] => m \in Native
    PROVE  BackendExact'
  <1> SUFFICES ASSUME NEW n \in Modules
               PROVE  /\ contributed'[n] => handle'[n]
                      /\ mapped'[n] => handle'[n]
                      /\ contributed'[n] /\ n \in Native => mapped'[n]
                      /\ handle'[n] /\ n \in Native /\ ~(mapped'[n] /\ contributed'[n]) => stopped'[n]
                      /\ phase'[n] \in {"RevokeContributions", "BackendFinish"} => stopped'[n]
                      /\ phase'[n] = "BackendFinish" => ~contributed'[n]
                      /\ mapped'[n] => n \in Native
    BY DEF BackendExact, NoDanglingContribution
  <1>1. CASE n = m
    BY <1>1
  <1>2. CASE n # m
    <2>1. /\ phase'[n] = phase[n] /\ handle'[n] = handle[n] /\ mapped'[n] = mapped[n]
          /\ stopped'[n] = stopped[n] /\ contributed'[n] = contributed[n]
      BY <1>2
    <2> QED
      BY <2>1 DEF BackendExact, NoDanglingContribution
  <1> QED
    BY <1>1, <1>2

\* The facts about m that a step on it starts from.
LEMMA BackendFacts ==
    ASSUME BackendExact, NEW m \in Modules
    PROVE  /\ contributed[m] => handle[m]
           /\ mapped[m] => handle[m]
           /\ contributed[m] /\ m \in Native => mapped[m]
           /\ handle[m] /\ m \in Native /\ ~(mapped[m] /\ contributed[m]) => stopped[m]
           /\ phase[m] \in {"RevokeContributions", "BackendFinish"} => stopped[m]
           /\ phase[m] = "BackendFinish" => ~contributed[m]
           /\ mapped[m] => m \in Native
  BY DEF BackendExact, NoDanglingContribution

\* Every step keeps the backends' view of the modules exact.
LEMMA BackendStep ==
    ASSUME RecordTypes, op \in Operations, RecordsExact, OperationExact, BackendExact, [Next]_vars
    PROVE  BackendExact'
  <1> USE DEF call, specs, status, backend
  <1>1. CASE Stays
    BY <1>1 DEF Stays, BackendExact, NoDanglingContribution
  <1>2. CASE Discover
    <2>1. UNCHANGED <<handle, mapped, stopped, contributed>> /\ \A n \in Modules : phase'[n] = "None"
      BY <1>2 DEF Discover
    <2> QED
      BY <2>1 DEF BackendExact, NoDanglingContribution
  <1>3. ASSUME NEW m \in Modules, Settles(m) PROVE BackendExact'
    BY <1>3 DEF Settles, BackendExact, NoDanglingContribution
  <1>4. ASSUME NEW m \in Modules,
               StartLoad(m) \/ BackendFails(m) \/ ResumeCleanup(m)
        PROVE  BackendExact'
    BY <1>4 DEF StartLoad, BackendFails, ResumeCleanup, BackendExact, NoDanglingContribution
  <1>5. ASSUME NEW m \in Modules, BackendLoads(m) PROVE BackendExact'
    <2>1. /\ handle'[m] = TRUE /\ \A n \in Modules \ {m} : handle'[n] = handle[n]
          /\ mapped'[m] = (m \in Native) /\ \A n \in Modules \ {m} : mapped'[n] = mapped[n]
          /\ contributed'[m] = TRUE /\ \A n \in Modules \ {m} : contributed'[n] = contributed[n]
          /\ \A n \in Modules \ {m} : stopped'[n] = stopped[n]
      BY <1>5 DEF BackendLoads, RecordTypes
    <2>2. phase' = phase /\ phase[m] = "None"
      BY <1>5 DEF BackendLoads, Loading, RecordsExact
    <2> QED
      BY <2>1, <2>2, BackendByOne
  <1>6. ASSUME NEW m \in Modules, BackendFailsHolding(m) PROVE BackendExact'
    <2>1. /\ handle'[m] = TRUE /\ \A n \in Modules \ {m} : handle'[n] = handle[n]
          /\ mapped'[m] = (m \in Native) /\ \A n \in Modules \ {m} : mapped'[n] = mapped[n]
          /\ contributed'[m] = TRUE /\ \A n \in Modules \ {m} : contributed'[n] = contributed[n]
          /\ \A n \in Modules \ {m} : stopped'[n] = stopped[n]
          /\ phase'[m] = FirstCleanupPhase(m) /\ \A n \in Modules \ {m} : phase'[n] = phase[n]
      BY <1>6 DEF BackendFailsHolding, RecordTypes
    <2>2. phase'[m] \in {"BackendBegin", "BackendUnload"}
      BY <2>1 DEF FirstCleanupPhase
    <2>3. stopped'[m] = (m \in Native)
      BY <1>6 DEF BackendFailsHolding, RecordTypes
    <2>4. /\ contributed'[m] => handle'[m]
          /\ mapped'[m] => handle'[m] /\ m \in Native
          /\ contributed'[m] /\ m \in Native => mapped'[m]
          /\ m \in Native => stopped'[m]
          /\ phase'[m] \notin {"RevokeContributions", "BackendFinish"}
      BY <2>1, <2>2, <2>3
    <2> QED
      BY <2>1, <2>4, BackendByOne
  <1>7. ASSUME NEW m \in Modules, PrepareUnload(m) \/ PreparationFails(m) \/ StartCleanup(m)
        PROVE  BackendExact'
    <2>1. phase'[m] \in {"None", "Prepare", "BackendBegin", "BackendUnload"}
      BY <1>7 DEF PrepareUnload, PreparationFails, StartCleanup, FirstCleanupPhase, RecordTypes
    <2>2. \A n \in Modules \ {m} : phase'[n] = phase[n]
      BY <1>7 DEF PrepareUnload, PreparationFails, StartCleanup, RecordTypes
    <2>3. UNCHANGED <<handle, mapped, stopped, contributed>>
      BY <1>7 DEF PrepareUnload, PreparationFails, StartCleanup
    <2> QED
      BY <2>1, <2>2, <2>3, BackendFacts, BackendByOne
  <1>8. ASSUME NEW m \in Modules, CleanupFails(m), UNCHANGED backend PROVE BackendExact'
    BY <1>8 DEF CleanupFails, BackendExact, NoDanglingContribution
  <1>9. ASSUME NEW m \in Modules, Unloaded(m), ~mapped'[m], ~contributed'[m],
               stopped' = stopped,
               \A n \in Modules \ {m} : mapped'[n] = mapped[n] /\ contributed'[n] = contributed[n]
        PROVE  BackendExact'
    <2>1. /\ phase'[m] = "None" /\ \A n \in Modules \ {m} : phase'[n] = phase[n]
          /\ ~handle'[m] /\ \A n \in Modules \ {m} : handle'[n] = handle[n]
      BY <1>9 DEF Unloaded, RecordTypes
    <2> QED
      BY <1>9, <2>1, BackendByOne
  <1>10. ASSUME NEW m \in Modules, BeginUnload(m) PROVE BackendExact'
    <2>1. CASE PhaseDone(m) /\ stopped' = [stopped EXCEPT ![m] = TRUE]
      <3>1. phase[m] = "BackendBegin" /\ UNCHANGED <<handle, mapped, contributed>>
        BY <1>10, <2>1 DEF BeginUnload, Cleaning, PhaseDone
      <3>2. /\ phase'[m] = "RevokeContributions" /\ \A n \in Modules \ {m} : phase'[n] = phase[n]
            /\ stopped'[m] /\ \A n \in Modules \ {m} : stopped'[n] = stopped[n]
        BY <2>1, <3>1 DEF PhaseDone, NextPhase, RecordTypes
      <3> QED
        BY <3>1, <3>2, BackendFacts, BackendByOne
    <2> QED
      BY <1>8, <1>10, <2>1 DEF BeginUnload
  <1>11. ASSUME NEW m \in Modules, RevokeContributions(m) PROVE BackendExact'
    <2>1. CASE PhaseDone(m) /\ contributed' = [contributed EXCEPT ![m] = FALSE]
      <3>1. phase[m] = "RevokeContributions" /\ UNCHANGED <<handle, mapped, stopped>>
        BY <1>11, <2>1 DEF RevokeContributions, Cleaning, PhaseDone
      <3>2. /\ phase'[m] = "BackendFinish" /\ \A n \in Modules \ {m} : phase'[n] = phase[n]
            /\ ~contributed'[m] /\ \A n \in Modules \ {m} : contributed'[n] = contributed[n]
        BY <2>1, <3>1 DEF PhaseDone, NextPhase, RecordTypes
      <3> QED
        BY <3>1, <3>2, BackendFacts, BackendByOne
    <2> QED
      BY <1>8, <1>11, <2>1 DEF RevokeContributions
  <1>12. ASSUME NEW m \in Modules, FinishUnload(m) PROVE BackendExact'
    <2>1. phase[m] = "BackendFinish" /\ UNCHANGED <<stopped, contributed>>
      BY <1>12 DEF FinishUnload, Cleaning
    <2>2. ~mapped'[m] /\ \A n \in Modules \ {m} : mapped'[n] = mapped[n]
      BY <1>12 DEF FinishUnload, RecordTypes
    <2>3. stopped[m] /\ ~contributed[m]
      BY <2>1, BackendFacts
    <2>4. CASE Unloaded(m)
      BY <1>9, <2>1, <2>2, <2>3, <2>4
    <2>5. CASE CleanupFails(m)
      <3>1. UNCHANGED <<phase, handle>>
        BY <2>5 DEF CleanupFails
      <3> QED
        BY <2>1, <2>2, <2>3, <3>1, BackendByOne
    <2> QED
      BY <1>12, <2>4, <2>5 DEF FinishUnload
  <1>13. ASSUME NEW m \in Modules, BackendUnload(m) PROVE BackendExact'
    <2>1. CASE Unloaded(m) /\ contributed' = [contributed EXCEPT ![m] = FALSE]
      <3>1. UNCHANGED <<mapped, stopped>> /\ m \notin Native
        BY <1>13 DEF BackendUnload, Cleaning, RecordsExact, CleanupConsistent
      <3>2. ~mapped[m]
        BY <3>1, BackendFacts
      <3>3. ~contributed'[m] /\ \A n \in Modules \ {m} : contributed'[n] = contributed[n]
        BY <2>1 DEF RecordTypes
      <3> QED
        BY <1>9, <2>1, <3>1, <3>2, <3>3
    <2> QED
      BY <1>8, <1>13, <2>1 DEF BackendUnload
  <1> QED
    BY StepKinds, <1>1, <1>2, <1>3, <1>4, <1>5, <1>6, <1>7, <1>10, <1>11, <1>12, <1>13 DEF Works

\* A step leaves the environment to the Python modules that need it.
LEMMA EnvironmentStep ==
    ASSUME RecordTypes, op \in Operations, RecordsExact, OperationExact,
           EnvironmentOutlivesModules, [Next]_vars
    PROVE  EnvironmentOutlivesModules'
  <1> USE DEF call, specs, status, backend
  <1>1. CASE Stays
    BY <1>1 DEF Stays, EnvironmentOutlivesModules, Holders, Holding
  <1>2. CASE Discover
    BY <1>2 DEF Discover, EnvironmentOutlivesModules, Holders, Holding
  <1>3. ASSUME NEW m \in Modules, Settles(m) PROVE EnvironmentOutlivesModules'
    BY <1>3 DEF Settles, EnvironmentOutlivesModules
  <1>4. ASSUME NEW m \in Modules, BackendLoads(m) \/ BackendFailsHolding(m)
        PROVE  EnvironmentOutlivesModules'
    BY <1>4 DEF BackendLoads, BackendFailsHolding, CanRun, EnvironmentOutlivesModules, RecordTypes
  <1>5. ASSUME NEW m \in Modules,
               StartLoad(m) \/ BackendFails(m) \/ PrepareUnload(m) \/ PreparationFails(m)
               \/ StartCleanup(m) \/ ResumeCleanup(m)
        PROVE  EnvironmentOutlivesModules'
    <2>1. UNCHANGED <<handle, prepared>>
      BY <1>5 DEF StartLoad, BackendFails, PrepareUnload, PreparationFails, StartCleanup,
                  ResumeCleanup
    <2> QED
      BY <2>1 DEF EnvironmentOutlivesModules
  <1>6. ASSUME NEW m \in Modules,
               BeginUnload(m) \/ RevokeContributions(m) \/ FinishUnload(m) \/ BackendUnload(m)
        PROVE  EnvironmentOutlivesModules'
    <2>1. PhaseDone(m) \/ CleanupFails(m) \/ Unloaded(m)
      BY <1>6 DEF BeginUnload, RevokeContributions, FinishUnload, BackendUnload
    <2>2. prepared' = prepared /\ \A n \in Modules : handle'[n] => handle[n]
      BY <2>1 DEF PhaseDone, CleanupFails, Unloaded, RecordTypes
    <2> QED
      BY <2>2 DEF EnvironmentOutlivesModules
  <1> QED
    BY StepKinds, <1>1, <1>2, <1>3, <1>4, <1>5, <1>6 DEF Works

-----------------------------------------------------------------------------
(* Dependencies. *)

\* What is kept of a module's dependencies: they are named by its descriptor,
\* only a module that is in the process or coming in has any, and nothing has
\* been done towards unloading them.
LinksExact ==
    /\ \A m \in Modules : kept[m] \subseteq deps[m]
    /\ \A m \in Modules : ~handle[m] /\ state[m] # "Loading" => kept[m] = {}
    /\ \A m \in Modules : \A d \in kept[m] : handle[d] /\ phase[d] = "None"

\* Links only become fewer, and what they lead to stays as it was.
LEMMA LinksFewer ==
    ASSUME LinksExact, RecordTypes,
           \A m \in Modules : kept'[m] \subseteq kept[m] /\ kept'[m] \subseteq deps'[m],
           \A m \in Modules : ~handle'[m] /\ state'[m] # "Loading" => kept'[m] = {},
           \A d \in Modules : handle[d] /\ phase[d] = "None" =>
              \/ handle'[d] /\ phase'[d] = "None"
              \/ \A m \in Modules : d \notin kept'[m]
    PROVE  LinksExact'
  <1> SUFFICES ASSUME NEW m \in Modules, NEW d \in kept'[m] PROVE handle'[d] /\ phase'[d] = "None"
    BY DEF LinksExact
  <1>1. d \in Modules /\ d \in kept[m]
    BY DEF RecordTypes
  <1>2. handle[d] /\ phase[d] = "None"
    BY <1>1 DEF LinksExact
  <1> QED
    BY <1>1, <1>2

\* A refresh, or none, leaves no link that the descriptors do not name.
LEMMA FollowsFacts ==
    ASSUME RecordTypes, LinksExact, Follows, NEW m \in Modules
    PROVE  kept'[m] \subseteq kept[m] /\ kept'[m] \subseteq deps'[m]
  BY DEF RecordTypes, LinksExact, Follows, SnapshotTaken

\* Every step keeps the links exact.
LEMMA LinksStep ==
    ASSUME RecordTypes, op \in Operations, RecordsExact, OperationExact, LinksExact, [Next]_vars
    PROVE  LinksExact'
  <1> USE DEF call, specs, status
  <1>0. \A m \in Modules : \A n \in Modules : phase[m] # "None" \/ ~handle[m] => m \notin kept[n]
    BY DEF LinksExact
  <1>1. CASE Stays
    BY <1>1, FollowsFacts, LinksFewer DEF Stays, LinksExact
  <1>2. CASE Discover
    <2>1. \A m \in Modules : ~handle[m] /\ state[m] # "Loading"
      BY <1>2, IdleFacts, QuietRecords DEF Discover, Holders, Holding, OperationExact
    <2>2. \A m \in Modules : kept[m] = {}
      BY <2>1 DEF LinksExact
    <2>3. kept' = kept
      BY <1>2 DEF Discover
    <2> QED
      BY <2>2, <2>3 DEF LinksExact
  <1>3. ASSUME NEW m \in Modules, Settles(m) /\ Follows PROVE LinksExact'
    <2>1. /\ UNCHANGED <<phase, handle>> /\ state[m] # "Loading"
          /\ \A n \in Modules \ {m} : state'[n] = state[n]
      BY <1>3, QuietRecords DEF Settles, RecordTypes
    <2>2. \A n \in Modules : ~handle'[n] /\ state'[n] # "Loading" => kept[n] = {}
      BY <2>1 DEF LinksExact
    <2>3. \A n \in Modules : kept'[n] \subseteq kept[n] /\ kept'[n] \subseteq deps'[n]
      BY <1>3, FollowsFacts
    <2> QED
      BY <2>1, <2>2, <2>3, LinksFewer
  <1>4. ASSUME NEW m \in Modules, StartLoad(m) PROVE LinksExact'
    <2>1. /\ UNCHANGED <<deps, phase, handle>>
          /\ state'[m] = "Loading" /\ \A n \in Modules \ {m} : state'[n] = state[n]
          /\ kept'[m] = deps[m] /\ \A n \in Modules \ {m} : kept'[n] = kept[n]
      BY <1>4 DEF StartLoad, RecordTypes
    <2>2. \A d \in deps[m] : handle[d] /\ phase[d] = "None"
      <3> TAKE d \in deps[m]
      <3>1. d \in Modules /\ state[d] = "Loaded" /\ busy = NoModule
        BY <1>4 DEF StartLoad, DependenciesLoaded, Turn, RecordTypes
      <3> QED
        BY <3>1, QuietRecords DEF RecordsExact, CleanupConsistent
    <2> QED
      BY <2>1, <2>2 DEF LinksExact
  <1>5. ASSUME NEW m \in Modules, BackendLoads(m) PROVE LinksExact'
    <2>1. /\ UNCHANGED <<deps, phase, kept>>
          /\ \A n \in Modules \ {m} : state'[n] = state[n] /\ handle'[n] = handle[n]
          /\ handle'[m]
      BY <1>5 DEF BackendLoads, RecordTypes
    <2>2. \A n \in Modules : kept'[n] \subseteq kept[n] /\ kept'[n] \subseteq deps'[n]
      BY <2>1 DEF LinksExact
    <2>3. \A n \in Modules : ~handle'[n] /\ state'[n] # "Loading" => kept'[n] = {}
      BY <2>1 DEF LinksExact
    <2>4. \A d \in Modules : handle[d] /\ phase[d] = "None" => handle'[d] /\ phase'[d] = "None"
      BY <2>1
    <2> QED
      BY <2>2, <2>3, <2>4, LinksFewer
  <1>6. ASSUME NEW m \in Modules, BackendFails(m) PROVE LinksExact'
    <2>1. /\ UNCHANGED <<deps, phase, handle>>
          /\ \A n \in Modules \ {m} : state'[n] = state[n] /\ kept'[n] = kept[n]
          /\ kept'[m] = {}
      BY <1>6 DEF BackendFails, RecordTypes
    <2>2. \A n \in Modules : kept'[n] \subseteq kept[n] /\ kept'[n] \subseteq deps'[n]
      BY <2>1 DEF LinksExact
    <2>3. \A n \in Modules : ~handle'[n] /\ state'[n] # "Loading" => kept'[n] = {}
      BY <2>1 DEF LinksExact
    <2> QED
      BY <2>1, <2>2, <2>3, LinksFewer
  <1>7. ASSUME NEW m \in Modules, BackendFailsHolding(m) PROVE LinksExact'
    <2>1. /\ UNCHANGED <<deps, kept>> /\ handle'[m]
          /\ \A n \in Modules \ {m} :
               state'[n] = state[n] /\ handle'[n] = handle[n] /\ phase'[n] = phase[n]
      BY <1>7 DEF BackendFailsHolding, RecordTypes
    <2>2. \A n \in Modules : m \notin kept[n]
      BY <1>0, <1>7 DEF BackendFailsHolding, Loading, RecordsExact, CleanupConsistent
    <2>3. \A n \in Modules : kept'[n] \subseteq kept[n] /\ kept'[n] \subseteq deps'[n]
      BY <2>1 DEF LinksExact
    <2>4. \A n \in Modules : ~handle'[n] /\ state'[n] # "Loading" => kept'[n] = {}
      BY <2>1 DEF LinksExact
    <2> QED
      BY <2>1, <2>2, <2>3, <2>4, LinksFewer
  <1>8. ASSUME NEW m \in Modules, PrepareUnload(m) PROVE LinksExact'
    <2>1. /\ UNCHANGED <<deps, kept, state, handle>> /\ \A n \in Modules \ {m} : phase'[n] = phase[n]
      BY <1>8 DEF PrepareUnload, RecordTypes
    <2>2. ASSUME NEW n \in Modules PROVE m \notin kept[n]
      <3>1. CASE Holding(n)
        BY <1>8, <3>1 DEF PrepareUnload, ActiveDependents, Holders, LinksExact
      <3>2. CASE ~Holding(n)
        <4>1. ~handle[n] /\ state[n] # "Loading"
          BY <1>8, <3>2, QuietRecords DEF Holding, PrepareUnload, Turn
        <4> QED
          BY <4>1 DEF LinksExact
      <3> QED
        BY <3>1, <3>2
    <2>3. \A n \in Modules : kept'[n] \subseteq kept[n] /\ kept'[n] \subseteq deps'[n]
      BY <2>1 DEF LinksExact
    <2>4. \A n \in Modules : ~handle'[n] /\ state'[n] # "Loading" => kept'[n] = {}
      BY <2>1 DEF LinksExact
    <2> QED
      BY <2>1, <2>2, <2>3, <2>4, LinksFewer
  <1>9. ASSUME NEW m \in Modules, UNCHANGED <<deps, kept, handle>>, handle[m] \/ state[m] # "Loading",
               \A n \in Modules \ {m} : state'[n] = state[n] /\ phase'[n] = phase[n],
               phase'[m] = phase[m] \/ phase[m] # "None"
        PROVE  LinksExact'
    <2>1. \A n \in Modules : kept'[n] \subseteq kept[n] /\ kept'[n] \subseteq deps'[n]
      BY <1>9 DEF LinksExact
    <2>2. \A n \in Modules : ~handle'[n] /\ state'[n] # "Loading" => kept'[n] = {}
      BY <1>9 DEF LinksExact
    <2>3. \A d \in Modules : handle[d] /\ phase[d] = "None" => handle'[d] /\ phase'[d] = "None"
      BY <1>9
    <2> QED
      BY <2>1, <2>2, <2>3, LinksFewer
  <1>10. ASSUME NEW m \in Modules, PreparationFails(m) \/ StartCleanup(m) \/ ResumeCleanup(m)
         PROVE  LinksExact'
    <2>1. /\ UNCHANGED <<deps, kept, handle>> /\ handle[m]
          /\ \A n \in Modules \ {m} : state'[n] = state[n] /\ phase'[n] = phase[n]
          /\ phase'[m] = phase[m] \/ phase[m] # "None"
      BY <1>10 DEF PreparationFails, StartCleanup, ResumeCleanup, RecordTypes, RecordsExact,
                   CleanupConsistent
    <2> QED
      BY <1>9, <2>1
  <1>11. ASSUME NEW m \in Modules,
                BeginUnload(m) \/ RevokeContributions(m) \/ FinishUnload(m) \/ BackendUnload(m)
         PROVE  LinksExact'
    <2>1. phase[m] \in CleanupPhases /\ phase[m] # "None" /\ handle[m]
      BY <1>11 DEF BeginUnload, RevokeContributions, FinishUnload, BackendUnload, Cleaning,
                   CleanupPhases, RecordsExact, CleanupConsistent
    <2>2. CASE PhaseDone(m) \/ CleanupFails(m)
      <3>1. /\ UNCHANGED <<deps, kept, handle>>
            /\ \A n \in Modules \ {m} : state'[n] = state[n] /\ phase'[n] = phase[n]
        BY <2>2 DEF PhaseDone, CleanupFails, RecordTypes
      <3> QED
        BY <1>9, <2>1, <3>1
    <2>3. CASE Unloaded(m)
      <3>1. /\ UNCHANGED deps /\ kept'[m] = {}
            /\ \A n \in Modules \ {m} :
                 /\ state'[n] = state[n] /\ phase'[n] = phase[n]
                 /\ handle'[n] = handle[n] /\ kept'[n] = kept[n]
        BY <2>3 DEF Unloaded, RecordTypes
      <3>2. \A n \in Modules : kept'[n] \subseteq kept[n] /\ kept'[n] \subseteq deps'[n]
        BY <3>1 DEF LinksExact
      <3>3. \A n \in Modules : ~handle'[n] /\ state'[n] # "Loading" => kept'[n] = {}
        BY <3>1 DEF LinksExact
      <3>4. \A n \in Modules : m \notin kept'[n]
        BY <1>0, <2>1, <3>2
      <3> QED
        BY <3>1, <3>2, <3>3, <3>4, LinksFewer
    <2> QED
      BY <1>11, <2>2, <2>3 DEF BeginUnload, RevokeContributions, FinishUnload, BackendUnload
  <1> QED
    BY StepKinds, <1>1, <1>2, <1>3, <1>4, <1>5, <1>6, <1>7, <1>8, <1>10, <1>11 DEF Works

-----------------------------------------------------------------------------
(* How an operation moves. *)

\* Nothing happens to it; the work on the head of its plan begins or goes on;
\* that work has returned; it is over; one begins; it changes its mode.
OperationStands == UNCHANGED <<op, busy, handle>>
OperationWorks ==
    /\ op' = op
    /\ \E m \in Modules :
         /\ busy \in {NoModule, m} /\ busy' = m
         /\ \A n \in Modules \ {m} : handle'[n] = handle[n]
OperationReturns ==
    /\ op.plan # <<>> /\ busy \in {NoModule, Head(op.plan)} /\ busy' = NoModule
    /\ \E ok \in BOOLEAN : op' = Continued(ok)
    /\ \A n \in Modules \ {Head(op.plan)} : handle'[n] = handle[n]
OperationBegins ==
    /\ SnapshotTaken /\ Refreshable
    /\ op'.name = "reload" => op'.mode = "unload" /\ IsInjective(op'.all)
OperationShuts == op'.name = "shutdown" /\ UNCHANGED <<deps, state, handle>>
ReloadPasses ==
    /\ op.mode = "gate" /\ op' = Turned(op, "load")
    /\ \A i \in DOMAIN op.plan : ~handle[op.plan[i]]
    /\ UNCHANGED handle
RebuildPasses == op.mode = "clean" /\ op' = Turned(op, "build")

\* Every step moves the operation in one of these ways.
LEMMA OperationKinds ==
    ASSUME RecordTypes, op \in Operations, OperationExact, [Next]_vars
    PROVE  \/ OperationStands \/ OperationWorks \/ OperationReturns \/ op' = Idle
           \/ OperationBegins \/ OperationShuts \/ ReloadPasses \/ RebuildPasses
  <1> USE DEF call, specs, status
  <1> DEFINE nothing == <<>>
  <1>0. nothing \in Seq(Modules) /\ \A n \in Modules : <<n>> \in Seq(Modules)
    OBVIOUS
  <1>0a. /\ {"load_all", "shutdown", "load", "unload", "rebuild", "reload"} \subseteq Names
         /\ {"load", "teardown", "unload", "clean", "build"} \subseteq Modes
    BY DEF Names, Modes
  <1>0b. \A name \in Names, mode \in Modes, plan \in Seq(Modules), all \in Seq(Modules) :
           /\ Operation(name, mode, plan, all).name = name
           /\ Operation(name, mode, plan, all).mode = mode
           /\ Operation(name, mode, plan, all).all = all
    BY OperationFacts
  <1> HIDE DEF nothing
  <1>1. CASE UNCHANGED vars
    BY <1>1 DEF vars, OperationStands
  <1>2. CASE EditDescriptors \/ Discover \/ Refresh
    BY <1>2 DEF EditDescriptors, Discover, Refresh, OperationStands
  <1>3. CASE LoadAll
    <2>1. PICK s \in Linearizations(Modules, files.deps) :
            op' = Operation("load_all", "load", s, nothing)
      BY <1>3 DEF LoadAll, Begin, nothing
    <2>2. op'.name = "load_all"
      BY <2>1, <1>0, <1>0a, <1>0b, LinearizationFacts
    <2> QED
      BY <1>3, <2>2 DEF LoadAll, OperationBegins
  <1>4. CASE Shutdown
    <2>1. PICK s \in Linearizations(Holders, deps) :
            op' = IF s = <<>> THEN Operation("shutdown", "teardown", nothing, nothing)
                              ELSE Operation("shutdown", "unload", Reverse(s), nothing)
      BY <1>4 DEF Shutdown, Begin, nothing
    <2>2. Reverse(s) \in Seq(Modules)
      BY LinearizationFacts, ReverseIsPlan DEF Holders
    <2>3. op'.name = "shutdown"
      BY <2>1, <2>2, <1>0, <1>0a, <1>0b
    <2> QED
      BY <1>4, <2>3 DEF Shutdown, Begin, OperationShuts
  <1>5. ASSUME NEW s \in Seq(Modules), IsInjective(s), ExecuteReload(s),
               SnapshotTaken, Refreshable
        PROVE  OperationBegins
    <2>1. op' = Operation("reload", "unload", Reverse(s), s)
      BY <1>5 DEF ExecuteReload, Begin
    <2>2. op'.mode = "unload" /\ op'.all = s
      BY <2>1, <1>0a, <1>0b, ReverseIsPlan
    <2> QED
      BY <1>5, <2>2 DEF OperationBegins
  <1>6. ASSUME NEW m \in Modules,
               LoadModule(m) \/ UnloadModule(m) \/ ReloadModule(m)
               \/ ReloadModuleWithDependents(m) \/ RebuildModule(m)
        PROVE  OperationBegins
    <2> DEFINE one == <<m>>
    <2>0. one \in Seq(Modules) /\ IsInjective(one)
      BY DEF IsInjective
    <2> HIDE DEF one
    <2>1. CASE LoadModule(m) \/ UnloadModule(m) \/ RebuildModule(m)
      <3>1. \E name \in {"load", "unload", "rebuild"}, mode \in {"load", "unload", "clean"} :
              op' = Operation(name, mode, one, nothing)
        BY <2>1 DEF LoadModule, UnloadModule, RebuildModule, Begin, nothing, one
      <3>2. op'.name \in {"load", "unload", "rebuild"}
        BY <3>1, <2>0, <1>0, <1>0a, <1>0b
      <3> QED
        BY <2>1, <3>2 DEF LoadModule, UnloadModule, RebuildModule, OperationBegins
    <2>2. CASE ReloadModule(m)
      BY <2>0, <1>5, <2>2 DEF ReloadModule, one
    <2>3. CASE ReloadModuleWithDependents(m)
      <3>1. PICK s \in Linearizations(Affected(m, files.deps), files.deps) : ExecuteReload(s)
        BY <2>3 DEF ReloadModuleWithDependents
      <3>2. s \in Seq(Modules) /\ IsInjective(s)
        BY LinearizationFacts DEF Affected
      <3> QED
        BY <1>5, <2>3, <3>1, <3>2 DEF ReloadModuleWithDependents
    <2> QED
      BY <1>6, <2>1, <2>2, <2>3
  <1>7. ASSUME NEW m \in Modules, NEW ok \in BOOLEAN, op' = Continued(ok), busy' = NoModule,
               busy = m \/ \E mode : Turn(mode, m),
               \A n \in Modules \ {m} : handle'[n] = handle[n]
        PROVE  OperationReturns
    <2>1. op.plan # <<>> /\ m = Head(op.plan) /\ busy \in {NoModule, m}
      BY <1>7, BusyFacts, ModuleRuntimeAssumption DEF Turn
    <2> QED
      BY <1>7, <2>1 DEF OperationReturns
  <1>8. ASSUME NEW m \in Modules, op' = op, busy' = m, busy = m \/ \E mode : Turn(mode, m),
               \A n \in Modules \ {m} : handle'[n] = handle[n]
        PROVE  OperationWorks
    BY <1>8 DEF OperationWorks, Turn
  <1>9. ASSUME NEW m \in Modules, LoadStep(m) PROVE OperationWorks \/ OperationReturns
    <2>1. CASE AlreadyLoaded(m) \/ RefuseLoad(m) \/ FailLoad(m) \/ Ignore(m)
      BY <2>1, <1>7 DEF AlreadyLoaded, RefuseLoad, FailLoad, Ignore, Turn
    <2>2. CASE StartLoad(m)
      BY <2>2, <1>8 DEF StartLoad
    <2>3. CASE BackendLoads(m)
      BY <2>3, <1>7 DEF BackendLoads, Loading, RecordTypes
    <2>4. CASE BackendFails(m)
      BY <2>4, <1>7 DEF BackendFails, Loading, RecordTypes
    <2>5. CASE BackendFailsHolding(m)
      BY <2>5, <1>8 DEF BackendFailsHolding, Loading, RecordTypes
    <2> QED
      BY <1>9, <2>1, <2>2, <2>3, <2>4, <2>5 DEF LoadStep
  <1>10. ASSUME NEW m \in Modules, UnloadStep(m) PROVE OperationWorks \/ OperationReturns
    <2>1. CASE NothingToUnload(m) \/ RefuseUnload(m)
      BY <2>1, <1>7 DEF NothingToUnload, RefuseUnload, Turn
    <2>2. CASE PreparationFails(m)
      BY <2>2, <1>7 DEF PreparationFails
    <2>3. CASE PrepareUnload(m) \/ ResumeCleanup(m)
      BY <2>3, <1>8 DEF PrepareUnload, ResumeCleanup
    <2>4. CASE StartCleanup(m)
      BY <2>4, <1>8 DEF StartCleanup
    <2>5. CASE BeginUnload(m) \/ RevokeContributions(m) \/ FinishUnload(m) \/ BackendUnload(m)
      <3>1. busy = m
        BY <2>5 DEF BeginUnload, RevokeContributions, FinishUnload, BackendUnload, Cleaning
      <3>2. CASE PhaseDone(m)
        BY <3>1, <3>2, <1>8 DEF PhaseDone
      <3>3. CASE CleanupFails(m)
        BY <3>1, <3>3, <1>7 DEF CleanupFails
      <3>4. CASE Unloaded(m)
        <4>1. (~replacing) \in BOOLEAN /\ \A n \in Modules \ {m} : handle'[n] = handle[n]
          BY <3>4 DEF RecordTypes, Unloaded
        <4> QED
          BY <3>1, <3>4, <4>1, <1>7 DEF Unloaded
      <3> QED
        BY <2>5, <3>2, <3>3, <3>4 DEF BeginUnload, RevokeContributions, FinishUnload, BackendUnload
    <2> QED
      BY <1>10, <2>1, <2>2, <2>3, <2>4, <2>5 DEF UnloadStep
  <1>11. ASSUME NEW m \in Modules, RestoreSucceeds(m) \/ RestoreFails(m) PROVE OperationReturns
    BY <1>11, <1>7 DEF RestoreSucceeds, RestoreFails, Turn
  <1>12. ASSUME NEW m \in Modules, Build(m) PROVE op' = Idle
    BY <1>12 DEF Build
  <1>13. ASSUME NEW m \in Modules, Clean(m) PROVE op' = Idle \/ RebuildPasses
    BY <1>13 DEF Clean, Turn, RebuildPasses, Turned
  <1>14. CASE Gate
    <2>1. CASE op' = Idle
      BY <2>1
    <2>2. CASE op' # Idle
      <3>1. /\ op' = Turned(op, "load") /\ op.mode = "gate" /\ UNCHANGED handle
            /\ \A m \in ToSet(op.plan) : ~handle[m]
        BY <1>14, <2>2 DEF Gate, Turned
      <3>2. \A i \in DOMAIN op.plan : op.plan[i] \in ToSet(op.plan)
        BY DEF ToSet
      <3> QED
        BY <3>1, <3>2 DEF ReloadPasses
    <2> QED
      BY <2>1, <2>2
  <1>15. CASE RebuildStops \/ Teardown
    BY <1>15 DEF RebuildStops, Teardown
  <1> QED
    BY <1>1, <1>2, <1>3, <1>4, <1>6, <1>9, <1>10, <1>11, <1>12, <1>13, <1>14, <1>15
       DEF Next, OperationStep

-----------------------------------------------------------------------------
(* Reload. *)

\* A reload has each module once in its plan; once all of them are unloaded,
\* those it has still to load stay so.
ReloadExact ==
    op.name = "reload" =>
        /\ IsInjective(op.all)
        /\ op.mode \in {"gate", "load", "restore"} => IsInjective(op.plan)
        /\ op.mode = "load" => \A i \in DOMAIN op.plan : op.plan[i] = busy \/ ~handle[op.plan[i]]
        /\ op.mode = "restore" => \A i \in DOMAIN op.plan : i # 1 => ~handle[op.plan[i]]

\* A reload goes on to its next module.
LEMMA ReloadReturns ==
    ASSUME RecordTypes, op \in Operations, op' \in Operations, ReloadExact, OperationReturns
    PROVE  ReloadExact'
  <1>1. PICK ok \in BOOLEAN : op' = Continued(ok)
    BY DEF OperationReturns
  <1>2. Continues(ok, op')
    BY <1>1, ContinuedFacts
  <1>3. /\ op.plan \in Seq(Modules) /\ op.plan # <<>> /\ busy \in {NoModule, Head(op.plan)}
        /\ \A n \in Modules \ {Head(op.plan)} : handle'[n] = handle[n]
    BY FieldFacts DEF OperationReturns
  <1> DEFINE p == op.plan
             t == Tail(op.plan)
  <1>4. /\ Head(p) = p[1] /\ Len(p) \in Nat \ {0} /\ DOMAIN p = 1..Len(p)
        /\ DOMAIN t = 1..(Len(p) - 1) /\ \A i \in 1..(Len(p) - 1) : t[i] = p[i + 1]
        /\ \A i \in 1..Len(p) : p[i] \in Modules
        /\ IsInjective(p) => IsInjective(t)
    BY <1>3, TailFacts
  <1> SUFFICES ASSUME op'.name = "reload"
               PROVE  /\ IsInjective(op'.all)
                      /\ op'.mode \in {"gate", "load", "restore"} => IsInjective(op'.plan)
                      /\ op'.mode = "load" =>
                           \A i \in DOMAIN op'.plan : op'.plan[i] = busy' \/ ~handle'[op'.plan[i]]
                      /\ op'.mode = "restore" =>
                           \A i \in DOMAIN op'.plan : i # 1 => ~handle'[op'.plan[i]]
    BY DEF ReloadExact
  <1>5. op.name = "reload" /\ op'.all = op.all /\ IsInjective(op.all)
    BY <1>2, IdleFacts DEF Continues, ReloadExact
  <1>6. ASSUME IsInjective(p), NEW i \in 1..Len(p), i # 1
        PROVE  p[i] \in Modules /\ p[i] # Head(p) /\ p[i] # busy /\ handle'[p[i]] = handle[p[i]]
    <2>1. p[i] \in Modules /\ p[i] # Head(p)
      BY <1>4, <1>6 DEF IsInjective
    <2> QED
      BY <1>3, <2>1, ModuleRuntimeAssumption
  <1>7. CASE op'.plan = Tail(op.plan) /\ op.mode = "restore" /\ op'.mode = "load"
    <2>1. IsInjective(p) /\ \A i \in DOMAIN p : i # 1 => ~handle[p[i]]
      BY <1>5, <1>7 DEF ReloadExact
    <2>2. ASSUME NEW i \in DOMAIN t PROVE ~handle'[t[i]]
      <3>1. i + 1 \in 1..Len(p) /\ i + 1 # 1 /\ t[i] = p[i + 1]
        BY <1>4
      <3> QED
        BY <1>4, <1>6, <2>1, <3>1
    <2> QED
      BY <1>4, <1>5, <1>7, <2>1, <2>2
  <1>8. CASE op'.mode = "unload"
    BY <1>5, <1>8
  <1>9. CASE op'.plan = op.plan /\ op.mode = "load" /\ op'.mode = "restore"
    <2>1. IsInjective(p) /\ \A i \in DOMAIN p : p[i] = busy \/ ~handle[p[i]]
      BY <1>5, <1>9 DEF ReloadExact
    <2>2. ASSUME NEW i \in DOMAIN p, i # 1 PROVE ~handle'[p[i]]
      BY <1>4, <1>6, <2>1, <2>2
    <2> QED
      BY <1>5, <1>9, <2>1, <2>2
  <1>10. CASE op'.plan = op.all /\ op'.mode = "gate"
    BY <1>5, <1>10
  <1> QED
    BY <1>2, <1>5, <1>7, <1>8, <1>9, <1>10, IdleFacts DEF Continues

\* Every step keeps it so.
LEMMA ReloadStep ==
    ASSUME RecordTypes, op \in Operations, op' \in Operations, OperationExact,
           OperationExact', ReloadExact, [Next]_vars
    PROVE  ReloadExact'
  <1>1. CASE OperationStands
    BY <1>1 DEF OperationStands, ReloadExact
  <1>2. ASSUME NEW m \in Modules, op' = op, busy \in {NoModule, m}, busy' = m,
               \A n \in Modules \ {m} : handle'[n] = handle[n]
        PROVE  ReloadExact'
    <2>1. op.plan \in Seq(Modules) /\ \A i \in DOMAIN op.plan : op.plan[i] \in Modules
      BY FieldFacts
    <2>1a. op'.mode \in {"load", "unload"}
      BY <1>2, ModuleRuntimeAssumption DEF OperationExact
    <2>2. ASSUME NEW i \in DOMAIN op.plan, op.plan[i] = busy \/ ~handle[op.plan[i]]
          PROVE  op.plan[i] = busy' \/ ~handle'[op.plan[i]]
      BY <1>2, <2>1, <2>2, ModuleRuntimeAssumption
    <2> QED
      BY <1>2, <2>1a, <2>2 DEF ReloadExact
  <1>3. CASE OperationReturns
    BY <1>3, ReloadReturns
  <1>4. CASE op' = Idle
    BY <1>4, IdleFacts DEF ReloadExact
  <1>5. CASE OperationBegins
    BY <1>5 DEF OperationBegins, ReloadExact
  <1>6. CASE OperationShuts
    BY <1>6 DEF OperationShuts, ReloadExact
  <1>7. CASE ReloadPasses
    <2>1. "load" \in Modes
      BY DEF Modes
    <2>2. /\ op'.name = op.name /\ op'.mode = "load" /\ op'.plan = op.plan /\ op'.all = op.all
      BY <1>7, <2>1, TurnedFacts DEF ReloadPasses
    <2> QED
      BY <1>7, <2>2 DEF ReloadPasses, ReloadExact
  <1>8. CASE RebuildPasses
    <2>1. "build" \in Modes
      BY DEF Modes
    <2>2. /\ op'.name = op.name /\ op'.mode = "build" /\ op'.plan = op.plan /\ op'.all = op.all
      BY <1>8, <2>1, TurnedFacts DEF RebuildPasses
    <2> QED
      BY <1>8, <2>2 DEF RebuildPasses, ReloadExact
  <1> QED
    BY OperationKinds, <1>1, <1>2, <1>3, <1>4, <1>5, <1>6, <1>7, <1>8 DEF OperationWorks

-----------------------------------------------------------------------------
(* Cycles. *)

\* The graph has no cycle while a module is held or may be loaded.
GraphExact ==
    /\ HeldGraphAcyclic
    /\ op.name \notin {"none", "shutdown"} => Acyclic(deps)

\* A step keeps the graph, takes one that has been checked, or clears it.
LEMMA GraphChanges ==
    ASSUME RecordTypes, op \in Operations, RecordsExact, OperationExact, [Next]_vars
    PROVE  \/ deps' = deps
           \/ deps' = files.deps /\ Acyclic(files.deps)
           \/ op = Idle /\ op' = Idle /\ UNCHANGED handle /\ Holders = {}
              /\ \A m \in Modules : state'[m] = "Discovered"
  <1> USE DEF call, specs, status
  <1>1. ASSUME Follows PROVE deps' = deps \/ (deps' = files.deps /\ Acyclic(files.deps))
    BY <1>1 DEF Follows, SnapshotTaken, Refreshable
  <1>2. CASE Stays \/ \E m \in Modules : Settles(m) /\ Follows
    BY <1>1, <1>2 DEF Stays
  <1>3. CASE Discover
    BY <1>3 DEF Discover
  <1>4. ASSUME NEW m \in Modules, Works(m) PROVE deps' = deps
    BY <1>4 DEF Works, StartLoad, BackendLoads, BackendFails, BackendFailsHolding, PrepareUnload,
                PreparationFails, StartCleanup, ResumeCleanup, BeginUnload, RevokeContributions,
                FinishUnload, BackendUnload, PhaseDone, CleanupFails, Unloaded
  <1> QED
    BY StepKinds, <1>2, <1>3, <1>4

\* Only a load brings a module in.
LEMMA HoldersChange ==
    ASSUME RecordTypes, op \in Operations, RecordsExact, OperationExact, [Next]_vars
    PROVE  Holders' \subseteq Holders \/ op.mode = "load"
  <1> USE DEF call, specs, status
  <1> SUFFICES ASSUME op.mode # "load" PROVE \A n \in Modules : Holding(n)' => Holding(n)
    BY DEF Holders
  <1>1. CASE Stays
    BY <1>1 DEF Stays, Holding
  <1>2. CASE Discover
    BY <1>2 DEF Discover, Holding
  <1>3. ASSUME NEW m \in Modules, Settles(m) PROVE \A n \in Modules : Holding(n)' => Holding(n)
    BY <1>3 DEF Settles, Holding, RecordTypes
  <1>4. ASSUME NEW m \in Modules, Works(m) PROVE \A n \in Modules : Holding(n)' => Holding(n)
    <2>1. CASE BackendLoads(m) \/ BackendFailsHolding(m) \/ BackendFails(m)
      BY <2>1 DEF BackendLoads, BackendFailsHolding, BackendFails, Loading, OperationExact
    <2>2. CASE StartLoad(m)
      BY <2>2 DEF StartLoad, Turn
    <2>3. CASE PrepareUnload(m) \/ PreparationFails(m) \/ StartCleanup(m) \/ ResumeCleanup(m)
      BY <2>3 DEF PrepareUnload, PreparationFails, StartCleanup, ResumeCleanup, Holding, RecordTypes
    <2>4. CASE BeginUnload(m) \/ RevokeContributions(m) \/ FinishUnload(m) \/ BackendUnload(m)
      <3>1. PhaseDone(m) \/ CleanupFails(m) \/ Unloaded(m)
        BY <2>4 DEF BeginUnload, RevokeContributions, FinishUnload, BackendUnload
      <3>2. CASE PhaseDone(m)
        BY <3>2 DEF PhaseDone, Holding
      <3>3. CASE CleanupFails(m)
        <4>1. handle' = handle /\ \A n \in Modules : state'[n] = "Loaded" => state[n] = "Loaded"
          BY <3>3 DEF CleanupFails, RecordTypes
        <4> QED
          BY <4>1 DEF Holding
      <3>4. CASE Unloaded(m)
        <4>1. /\ state'[m] # "Loaded" /\ \A n \in Modules \ {m} : state'[n] = state[n]
              /\ ~handle'[m] /\ \A n \in Modules \ {m} : handle'[n] = handle[n]
          BY <3>4 DEF Unloaded, RecordTypes
        <4> QED
          BY <4>1 DEF Holding
      <3> QED
        BY <3>1, <3>2, <3>3, <3>4
    <2> QED
      BY <1>4, <2>1, <2>2, <2>3, <2>4 DEF Works
  <1> QED
    BY StepKinds, <1>1, <1>2, <1>3, <1>4

\* Every step keeps the graph free of cycles while it matters.
LEMMA GraphStep ==
    ASSUME RecordTypes, op \in Operations, RecordsExact, OperationExact, GraphExact, [Next]_vars
    PROVE  GraphExact'
  <1>1. CASE deps' = files.deps /\ Acyclic(files.deps)
    <2>1. Acyclic(deps)'
      BY <1>1 DEF Acyclic
    <2> QED
      BY <2>1 DEF GraphExact, HeldGraphAcyclic
  <1>2. CASE op' = Idle /\ UNCHANGED handle /\ Holders = {} /\ \A m \in Modules : state'[m] = "Discovered"
    <2>1. Holders' = {}
      BY <1>2 DEF Holders, Holding
    <2> QED
      BY <1>2, <2>1, IdleFacts DEF GraphExact, HeldGraphAcyclic
  <1>3. CASE deps' = deps
    <2>0. Acyclic(deps)' <=> Acyclic(deps)
      BY <1>3 DEF Acyclic
    <2>1. Holders' # {} => Acyclic(deps)
      BY HoldersChange DEF GraphExact, HeldGraphAcyclic, OperationExact
    <2>2. op'.name \in {op.name, "none", "shutdown"} \/ Acyclic(deps)'
      <3>1. {"load", "build"} \subseteq Modes
        BY DEF Modes
      <3>2. CASE OperationStands \/ OperationWorks
        BY <3>2 DEF OperationStands, OperationWorks
      <3>3. CASE OperationReturns
        <4>1. PICK ok \in BOOLEAN : op' = Continued(ok)
          BY <3>3 DEF OperationReturns
        <4> QED
          BY <4>1, ContinuedFacts, IdleFacts DEF Continues
      <3>4. CASE op' = Idle \/ OperationShuts
        BY <3>4, IdleFacts DEF OperationShuts
      <3>5. CASE OperationBegins
        BY <3>5 DEF OperationBegins, SnapshotTaken, Refreshable, Acyclic
      <3>6. CASE ReloadPasses \/ RebuildPasses
        BY <3>1, <3>6, TurnedFacts DEF ReloadPasses, RebuildPasses
      <3> QED
        BY OperationKinds, <3>2, <3>3, <3>4, <3>5, <3>6
    <2> QED
      BY <2>0, <2>1, <2>2 DEF GraphExact, HeldGraphAcyclic
  <1> QED
    BY GraphChanges, <1>1, <1>2, <1>3

-----------------------------------------------------------------------------
(* The invariant, and what follows from it. *)

Invariant ==
    /\ TypeOK
    /\ RecordsExact /\ OperationExact
    /\ BackendExact /\ EnvironmentOutlivesModules
    /\ LinksExact /\ ReloadExact /\ GraphExact

\* The invariant holds at the start.
LEMMA InvariantAtStart == Init => Invariant
  <1> SUFFICES ASSUME Init PROVE Invariant
    OBVIOUS
  <1>1. TypeOK
    BY InitTypes
  <1>2. RecordsExact
    BY ModuleRuntimeAssumption DEF Init, RecordsExact, CleanupConsistent, CleanupPhases
  <1>3. OperationExact /\ ReloadExact
    BY IdleFacts DEF Init, OperationExact, ReloadExact
  <1>4. BackendExact /\ EnvironmentOutlivesModules
    BY DEF Init, BackendExact, NoDanglingContribution, EnvironmentOutlivesModules
  <1>5. LinksExact
    BY DEF Init, LinksExact
  <1>6. GraphExact
    <2>1. Holders = {}
      BY DEF Init, Holders, Holding
    <2> QED
      BY <2>1, IdleFacts DEF Init, GraphExact, HeldGraphAcyclic
  <1> QED
    BY <1>1, <1>2, <1>3, <1>4, <1>5, <1>6 DEF Invariant

\* Every step keeps the invariant.
LEMMA InvariantKept == Invariant /\ [Next]_vars => Invariant'
  <1> SUFFICES ASSUME Invariant, [Next]_vars PROVE Invariant'
    OBVIOUS
  <1>1. RecordTypes /\ op \in Operations
    BY TypeParts DEF Invariant
  <1>2. RecordTypes' /\ op' \in Operations
    BY <1>1, RecordTypesStep, OperationTypesStep
  <1>3. TypeOK'
    BY <1>2 DEF TypeOK, RecordTypes, Operations, Phases
  <1>4. RecordsExact'
    BY <1>1, <1>2, RecordsStep DEF Invariant
  <1>5. OperationExact'
    BY <1>1, <1>2, <1>4, OperationStepExact DEF Invariant
  <1>6. BackendExact' /\ EnvironmentOutlivesModules'
    BY <1>1, BackendStep, EnvironmentStep DEF Invariant
  <1>7. LinksExact'
    BY <1>1, LinksStep DEF Invariant
  <1>8. ReloadExact'
    BY <1>1, <1>2, <1>5, ReloadStep DEF Invariant
  <1>9. GraphExact'
    BY <1>1, GraphStep DEF Invariant
  <1> QED
    BY <1>3, <1>4, <1>5, <1>6, <1>7, <1>8, <1>9 DEF Invariant

\* Every reachable state satisfies the invariant.
LEMMA InvariantHolds == Spec => []Invariant
  BY InvariantAtStart, InvariantKept, PTL DEF Spec

\* Phase, state and handle of a record tell the same story, and only the busy
\* module has anything in progress.
THEOREM RecordsCorrect == Spec => []CleanupConsistent
  <1>1. Invariant => CleanupConsistent
    BY DEF Invariant, RecordsExact
  <1> QED
    BY <1>1, InvariantHolds, PTL

\* No registration points into a closed library, and no library is closed
\* before its module has been shut down.
THEOREM ContributionsCorrect == Spec => []NoDanglingContribution
  <1>1. Invariant => NoDanglingContribution
    BY DEF Invariant, BackendExact
  <1> QED
    BY <1>1, InvariantHolds, PTL

\* A Python module is in the process only while the session environment is.
THEOREM EnvironmentCorrect == Spec => []EnvironmentOutlivesModules
  <1>1. Invariant => EnvironmentOutlivesModules
    BY DEF Invariant
  <1> QED
    BY <1>1, InvariantHolds, PTL

\* While a module is in the process, so are its dependencies, and none of them
\* has begun its cleanup.
THEOREM DependenciesCorrect == Spec => []DependenciesLive
  <1>1. Invariant => DependenciesLive
    BY DEF Invariant, LinksExact, DependenciesLive, CleanupPhases
  <1> QED
    BY <1>1, InvariantHolds, PTL

\* No member of a reload starts anew while an old one still to be loaded is in
\* the process.
THEOREM ReloadCorrect == Spec => []ReplacementAfterUnload
  <1>1. Invariant => ReplacementAfterUnload
    BY DEF Invariant, ReloadExact, ReplacementAfterUnload
  <1> QED
    BY <1>1, InvariantHolds, PTL

\* The graph of held modules has an order, so shutdown always finds one.
THEOREM GraphCorrect == Spec => []HeldGraphAcyclic
  <1>1. Invariant => HeldGraphAcyclic
    BY DEF Invariant, GraphExact
  <1> QED
    BY <1>1, InvariantHolds, PTL

-----------------------------------------------------------------------------
(* The promise about module code. *)

\* Nothing enters or leaves; links may be given up.
LEMMA ImplementsUnlink ==
    ASSUME RecordTypes, RecordTypes', handle' = handle,
           \A n \in Modules : phase'[n] \in CleanupPhases <=> phase[n] \in CleanupPhases,
           \A n \in Modules : handle[n] => kept'[n] \subseteq kept[n]
    PROVE  Promise!Next
  <1>1. {n \in Modules : phase'[n] \in CleanupPhases} = {n \in Modules : phase[n] \in CleanupPhases}
    OBVIOUS
  <1>2. {n \in Modules : handle'[n]} = {n \in Modules : handle[n]}
    OBVIOUS
  <1>3. /\ [n \in Modules |-> IF handle'[n] THEN kept'[n] ELSE {}] \in [Modules -> SUBSET Modules]
        /\ \A n \in Modules :
             [k \in Modules |-> IF handle'[k] THEN kept'[k] ELSE {}][n] \subseteq
             [k \in Modules |-> IF handle[k] THEN kept[k] ELSE {}][n]
    BY DEF RecordTypes
  <1>4. Promise!Unlink
    BY <1>1, <1>2, <1>3 DEF Promise!Unlink
  <1> QED
    BY <1>4 DEF Promise!Next

\* A module comes in on the dependencies its descriptor named.
LEMMA ImplementsEnter ==
    ASSUME RecordTypes, RecordTypes', LinksExact, NEW m \in Modules, NEW usable \in BOOLEAN,
           ~handle[m], handle'[m], kept' = kept,
           \A n \in Modules \ {m} : handle'[n] = handle[n] /\ phase'[n] = phase[n],
           phase[m] \notin CleanupPhases, phase'[m] \in CleanupPhases <=> ~usable
    PROVE  Promise!Next
  <1> DEFINE In == {n \in Modules : handle[n]}
             Lv == {n \in Modules : phase[n] \in CleanupPhases}
             Ln == [n \in Modules |-> IF handle[n] THEN kept[n] ELSE {}]
  <1>1. m \notin In
    OBVIOUS
  <1>2. kept[m] \in SUBSET Modules /\ kept[m] \subseteq In \ Lv
    BY DEF RecordTypes, LinksExact, CleanupPhases
  <1>3. {n \in Modules : handle'[n]} = In \cup {m}
    OBVIOUS
  <1>4. {n \in Modules : phase'[n] \in CleanupPhases} = IF usable THEN Lv ELSE Lv \cup {m}
    OBVIOUS
  <1>5. [n \in Modules |-> IF handle'[n] THEN kept'[n] ELSE {}] = [Ln EXCEPT ![m] = kept[m]]
    OBVIOUS
  <1>6. Promise!Enter(m, kept[m], usable)
    BY <1>1, <1>2, <1>3, <1>4, <1>5 DEF Promise!Enter, Promise!Usable
  <1> QED
    BY <1>2, <1>6 DEF Promise!Next

\* A cleanup begins when nobody is linked to the module.
LEMMA ImplementsLeave ==
    ASSUME RecordTypes, RecordTypes', LinksExact, NEW m \in Modules,
           handle[m], handle' = handle, kept' = kept,
           phase[m] = "Prepare", phase'[m] \in CleanupPhases,
           \A n \in Modules \ {m} : phase'[n] = phase[n]
    PROVE  Promise!Next
  <1> DEFINE In == {n \in Modules : handle[n]}
             Lv == {n \in Modules : phase[n] \in CleanupPhases}
             Ln == [n \in Modules |-> IF handle[n] THEN kept[n] ELSE {}]
  <1>1. m \in In \ Lv
    BY DEF CleanupPhases
  <1>2. \A n \in In : m \notin Ln[n]
    BY DEF LinksExact
  <1>3. {n \in Modules : phase'[n] \in CleanupPhases} = Lv \cup {m}
    OBVIOUS
  <1>4. Promise!Leave(m)
    BY <1>1, <1>2, <1>3 DEF Promise!Leave, Promise!Usable
  <1> QED
    BY <1>4 DEF Promise!Next

\* A module whose cleanup is complete is out.
LEMMA ImplementsOut ==
    ASSUME RecordTypes, RecordTypes', NEW m \in Modules,
           phase[m] \in CleanupPhases, phase'[m] = "None", ~handle'[m],
           \A n \in Modules \ {m} :
              handle'[n] = handle[n] /\ phase'[n] = phase[n] /\ kept'[n] = kept[n]
    PROVE  Promise!Next
  <1> DEFINE In == {n \in Modules : handle[n]}
             Lv == {n \in Modules : phase[n] \in CleanupPhases}
             Ln == [n \in Modules |-> IF handle[n] THEN kept[n] ELSE {}]
  <1>1. m \in Lv
    OBVIOUS
  <1>2. {n \in Modules : handle'[n]} = In \ {m}
    OBVIOUS
  <1>3. {n \in Modules : phase'[n] \in CleanupPhases} = Lv \ {m}
    BY DEF CleanupPhases
  <1>4. [n \in Modules |-> IF handle'[n] THEN kept'[n] ELSE {}] = [Ln EXCEPT ![m] = {}]
    OBVIOUS
  <1>5. Promise!Out(m)
    BY <1>1, <1>2, <1>3, <1>4 DEF Promise!Out
  <1> QED
    BY <1>5 DEF Promise!Next

\* Every step does to the code of modules what the promise allows.
LEMMA PromiseStep ==
    ASSUME RecordTypes, RecordTypes', op \in Operations, RecordsExact, OperationExact, LinksExact,
           [Next]_vars
    PROVE  Promise!Next
  <1> USE DEF call, specs, status
  <1>1. CASE Stays
    BY <1>1, FollowsFacts, ImplementsUnlink DEF Stays
  <1>2. CASE Discover
    <2>1. /\ UNCHANGED <<handle, kept>> /\ \A n \in Modules : ~handle[n] /\ phase'[n] = "None"
      BY <1>2 DEF Discover, Holders, Holding
    <2>2. \A n \in Modules : phase[n] \notin CleanupPhases /\ phase'[n] \notin CleanupPhases
      BY <2>1 DEF RecordsExact, CleanupConsistent, CleanupPhases
    <2> QED
      BY <2>1, <2>2, ImplementsUnlink
  <1>3. ASSUME NEW m \in Modules, Settles(m) /\ Follows PROVE Promise!Next
    BY <1>3, FollowsFacts, ImplementsUnlink DEF Settles
  <1>4. ASSUME NEW m \in Modules, StartLoad(m) PROVE Promise!Next
    <2>1. UNCHANGED <<handle, phase>> /\ ~handle[m] /\ \A n \in Modules \ {m} : kept'[n] = kept[n]
      BY <1>4 DEF StartLoad, MayLoad, RecordTypes
    <2>2. \A n \in Modules : handle[n] => kept'[n] \subseteq kept[n]
      BY <2>1
    <2> QED
      BY <2>1, <2>2, ImplementsUnlink
  <1>5. ASSUME NEW m \in Modules, Loading(m) PROVE ~handle[m] /\ phase[m] = "None"
    BY <1>5 DEF Loading, RecordsExact, CleanupConsistent
  <1>6. ASSUME NEW m \in Modules, BackendLoads(m) PROVE Promise!Next
    <2>1. /\ UNCHANGED <<phase, kept>> /\ handle'[m] /\ \A n \in Modules \ {m} : handle'[n] = handle[n]
          /\ Loading(m)
      BY <1>6 DEF BackendLoads, RecordTypes
    <2> QED
      BY <2>1, <1>5, ImplementsEnter DEF CleanupPhases
  <1>7. ASSUME NEW m \in Modules, BackendFails(m) PROVE Promise!Next
    <2>1. /\ UNCHANGED <<handle, phase>>
          /\ kept'[m] = {} /\ \A n \in Modules \ {m} : kept'[n] = kept[n]
      BY <1>7 DEF BackendFails, RecordTypes
    <2>2. \A n \in Modules : handle[n] => kept'[n] \subseteq kept[n]
      BY <2>1
    <2> QED
      BY <2>1, <2>2, ImplementsUnlink
  <1>8. ASSUME NEW m \in Modules, BackendFailsHolding(m) PROVE Promise!Next
    <2>1. /\ kept' = kept /\ handle'[m] /\ Loading(m)
          /\ \A n \in Modules \ {m} : handle'[n] = handle[n] /\ phase'[n] = phase[n]
          /\ phase'[m] = FirstCleanupPhase(m)
      BY <1>8 DEF BackendFailsHolding, RecordTypes
    <2>2. phase'[m] \in CleanupPhases /\ phase[m] \notin CleanupPhases /\ ~handle[m]
      BY <1>5, <2>1 DEF FirstCleanupPhase, CleanupPhases
    <2> QED
      BY <2>1, <2>2, ImplementsEnter
  <1>9. ASSUME NEW m \in Modules, PrepareUnload(m) \/ PreparationFails(m) \/ ResumeCleanup(m)
        PROVE  Promise!Next
    <2>1. UNCHANGED <<handle, kept>>
      BY <1>9 DEF PrepareUnload, PreparationFails, ResumeCleanup
    <2>2. \A n \in Modules \ {m} : phase'[n] = phase[n]
      BY <1>9 DEF PrepareUnload, PreparationFails, ResumeCleanup, RecordTypes
    <2>3. phase'[m] \in CleanupPhases <=> phase[m] \in CleanupPhases
      <3>1. CASE PrepareUnload(m)
        <4>1. phase'[m] = "Prepare" /\ phase[m] = "None"
          BY <3>1, QuietRecords DEF PrepareUnload, Turn, RecordTypes
        <4> QED
          BY <4>1 DEF CleanupPhases
      <3>2. CASE PreparationFails(m)
        BY <3>2 DEF PreparationFails, RecordTypes, CleanupPhases
      <3>3. CASE ResumeCleanup(m)
        BY <3>3 DEF ResumeCleanup
      <3> QED
        BY <1>9, <3>1, <3>2, <3>3
    <2> QED
      BY <2>1, <2>2, <2>3, ImplementsUnlink
  <1>10. ASSUME NEW m \in Modules, StartCleanup(m) PROVE Promise!Next
    <2>1. /\ UNCHANGED <<handle, kept>> /\ phase[m] = "Prepare" /\ handle[m]
          /\ phase'[m] = FirstCleanupPhase(m) /\ \A n \in Modules \ {m} : phase'[n] = phase[n]
      BY <1>10 DEF StartCleanup, RecordTypes, RecordsExact
    <2>2. phase'[m] \in CleanupPhases
      BY <2>1 DEF FirstCleanupPhase, CleanupPhases
    <2> QED
      BY <2>1, <2>2, ImplementsLeave
  <1>11. ASSUME NEW m \in Modules,
                BeginUnload(m) \/ RevokeContributions(m) \/ FinishUnload(m) \/ BackendUnload(m)
         PROVE  Promise!Next
    <2>1. phase[m] \in CleanupPhases
      BY <1>11 DEF BeginUnload, RevokeContributions, FinishUnload, BackendUnload, Cleaning, CleanupPhases
    <2>2. CASE PhaseDone(m)
      <3>1. /\ UNCHANGED <<handle, kept>> /\ phase'[m] = NextPhase(phase[m])
            /\ \A n \in Modules \ {m} : phase'[n] = phase[n]
        BY <2>2 DEF PhaseDone, RecordTypes
      <3>2. phase'[m] \in CleanupPhases
        BY <3>1 DEF NextPhase, CleanupPhases
      <3> QED
        BY <2>1, <3>1, <3>2, ImplementsUnlink
    <2>3. CASE CleanupFails(m)
      BY <2>3, ImplementsUnlink DEF CleanupFails
    <2>4. CASE Unloaded(m)
      <3>1. /\ phase'[m] = "None" /\ ~handle'[m]
            /\ \A n \in Modules \ {m} :
                 handle'[n] = handle[n] /\ phase'[n] = phase[n] /\ kept'[n] = kept[n]
        BY <2>4 DEF Unloaded, RecordTypes
      <3> QED
        BY <2>1, <3>1, ImplementsOut
    <2> QED
      BY <1>11, <2>2, <2>3, <2>4 DEF BeginUnload, RevokeContributions, FinishUnload, BackendUnload
  <1> QED
    BY StepKinds, <1>1, <1>2, <1>3, <1>4, <1>6, <1>7, <1>8, <1>9, <1>10, <1>11 DEF Works

\* The runtime keeps what it promises about module code: nothing is used again
\* once its cleanup has begun, and no module loses a dependency it is linked to.
THEOREM PromiseKept == Spec => ImplementsModuleLinks
  <1>1. Init => Promise!Init
    BY DEF Init, Promise!Init, CleanupPhases
  <1>2. Invariant /\ Invariant' /\ [Next]_vars => [Promise!Next]_(Promise!vars)
    <2> SUFFICES ASSUME Invariant, Invariant', [Next]_vars PROVE Promise!Next
      OBVIOUS
    <2>1. RecordTypes /\ op \in Operations
      BY TypeParts DEF Invariant
    <2>2. RecordTypes'
      BY DEF Invariant, TypeOK, RecordTypes, Phases
    <2> QED
      BY <2>1, <2>2, PromiseStep DEF Invariant
  <1> QED
    BY <1>1, <1>2, InvariantHolds, PTL DEF Spec, ImplementsModuleLinks, Promise!Spec

=============================================================================
