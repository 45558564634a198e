----------------------------- MODULE Dispatcher -----------------------------
(***************************************************************************)
(* The deferred dispatcher of core/termin-dispatch (src/dispatcher.cpp).   *)
(*                                                                         *)
(* Any thread posts, cancels, discards and drains.  Work lives in slots    *)
(* that are reused under a new generation; a ticket is a slot index with   *)
(* the generation it was issued under.  `mutex' protects the tables and is *)
(* held for one step here; `drain_mutex' is held by `drainer' from         *)
(* BeginDrain to EndDrain.  Callbacks and payload disposals run with no    *)
(* lock on `mutex' and may call the dispatcher again, so between the steps *)
(* of a drain every operation can interleave, those of the draining thread *)
(* included.                                                               *)
(*                                                                         *)
(* A piece of work is identified by the number of the allocation that      *)
(* accepted it, so works are numbered in posting order.  free_slots is the *)
(* multiset of the indices on the code's free stack: which of several free *)
(* slots a post reuses is left open.  Every payload has a dispose function.*)
(***************************************************************************)
EXTENDS Naturals, FiniteSets, Sequences, SequencesExt

CONSTANTS Threads,    \* host threads
          NoThread,   \* nobody holds drain_mutex / nobody destroys
          MaxAllocs,  \* bound: calls of allocate_locked
          MaxGen,     \* largest generation (2^32 - 1 in the code)
          Limits      \* the limits drain is called with

ASSUME DispatcherAssumption ==
    /\ NoThread \notin Threads
    /\ MaxAllocs \in Nat
    /\ MaxGen \in Nat \ {0}
    /\ Limits \subseteq Nat \ {0}

\* Generations wrap to 1 after MaxGen; a slot is reused that often only if
\* there are more allocations than that.
ASSUME NoWrapAssumption == MaxAllocs <= MaxGen

VARIABLES
    open, nslots, slots, free_slots, queue, queued_count,  \* tc_dispatcher
    drainer,      \* holder of drain_mutex; draining is true while there is one
    batch, dpc,   \* locals of the active drain: work left, point reached
    below,        \* disposals the draining thread owed when its drain began
    owed,         \* payloads each thread has taken out and must dispose
    inUser,       \* the thread runs host code, not dispatcher code
    phase, destroyer,                          \* progress of destroy
    allocs, ticket, calls, disposals, cancelled  \* history

core     == <<open, nslots, slots, free_slots, queue, queued_count>>
drainVars == <<drainer, batch, dpc, below>>
life     == <<phase, destroyer>>
history  == <<allocs, ticket, calls, disposals, cancelled>>
vars == <<core, drainVars, owed, inUser, life, history>>

Works   == 1..MaxAllocs
SlotIds == 1..MaxAllocs   \* a slot is created by an allocation
NoWork  == 0
NoTicket == [slot |-> 0, generation |-> 0]
Tickets  == [slot : SlotIds, generation : 1..MaxGen]
Entries  == [ticket : Tickets, work : Works]
Slots == [generation : 0..MaxGen,
          state : {"Free", "Queued", "Executing"},
          work : Works \cup {NoWork}]
EmptySlot == [generation |-> 0, state |-> "Free", work |-> NoWork]

Accepted == {w \in Works : ticket[w] # NoTicket}
SlotWorks(state) ==
    {slots[i].work : i \in {j \in 1..nslots : slots[j].state = state}}

-----------------------------------------------------------------------------
\* The tables, under mutex.

MutantGenerationKept(g) == IF g = 0 THEN 1 ELSE g
MutantGenerationTwice(g) == g + 2
NextGeneration(g) == IF g = MaxGen THEN 1 ELSE g + 1

FreeIndices == {i \in 1..nslots : free_slots[i] > 0}

\* allocate_locked pops a free slot, and extends the vector when there is none.
AllocIndices == IF FreeIndices # {} THEN FreeIndices ELSE {nslots + 1}

IsQueued(t) ==
    /\ t.slot \in 1..nslots
    /\ slots[t.slot].generation = t.generation
    /\ slots[t.slot].state = "Queued"

IsExecuting(t) ==
    /\ t.slot \in 1..nslots
    /\ slots[t.slot].generation = t.generation
    /\ slots[t.slot].state = "Executing"

MutantReleasedUnlisted(S) ==
    /\ slots' = [i \in SlotIds |->
                   IF i \in S
                   THEN [generation |-> slots[i].generation,
                         state |-> "Free", work |-> NoWork]
                   ELSE slots[i]]
    /\ UNCHANGED free_slots

\* release_locked for every slot of S, whatever it held.
Released(S) ==
    /\ slots' = [i \in SlotIds |->
                   IF i \in S
                   THEN [generation |-> slots[i].generation,
                         state |-> "Free", work |-> NoWork]
                   ELSE slots[i]]
    /\ free_slots' = [i \in SlotIds |->
                        free_slots[i] + (IF i \in S THEN 1 ELSE 0)]

-----------------------------------------------------------------------------
Init ==
    /\ open = TRUE
    /\ nslots = 0
    /\ slots = [i \in SlotIds |-> EmptySlot]
    /\ free_slots = [i \in SlotIds |-> 0]
    /\ queue = <<>>
    /\ queued_count = 0
    /\ drainer = NoThread
    /\ batch = <<>>
    /\ dpc = "idle"
    /\ below = {}
    /\ owed = [t \in Threads |-> {}]
    /\ inUser = [t \in Threads |-> TRUE]
    /\ phase = "live"
    /\ destroyer = NoThread
    /\ allocs = 0
    /\ ticket = [w \in Works |-> NoTicket]
    /\ calls = [w \in Works |-> 0]
    /\ disposals = [w \in Works |-> 0]
    /\ cancelled = {}

\* Host code of t may enter the dispatcher: once destroy has begun only the
\* callbacks of the drain it waits for still may.
CanCall(t) == inUser[t] /\ (phase = "live" \/ t = drainer)

\* allocate_locked takes slot i: a new or a free one, under its next generation.
TakeSlot(i, state, work) ==
    /\ nslots' = IF i > nslots THEN i ELSE nslots
    /\ slots' = [slots EXCEPT ![i] =
                   [generation |-> NextGeneration(slots[i].generation),
                    state |-> state, work |-> work]]
    /\ allocs' = allocs + 1

CanPost(t) == CanCall(t) /\ open /\ allocs < MaxAllocs

MutantEnqueuedFirst(tk) == <<tk>> \o queue
Enqueued(tk) == Append(queue, tk)

Post(t) ==
    /\ CanPost(t)
    /\ \E i \in AllocIndices :
         LET w  == allocs + 1
             tk == [slot |-> i, generation |-> NextGeneration(slots[i].generation)]
         IN  /\ TakeSlot(i, "Queued", w)
             /\ free_slots' = [free_slots EXCEPT ![i] = IF @ > 0 THEN @ - 1 ELSE 0]
             /\ queue' = Enqueued(tk)
             /\ ticket' = [ticket EXCEPT ![w] = tk]
    /\ queued_count' = queued_count + 1
    /\ UNCHANGED <<open, drainVars, owed, inUser, life, calls, disposals, cancelled>>

\* queue.push_back throws: the slot, its generation spent, becomes free again
\* and the caller keeps the payload.
PostFails(t) ==
    /\ CanPost(t)
    /\ \E i \in AllocIndices :
         /\ TakeSlot(i, "Free", NoWork)
         /\ free_slots' = [free_slots EXCEPT ![i] = IF @ > 0 THEN @ ELSE 1]
    /\ UNCHANGED <<open, queue, queued_count, drainVars, owed, inUser, life,
                   ticket, calls, disposals, cancelled>>

\* cancel with the ticket once issued for w; it returns false, and changes
\* nothing, unless that slot is queued under that generation.
Cancel(t, w) ==
    /\ CanCall(t)
    /\ IsQueued(ticket[w])
    /\ \E k \in 1..Len(queue) :
         /\ queue[k].slot = ticket[w].slot
         /\ queue' = RemoveAt(queue, k)
    /\ queued_count' = queued_count - 1
    /\ Released({ticket[w].slot})
    /\ owed' = [owed EXCEPT ![t] = @ \cup {slots[ticket[w].slot].work}]
    /\ inUser' = [inUser EXCEPT ![t] = FALSE]
    /\ cancelled' = cancelled \cup {w}
    /\ UNCHANGED <<open, nslots, drainVars, life, allocs, ticket, calls, disposals>>

MutantDiscardedExecutingToo(t) ==
    /\ Released({i \in 1..nslots : slots[i].state # "Free"})
    /\ owed' = [owed EXCEPT ![t] = @ \cup SlotWorks("Queued") \cup SlotWorks("Executing")]
    /\ queue' = <<>>
    /\ queued_count' = 0

\* The body of discard_pending: it scans the slots, not the queue.
Discarded(t) ==
    /\ Released({i \in 1..nslots : slots[i].state = "Queued"})
    /\ owed' = [owed EXCEPT ![t] = @ \cup SlotWorks("Queued")]
    /\ queue' = <<>>
    /\ queued_count' = 0

DiscardPending(t) ==
    /\ CanCall(t) /\ SlotWorks("Queued") # {}
    /\ Discarded(t)
    /\ inUser' = [inUser EXCEPT ![t] = FALSE]
    /\ UNCHANGED <<open, nslots, drainVars, life, history>>

\* dispose_payload: t calls the host's dispose function for w.  The disposals
\* an outer call of t still owes wait until t's drain has returned.
Dispose(t, w) ==
    /\ w \in owed[t]
    /\ drainer = t => w \notin below
    /\ owed' = [owed EXCEPT ![t] = @ \ {w}]
    /\ disposals' = [disposals EXCEPT ![w] = @ + 1]
    /\ inUser' = [inUser EXCEPT ![t] = TRUE]
    /\ UNCHANGED <<core, drainVars, life, allocs, ticket, calls, cancelled>>

Close(t) ==
    /\ CanCall(t) /\ open
    /\ open' = FALSE
    /\ UNCHANGED <<nslots, slots, free_slots, queue, queued_count,
                   drainVars, owed, inUser, life, history>>

-----------------------------------------------------------------------------
\* drain: a thread that finds drain_mutex taken waits, and the draining thread
\* itself, calling drain again from a callback, gets busy and changes nothing.

BeginDrain(t) ==
    /\ CanCall(t) /\ drainer = NoThread
    /\ drainer' = t
    /\ dpc' = "take"
    /\ below' = owed[t]
    /\ inUser' = [inUser EXCEPT ![t] = FALSE]
    /\ UNCHANGED <<core, batch, owed, life, history>>

\* The oldest min(limit, queued_count) entries become the batch.  The code
\* skips an entry whose slot is not queued; QueueExact says there is none.
TakeBatch(limit) ==
    /\ dpc = "take"
    /\ LET n == IF limit < queued_count THEN limit ELSE queued_count
           taken == SubSeq(queue, 1, n)
       IN  /\ batch' = [k \in 1..n |->
                          [ticket |-> taken[k], work |-> slots[taken[k].slot].work]]
           /\ queue' = SubSeq(queue, n + 1, Len(queue))
           /\ queued_count' = queued_count - n
           /\ slots' = [i \in SlotIds |->
                          IF \E k \in 1..n : queue[k].slot = i
                          THEN [generation |-> slots[i].generation,
                                state |-> "Executing", work |-> slots[i].work]
                          ELSE slots[i]]
    /\ dpc' = "next"
    /\ UNCHANGED <<open, nslots, free_slots, drainer, below, owed, inUser, life, history>>

\* The next callback of the batch begins, on the draining thread, unlocked.
RunCallback ==
    /\ dpc = "next" /\ batch # <<>> /\ owed[drainer] = below
    /\ dpc' = "calling"
    /\ calls' = [calls EXCEPT ![batch[1].work] = @ + 1]
    /\ inUser' = [inUser EXCEPT ![drainer] = TRUE]
    /\ UNCHANGED <<core, drainer, batch, below, owed, life, allocs, ticket,
                   disposals, cancelled>>

\* The callback has returned or thrown.  The slot is released if it is still
\* the executing one; the payload is disposed in either case.
CompleteCallback ==
    /\ dpc = "calling" /\ owed[drainer] = below /\ inUser[drainer]
    /\ Released(IF IsExecuting(batch[1].ticket) THEN {batch[1].ticket.slot} ELSE {})
    /\ owed' = [owed EXCEPT ![drainer] = @ \cup {batch[1].work}]
    /\ batch' = Tail(batch)
    /\ dpc' = "next"
    /\ inUser' = [inUser EXCEPT ![drainer] = FALSE]
    /\ UNCHANGED <<open, nslots, queue, queued_count, drainer, below, life, history>>

MutantEndDrainEarly ==
    /\ dpc = "next" /\ owed[drainer] = below
    /\ drainer' = NoThread
    /\ dpc' = "idle"
    /\ below' = {}
    /\ inUser' = [inUser EXCEPT ![drainer] = TRUE]
    /\ UNCHANGED <<core, batch, owed, life, history>>

MutantEndDrainKeepsLock ==
    /\ dpc = "next" /\ batch = <<>> /\ owed[drainer] = below
    /\ dpc' = "idle"
    /\ below' = {}
    /\ inUser' = [inUser EXCEPT ![drainer] = TRUE]
    /\ UNCHANGED <<core, drainer, batch, owed, life, history>>

EndDrain ==
    /\ dpc = "next" /\ batch = <<>> /\ owed[drainer] = below
    /\ drainer' = NoThread
    /\ dpc' = "idle"
    /\ below' = {}
    /\ inUser' = [inUser EXCEPT ![drainer] = TRUE]
    /\ UNCHANGED <<core, batch, owed, life, history>>

-----------------------------------------------------------------------------
\* destroy: close, wait for drain_mutex, discard, delete.  Its contract: t is
\* in no other call, and no other thread is, except in the drain waited for.

DestroyBegin(t) ==
    /\ phase = "live" /\ inUser[t] /\ drainer # t
    /\ \A u \in Threads : u = drainer \/ owed[u] = {}
    /\ below = {}
    /\ open' = FALSE
    /\ phase' = "waiting"
    /\ destroyer' = t
    /\ inUser' = [inUser EXCEPT ![t] = FALSE]
    /\ UNCHANGED <<nslots, slots, free_slots, queue, queued_count, drainVars, owed, history>>

MutantDestroyDoesNotWait ==
    /\ phase = "waiting"
    /\ Discarded(destroyer)
    /\ phase' = "discarding"
    /\ UNCHANGED <<open, nslots, drainVars, inUser, destroyer, history>>

DestroyDiscard ==
    /\ phase = "waiting" /\ drainer = NoThread
    /\ Discarded(destroyer)
    /\ phase' = "discarding"
    /\ UNCHANGED <<open, nslots, drainVars, inUser, destroyer, history>>

DestroyDelete ==
    /\ phase = "discarding" /\ owed[destroyer] = {}
    /\ phase' = "deleted"
    /\ UNCHANGED <<core, drainVars, owed, inUser, destroyer, history>>

\* After deletion nothing happens any more.
Deleted == phase = "deleted" /\ UNCHANGED vars

DrainStep == (\E limit \in Limits : TakeBatch(limit)) \/ RunCallback
             \/ CompleteCallback \/ EndDrain

Next ==
    \/ \E t \in Threads :
         \/ Post(t) \/ PostFails(t) \/ DiscardPending(t) \/ Close(t)
         \/ \E w \in Accepted : Cancel(t, w)
         \/ \E w \in owed[t] : Dispose(t, w)
         \/ BeginDrain(t) \/ DestroyBegin(t)
    \/ \E limit \in Limits : TakeBatch(limit)
    \/ RunCallback
    \/ CompleteCallback
    \/ EndDrain
    \/ DestroyDiscard
    \/ DestroyDelete
    \/ Deleted

Spec == Init /\ [][Next]_vars

\* A call under way proceeds: the dispatcher's own steps are taken and the
\* host's callbacks and dispose functions return.  Strong fairness of Dispose
\* says that a dispose function does not drain again for ever.
Fairness ==
    /\ WF_vars(DrainStep)
    /\ WF_vars(DestroyDiscard)
    /\ WF_vars(DestroyDelete)
    /\ \A t \in Threads : \A w \in Works : SF_vars(Dispose(t, w))

FairSpec == Spec /\ Fairness

-----------------------------------------------------------------------------
\* Type correctness of the dispatcher's tables and of the drain's locals.
TypeOK ==
    /\ open \in BOOLEAN
    /\ nslots \in 0..MaxAllocs
    /\ slots \in [SlotIds -> Slots]
    /\ free_slots \in [SlotIds -> Nat]
    /\ queue \in Seq(Tickets)
    /\ queued_count \in Nat
    /\ drainer \in Threads \cup {NoThread}
    /\ batch \in Seq(Entries)
    /\ dpc \in {"idle", "take", "next", "calling"}
    /\ below \in SUBSET Works
    /\ owed \in [Threads -> SUBSET Works]
    /\ inUser \in [Threads -> BOOLEAN]
    /\ phase \in {"live", "waiting", "discarding", "deleted"}
    /\ destroyer \in Threads \cup {NoThread}
    /\ allocs \in 0..MaxAllocs
    /\ ticket \in [Works -> Tickets \cup {NoTicket}]
    /\ calls \in [Works -> Nat]
    /\ disposals \in [Works -> Nat]
    /\ cancelled \in SUBSET Works

Held == SlotWorks("Queued") \cup SlotWorks("Executing")
          \cup UNION {owed[t] : t \in Threads}

\* queue lists every queued slot once, under the slot's current generation, and
\* queued_count is its length: the branch of drain that skips a stale entry
\* (dispatcher.cpp:239) and the one that reports a lost lifetime (266) are dead.
QueueExact ==
    /\ queued_count = Len(queue)
    /\ \A k \in 1..Len(queue) : IsQueued(queue[k])
    /\ \A j, k \in 1..Len(queue) : queue[j].slot = queue[k].slot => j = k
    /\ \A i \in 1..nslots :
         slots[i].state = "Queued" => \E k \in 1..Len(queue) : queue[k].slot = i

\* The executing slots are exactly those of the active drain's unfinished work,
\* each still holding that work, whatever callbacks cancel, discard or post.
BatchExact ==
    /\ \A k \in 1..Len(batch) :
         /\ IsExecuting(batch[k].ticket)
         /\ slots[batch[k].ticket.slot].work = batch[k].work
    /\ \A j, k \in 1..Len(batch) : batch[j].ticket.slot = batch[k].ticket.slot => j = k
    /\ \A i \in 1..nslots :
         slots[i].state = "Executing" =>
             \E k \in 1..Len(batch) : batch[k].ticket.slot = i

\* A slot is on the free stack once if it is free and not at all if it holds
\* work, so no two accepted works ever share a slot.
FreeListExact ==
    \A i \in 1..nslots :
        free_slots[i] = IF slots[i].state = "Free" THEN 1 ELSE 0

\* Tickets tell works apart for ever: no two accepted works got the same one, a
\* slot in use holds the work whose ticket names its current generation, and a
\* slot's generation is never behind a ticket issued for it.
TicketsExact ==
    /\ nslots <= allocs
    /\ \A i \in SlotIds :
         /\ slots[i].generation <= allocs
         /\ slots[i].state = "Free" <=> slots[i].work = NoWork
         /\ i > nslots => slots[i] = EmptySlot /\ free_slots[i] = 0
         /\ slots[i].state # "Free" =>
              ticket[slots[i].work] = [slot |-> i, generation |-> slots[i].generation]
    /\ \A w \in Works : w > allocs => ticket[w] = NoTicket
    /\ \A w \in Accepted :
         /\ ticket[w].slot <= nslots
         /\ ticket[w].generation <= slots[ticket[w].slot].generation
    /\ \A v, w \in Accepted : ticket[v] = ticket[w] => v = w

\* Queue, batch, free list and tickets describe the slots exactly, in every
\* interleaving: the work a ticket names is in one place or gone.
TablesExact == QueueExact /\ BatchExact /\ FreeListExact /\ TicketsExact

\* Only the holder of drain_mutex has a batch, and a nested drain never
\* disturbs the disposals its caller still owes.
DrainExact ==
    /\ drainer = NoThread <=> dpc = "idle"
    /\ dpc \in {"idle", "take"} => batch = <<>>
    /\ dpc = "calling" => batch # <<>>
    /\ drainer = NoThread => below = {}
    /\ drainer # NoThread => below \subseteq owed[drainer]
    /\ phase # "live" => destroyer # NoThread

\* dispatcher.h:45-48: the payload of accepted work has exactly one owner (a
\* slot or the thread about to dispose it) until it is disposed, once.
DisposedExactlyOnce ==
    /\ \A w \in Works :
         disposals[w] = IF w \in Accepted /\ w \notin Held THEN 1 ELSE 0
    /\ \A t, u \in Threads : t # u => owed[t] \cap owed[u] = {}
    /\ \A t \in Threads :
         owed[t] \cap (SlotWorks("Queued") \cup SlotWorks("Executing")) = {}

\* dispatcher.h:57-58 and docs/index.md:54-55: a cancel that returns true has
\* withdrawn the very work its ticket was issued for, before it was called.
CancelledNeverRuns ==
    /\ cancelled \subseteq Accepted
    /\ \A w \in cancelled :
         /\ calls[w] = 0
         /\ w \notin SlotWorks("Queued") \cup SlotWorks("Executing")

\* No work is called twice, none after its payload was handed to dispose, and
\* work that still waits in line has not been called.
CalledAtMostOnce ==
    /\ \A w \in Works : calls[w] <= 1
    /\ \A w \in SlotWorks("Queued") : calls[w] = 0
    /\ \A k \in 1..Len(batch) :
         calls[batch[k].work] = IF k = 1 /\ dpc = "calling" THEN 1 ELSE 0

\* The inductive invariant behind the theorems of Dispatcher_proofs.
OwnedWasAccepted ==
    /\ \A t \in Threads : owed[t] \subseteq Accepted
    /\ \A w \in Works : w \notin Accepted => calls[w] = 0

IndInv ==
    /\ TypeOK
    /\ QueueExact /\ BatchExact /\ FreeListExact /\ TicketsExact /\ DrainExact
    /\ DisposedExactlyOnce /\ OwnedWasAccepted
    /\ CancelledNeverRuns /\ CalledAtMostOnce

\* destroy returns with nothing left: no queued or executing work and every
\* payload the dispatcher accepted disposed.
DestroyedIsEmpty ==
    phase = "deleted" =>
        /\ Held = {}
        /\ \A w \in Accepted : disposals[w] = 1

\* How destroy gets there, inductive together with IndInv: once it has begun
\* nothing is accepted and only the drain it waits for and the destroying
\* thread still owe disposals; once it has discarded, nothing waits.
DestroyExact ==
    phase # "live" =>
        /\ open = FALSE /\ below = {}
        /\ destroyer \in Threads /\ drainer # destroyer
        /\ \A u \in Threads : u = drainer \/ u = destroyer \/ owed[u] = {}
        /\ phase # "waiting" => drainer = NoThread /\ SlotWorks("Queued") = {}
        /\ phase = "deleted" => owed[destroyer] = {}

\* A callback is called only for work whose payload nobody has begun to
\* dispose: the call never sees a freed payload.
CallBeforeDispose ==
    [][\A w \in Works : calls'[w] # calls[w] =>
          /\ disposals[w] = 0
          /\ \A t \in Threads : w \notin owed[t]]_vars

\* A payload taken out of its slot, or reserved by a drain, is disposed.
TakenIsDisposed ==
    \A w \in Works :
        (w \in Held \ SlotWorks("Queued")) ~> (disposals[w] = 1)

\* destroy returns.
DestroyReturns == (phase = "waiting") ~> (phase = "deleted")

-----------------------------------------------------------------------------
\* The dispatcher as the abstract line of work sees it.
LastWork == IF Accepted = {} THEN 0 ELSE CHOOSE w \in Accepted : \A v \in Accepted : v <= w
WaitingWorks == [k \in 1..Len(queue) |-> slots[queue[k].slot].work]
BatchWorks == [k \in 1..Len(batch) |-> batch[k].work]
ReservedWorks == IF dpc = "calling" THEN Tail(BatchWorks) ELSE BatchWorks
RunningWorks == IF dpc = "calling" THEN {batch[1].work} ELSE {}
DueWorks == UNION {owed[t] : t \in Threads}
DisposedWorks == {w \in Works : disposals[w] > 0}

Promise == INSTANCE DeferredWork WITH
    accepting <- open,
    last      <- LastWork,
    waiting   <- WaitingWorks,
    reserved  <- ReservedWorks,
    running   <- RunningWorks,
    due       <- DueWorks,
    disposed  <- DisposedWorks

\* Every run of the dispatcher, with its threads and slot reuse, is a run of
\* the abstract line of work: nothing is lost, repeated or overtaken.
ImplementsDeferredWork == Promise!Spec
=============================================================================
