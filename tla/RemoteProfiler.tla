--------------------------- MODULE RemoteProfiler ---------------------------
(***************************************************************************)
(* The remote profiler: the editor's source and the client's worker thread *)
(* on one side of a loopback connection, the target service's I/O thread   *)
(* and frame thread on the other (termin-profiler-remote and               *)
(* termin-frame-profiler).                                                 *)
(*                                                                         *)
(* The client's command queue is modelled access by access (SpscQueue).    *)
(* The target's two queues are of the same class; they are sequences here, *)
(* which ImplementsFifo justifies.  Messages between the two processes are *)
(* lost when a connection breaks, a service stops or a target dies; the    *)
(* client then connects anew.                                              *)
(***************************************************************************)
EXTENDS SpscQueue

CONSTANTS
    Names,              \* section names
    CommandCapacity,    \* config.command_queue_capacity of the target
    OutboundCapacity,   \* config.outbound_queue_capacity
    MaxControls,        \* bounds: controls the user sends,
    MaxFrames,          \*   frames a process completes while it captures,
    MaxConnections,     \*   connections the client makes,
    MaxFaults           \*   connections broken, services stopped, crashes

Kinds == {"start", "pause", "clear"}
Controls == [id : 1..MaxControls, kind : Kinds]

ASSUME ProfilerAssumption ==
    /\ {CommandCapacity, OutboundCapacity} \subseteq Nat \ {0}
    /\ {MaxControls, MaxFrames, MaxConnections, MaxFaults} \subseteq Nat
    /\ Items = Controls

VARIABLES
    \* the editor's source, under its mutex
    shown,          \* the session it shows as connected, or 0
    known,          \* names: what the dictionary messages told
    lastFrame,      \* the last frame of the session, or 0
    told,           \* frames reported as dropped since then
    nextRequest,    \* next_request_id
    \* the client's worker
    worker,         \* where it is
    link,           \* its connection, or 0
    stale,          \* history: controls queued when a connection ended
    \* the wire
    connections,    \* connections made so far
    toTarget,       \* connection -> messages on their way to the target
    toClient,       \* messages on their way to the client
    cut,            \* connections that broke
    faults,
    \* the target's I/O thread
    io,             \* where it is, "off" when there is no thread
    accepted,       \* the last connection taken from the listener, or reset
    served,         \* client_socket: the connection it serves, or 0
    hand,           \* the control it has received and not passed on
    sentNames,      \* sent_names of the session
    \* the target's frame thread
    frame,          \* where it is, "idle" when the service is stopped
    running,
    commands,       \* command_queue
    outbound,       \* outbound_queue
    capturing,
    fresh,          \* the capture holds a frame not packed yet
    completed,      \* completed_frames; a frame's number is its place among them
    pending,        \* pending_dropped_batches, one frame each
    applied         \* history: the control applied last

sourceVars == <<shown, known, lastFrame, told, nextRequest>>
wireVars == <<connections, toTarget, toClient, cut, faults>>
ioVars == <<io, accepted, served, hand, sentNames>>
frameVars == <<frame, running, commands, outbound, capturing, fresh, completed,
               pending, applied>>
clientVars == <<queueVars, sourceVars, worker, link, stale>>
targetVars == <<ioVars, frameVars>>
vars == <<clientVars, wireVars, targetVars>>

Init ==
    /\ QueueInit
    /\ shown = 0 /\ known = {} /\ lastFrame = 0 /\ told = 0 /\ nextRequest = 1
    /\ worker = "connecting" /\ link = 0 /\ stale = {}
    /\ connections = 0 /\ toTarget = [c \in 1..MaxConnections |-> <<>>]
    /\ toClient = <<>> /\ cut = {} /\ faults = 0
    /\ io = "off" /\ accepted = 0 /\ served = 0 /\ hand = Nothing /\ sentNames = {}
    /\ frame = "idle" /\ running = FALSE
    /\ commands = <<>> /\ outbound = <<>>
    /\ capturing = FALSE /\ fresh = FALSE /\ completed = 0 /\ pending = 0
    /\ applied = 0

-----------------------------------------------------------------------------
(* The wire.  A connection waits in the listener's backlog until accepted.  *)

HelloMsg == [type |-> "hello"]
TargetOpen(c) == c \notin cut /\ (c > accepted \/ c = served)
ClientOpen(c) == c \notin cut /\ c = link

(* What the client writes arrives while the other end is open. *)
Transmitted(c, msg) ==
    toTarget' = IF TargetOpen(c) THEN [toTarget EXCEPT ![c] = Append(@, msg)] ELSE toTarget
Returned(msgs) ==
    toClient' = IF ClientOpen(served) THEN toClient \o msgs ELSE toClient

-----------------------------------------------------------------------------
(* The editor's threads: RemoteFrameProfilerSource::send holds the mutex of *)
(* the source from the test of the status to the end of the push; a full    *)
(* queue refuses the control.                                               *)

MutexFree == ~putting

Send(kind) ==
    /\ MutexFree
    /\ shown # 0
    /\ nextRequest <= MaxControls
    /\ nextRequest' = nextRequest + 1
    /\ \/ WriteSlot([id |-> nextRequest, kind |-> kind])
       \/ IsFull /\ UNCHANGED queueVars
    /\ UNCHANGED <<shown, known, lastFrame, told, worker, link, stale, wireVars, targetVars>>

SendEnds ==
    /\ PublishTail
    /\ UNCHANGED <<sourceVars, worker, link, stale, wireVars, targetVars>>

-----------------------------------------------------------------------------
(* The client's worker thread: run and serve. *)

Connect ==
    /\ worker = "connecting"
    /\ running
    /\ connections < MaxConnections
    /\ connections' = connections + 1
    /\ link' = connections'
    /\ toTarget' = [toTarget EXCEPT ![link'] = <<HelloMsg>>]
    /\ toClient' = <<>>
    /\ worker' = "greeting"
    /\ UNCHANGED <<queueVars, sourceVars, stale, cut, faults, targetVars>>

(* The handler takes TargetHello: a session starts with nothing known. *)
ReceiveHello ==
    /\ worker = "greeting"
    /\ MutexFree
    /\ toClient # <<>>
    /\ toClient' = Tail(toClient)
    /\ shown' = link
    /\ known' = {} /\ lastFrame' = 0 /\ told' = 0
    /\ worker' = "serving"
    /\ UNCHANGED <<queueVars, nextRequest, link, stale, connections, toTarget, cut, faults, targetVars>>

HandshakeFails ==
    /\ worker = "greeting"
    /\ ~TargetOpen(link)
    /\ link' = 0 /\ toClient' = <<>>
    /\ worker' = "connecting"
    /\ UNCHANGED <<queueVars, sourceVars, stale, connections, toTarget, cut, faults, targetVars>>

(* try_pop, in serve or in discard_pending_commands: here the slot, and the *)
(* head in the step that does something with the control.                   *)
PopControl ==
    /\ worker \in {"serving", "discarding"}
    /\ EmptySlot
    /\ UNCHANGED <<sourceVars, worker, link, stale, wireVars, targetVars>>

TransmitControl ==
    /\ worker = "serving"
    /\ PublishHead
    /\ Transmitted(link, [type |-> "control", control |-> taken])
    /\ \/ worker' = worker
       \/ ~TargetOpen(link) /\ worker' = "leaving"
    /\ UNCHANGED <<sourceVars, link, stale, connections, toClient, cut, faults, targetVars>>

QueueSeenEmpty ==
    /\ worker = "serving"
    /\ ~taking /\ IsEmpty
    /\ worker' = "waiting"
    /\ UNCHANGED <<queueVars, sourceVars, link, stale, wireVars, targetVars>>

(* The handler projects a message under the mutex of the source. *)
ReadMessage ==
    /\ worker = "waiting"
    /\ MutexFree
    /\ toClient # <<>>
    /\ toClient' = Tail(toClient)
    /\ LET msg == Head(toClient) IN
       /\ known' = IF msg.type = "names" THEN known \cup msg.names ELSE known
       /\ told' = CASE msg.type = "drop" -> told + msg.count
                    [] msg.type = "frame" -> 0
                    [] OTHER -> told
       /\ lastFrame' = IF msg.type = "frame" THEN msg.number ELSE lastFrame
    /\ worker' = "serving"
    /\ UNCHANGED <<queueVars, shown, nextRequest, link, stale, connections, toTarget, cut, faults, targetVars>>

WaitTimesOut ==
    /\ worker = "waiting"
    /\ toClient = <<>>
    /\ worker' = "serving"
    /\ UNCHANGED <<queueVars, sourceVars, link, stale, wireVars, targetVars>>

ReadFails ==
    /\ worker = "waiting"
    /\ ~TargetOpen(link)
    /\ worker' = "leaving"
    /\ UNCHANGED <<queueVars, sourceVars, link, stale, wireVars, targetVars>>

Release ==
    /\ worker = "leaving"
    /\ link' = 0 /\ toClient' = <<>>
    /\ stale' = stale \cup {Contents[k].id : k \in DOMAIN Contents}
    /\ worker' = "discarding"
    /\ UNCHANGED <<queueVars, sourceVars, connections, toTarget, cut, faults, targetVars>>

DiscardControl ==
    /\ worker = "discarding"
    /\ PublishHead
    /\ UNCHANGED <<sourceVars, worker, link, stale, wireVars, targetVars>>

(* A plausible bug: nothing is discarded. *)
MutantDiscardEnds ==
    /\ worker = "discarding"
    /\ ~taking
    /\ worker' = "notifying"
    /\ UNCHANGED <<queueVars, sourceVars, link, stale, wireVars, targetVars>>

DiscardEnds ==
    /\ worker = "discarding"
    /\ ~taking /\ IsEmpty
    /\ worker' = "notifying"
    /\ UNCHANGED <<queueVars, sourceVars, link, stale, wireVars, targetVars>>

(* The disconnect handler takes the mutex of the source. *)
NotifyDisconnect ==
    /\ worker = "notifying"
    /\ MutexFree
    /\ shown' = 0
    /\ worker' = "connecting"
    /\ UNCHANGED <<queueVars, known, lastFrame, told, nextRequest, link, stale, wireVars, targetVars>>

-----------------------------------------------------------------------------
(* The target's I/O thread: io_main, handshake and serve_client. *)

Accept ==
    /\ io = "accepting"
    /\ running
    /\ accepted < connections
    /\ accepted' = accepted + 1
    /\ served' = accepted'
    /\ io' = "greeting"
    /\ UNCHANGED <<clientVars, wireVars, hand, sentNames, frameVars>>

(* A plausible bug: the names sent are those sent since the thread began. *)
MutantGreet ==
    /\ io = "greeting"
    /\ served # 0 /\ toTarget[served] # <<>>
    /\ toTarget' = [toTarget EXCEPT ![served] = Tail(@)]
    /\ Returned(<<HelloMsg>>)
    /\ io' = "serving"
    /\ UNCHANGED <<clientVars, connections, cut, faults, accepted, served, hand, sentNames, frameVars>>

Greet ==
    /\ io = "greeting"
    /\ served # 0 /\ toTarget[served] # <<>>
    /\ toTarget' = [toTarget EXCEPT ![served] = Tail(@)]
    /\ Returned(<<HelloMsg>>)
    /\ sentNames' = {}
    /\ io' = "serving"
    /\ UNCHANGED <<clientVars, connections, cut, faults, accepted, served, hand, frameVars>>

(* What one packet is on the wire: names not sent yet, the loss before it,  *)
(* then the status or the frame.                                            *)
WireOf(packet) ==
    LET added == packet.names \ sentNames IN
    (IF added # {} THEN <<[type |-> "names", names |-> added]>> ELSE <<>>)
    \o (IF packet.drop # 0 THEN <<[type |-> "drop", count |-> packet.drop]>> ELSE <<>>)
    \o <<packet.body>>

SendPacket ==
    /\ io = "serving"
    /\ running
    /\ outbound # <<>>
    /\ outbound' = Tail(outbound)
    /\ Returned(WireOf(Head(outbound)))
    /\ sentNames' = sentNames \cup Head(outbound).names
    /\ io' = io
    /\ UNCHANGED <<clientVars, connections, toTarget, cut, faults, accepted, served, hand, frame,
                   running, commands, capturing, fresh, completed, pending, applied>>

OutboundSeenEmpty ==
    /\ io = "serving"
    /\ outbound = <<>>
    /\ io' = "waiting"
    /\ UNCHANGED <<clientVars, wireVars, accepted, served, hand, sentNames, frameVars>>

ReceiveControl ==
    /\ io = "waiting"
    /\ served # 0 /\ toTarget[served] # <<>>
    /\ hand' = Head(toTarget[served]).control
    /\ toTarget' = [toTarget EXCEPT ![served] = Tail(@)]
    /\ io' = "pushing"
    /\ UNCHANGED <<clientVars, connections, toClient, cut, faults, accepted, served, sentNames, frameVars>>

(* A full queue refuses the control with error 429. *)
PushCommand ==
    /\ io = "pushing"
    /\ \/ /\ Len(commands) < CommandCapacity
          /\ commands' = Append(commands, hand)
          /\ UNCHANGED toClient
       \/ /\ Len(commands) = CommandCapacity
          /\ Returned(<<[type |-> "error"]>>)
          /\ UNCHANGED commands
    /\ hand' = Nothing
    /\ io' = "serving"
    /\ UNCHANGED <<clientVars, connections, toTarget, cut, faults, accepted, served, sentNames, frame,
                   running, outbound, capturing, fresh, completed, pending, applied>>

NothingToReceive ==
    /\ io = "waiting"
    /\ served # 0 => toTarget[served] = <<>>
    /\ io' = "serving"
    /\ UNCHANGED <<clientVars, wireVars, accepted, served, hand, sentNames, frameVars>>

(* A closed or broken connection ends the session; release_client. *)
SessionEnds ==
    /\ io \in {"greeting", "serving", "waiting"}
    /\ running
    /\ ~ClientOpen(served)
    /\ served' = 0
    /\ toTarget' = IF served = 0 THEN toTarget ELSE [toTarget EXCEPT ![served] = <<>>]
    /\ io' = "accepting"
    /\ UNCHANGED <<clientVars, connections, toClient, cut, faults, accepted, hand, sentNames, frameVars>>

ThreadEnds ==
    /\ io \in {"accepting", "greeting", "serving", "waiting"}
    /\ ~running
    /\ io' = "off"
    /\ UNCHANGED <<clientVars, wireVars, accepted, served, hand, sentNames, frameVars>>

-----------------------------------------------------------------------------
(* The target's frame thread: start, stop and pump_frame_thread. *)

Start ==
    /\ frame = "idle"
    /\ running' = TRUE
    /\ io' = "accepting"
    /\ frame' = "free"
    /\ UNCHANGED <<clientVars, wireVars, accepted, served, hand, sentNames, commands, outbound,
                   capturing, fresh, completed, pending, applied>>

(* A host frame has ended; the active capture has it. *)
PumpBegin ==
    /\ frame = "free"
    /\ fresh' = (fresh \/ (capturing /\ completed < MaxFrames))
    /\ frame' = "pumping"
    /\ UNCHANGED <<clientVars, wireVars, ioVars, running, commands, outbound, capturing, completed,
                   pending, applied>>

Offered(packet) ==
    outbound' = IF Len(outbound) < OutboundCapacity THEN Append(outbound, packet) ELSE outbound

(* A plausible bug: a control stays in the queue until it is acknowledged. *)
MutantApplyCommand ==
    /\ frame = "pumping"
    /\ commands # <<>>
    /\ LET control == Head(commands) IN
       /\ capturing' = IF control.kind = "clear" THEN capturing ELSE control.kind = "start"
       /\ fresh' = (fresh /\ control.kind # "clear")
       /\ Offered([names |-> {}, drop |-> 0, body |-> [type |-> "status", id |-> control.id]])
       /\ applied' = control.id
    /\ commands' = IF Len(outbound) < OutboundCapacity THEN Tail(commands) ELSE commands
    /\ UNCHANGED <<clientVars, wireVars, ioVars, frame, running, completed, pending>>

(* apply_command: the acknowledgement is dropped when the queue is full. *)
ApplyCommand ==
    /\ frame = "pumping"
    /\ commands # <<>>
    /\ LET control == Head(commands) IN
       /\ capturing' = IF control.kind = "clear" THEN capturing ELSE control.kind = "start"
       /\ fresh' = (fresh /\ control.kind # "clear")
       /\ Offered([names |-> {}, drop |-> 0, body |-> [type |-> "status", id |-> control.id]])
       /\ applied' = control.id
    /\ commands' = Tail(commands)
    /\ UNCHANGED <<clientVars, wireVars, ioVars, frame, running, completed, pending>>

FramePacket(name, n, lost) ==
    [names |-> {name}, drop |-> lost, body |-> [type |-> "frame", number |-> n, name |-> name]]

(* A plausible bug: the loss is forgotten whether or not the packet that   *)
(* reports it was queued.                                                  *)
MutantPackFrame(name) ==
    /\ Offered(FramePacket(name, completed + 1, pending))
    /\ pending' = 0
    /\ completed' = completed + 1
    /\ fresh' = FALSE

(* enqueue_frame_packet: a full queue rejects the newest batch, and the    *)
(* next one that fits reports it.                                          *)
PackFrame(name) ==
    /\ Offered(FramePacket(name, completed + 1, pending))
    /\ pending' = IF Len(outbound) < OutboundCapacity THEN 0 ELSE pending + 1
    /\ completed' = completed + 1
    /\ fresh' = FALSE

PumpEnd ==
    /\ frame = "pumping"
    /\ commands = <<>>
    /\ \/ capturing /\ fresh /\ \E name \in Names : PackFrame(name)
       \/ ~(capturing /\ fresh) /\ UNCHANGED <<outbound, pending, completed, fresh>>
    /\ frame' = "free"
    /\ UNCHANGED <<clientVars, wireVars, ioVars, running, commands, capturing, applied>>

(* stop, up to the join: the sockets close, the backlog with them. *)
StopBegin ==
    /\ frame = "free"
    /\ faults < MaxFaults
    /\ faults' = faults + 1
    /\ running' = FALSE
    /\ served' = 0 /\ accepted' = connections
    /\ toTarget' = [c \in 1..MaxConnections |-> <<>>]
    /\ frame' = "stopping"
    /\ UNCHANGED <<clientVars, connections, toClient, cut, io, hand, sentNames, commands, outbound,
                   capturing, fresh, completed, pending, applied>>

(* A plausible bug: the queues are cleared without waiting for the thread. *)
MutantStopEnd ==
    /\ frame = "stopping"
    /\ commands' = <<>> /\ outbound' = <<>>
    /\ capturing' = FALSE /\ fresh' = FALSE /\ pending' = 0
    /\ frame' = "idle"
    /\ UNCHANGED <<clientVars, wireVars, ioVars, running, completed, applied>>

StopEnd ==
    /\ frame = "stopping"
    /\ io = "off"
    /\ commands' = <<>> /\ outbound' = <<>>
    /\ capturing' = FALSE /\ fresh' = FALSE /\ pending' = 0
    /\ frame' = "idle"
    /\ UNCHANGED <<clientVars, wireVars, ioVars, running, completed, applied>>

-----------------------------------------------------------------------------
(* Faults: a connection breaks, or the target's process dies and another   *)
(* takes its place.                                                        *)

Break ==
    /\ faults < MaxFaults
    /\ faults' = faults + 1
    /\ \E c \in {link, served} \ ({0} \cup cut) :
       /\ cut' = cut \cup {c}
       /\ \E kept \in 0..Len(toTarget[c]) :
             toTarget' = [toTarget EXCEPT ![c] = SubSeq(@, 1, kept)]
       /\ \E kept \in 0..Len(toClient) :
             toClient' = IF c = link THEN SubSeq(toClient, 1, kept) ELSE toClient
    /\ UNCHANGED <<clientVars, connections, targetVars>>

Crash ==
    /\ frame # "idle"
    /\ faults < MaxFaults
    /\ faults' = faults + 1
    /\ io' = "off" /\ served' = 0 /\ hand' = Nothing /\ sentNames' = {}
    /\ frame' = "idle" /\ running' = FALSE
    /\ commands' = <<>> /\ outbound' = <<>>
    /\ capturing' = FALSE /\ fresh' = FALSE /\ completed' = 0 /\ pending' = 0
    /\ accepted' = connections
    /\ toTarget' = [c \in 1..MaxConnections |-> <<>>]
    /\ UNCHANGED <<clientVars, connections, toClient, cut, applied>>

Source == (\E kind \in Kinds : Send(kind)) \/ SendEnds
Worker ==
    \/ Connect \/ ReceiveHello \/ HandshakeFails
    \/ PopControl \/ TransmitControl \/ QueueSeenEmpty
    \/ ReadMessage \/ WaitTimesOut \/ ReadFails
    \/ Release \/ DiscardControl \/ DiscardEnds \/ NotifyDisconnect
IoThread ==
    \/ Accept \/ Greet \/ SendPacket \/ OutboundSeenEmpty
    \/ ReceiveControl \/ PushCommand \/ NothingToReceive
    \/ SessionEnds \/ ThreadEnds
FrameThread == Start \/ PumpBegin \/ ApplyCommand \/ PumpEnd \/ StopBegin \/ StopEnd

Next == Source \/ Worker \/ IoThread \/ FrameThread \/ Break \/ Crash

Spec == Init /\ [][Next]_vars

-----------------------------------------------------------------------------
ToTargetMsgs == {HelloMsg} \cup [type : {"control"}, control : Controls]
ToClientMsgs ==
    {HelloMsg} \cup [type : {"error"}] \cup [type : {"names"}, names : SUBSET Names]
    \cup [type : {"drop"}, count : Nat] \cup [type : {"status"}, id : Nat]
    \cup [type : {"frame"}, number : Nat, name : Names]
Packets ==
    [names : SUBSET Names, drop : Nat,
     body : [type : {"status"}, id : Nat] \cup [type : {"frame"}, number : Nat, name : Names]]

(* Every variable holds a value of its kind: the queues of the target stay  *)
(* within their capacities, the target serves a connection it has accepted, *)
(* and nothing is applied or stale that was not sent.                       *)
TypeOK ==
    /\ QueueTypeOK
    /\ shown \in 0..MaxConnections /\ known \subseteq Names /\ {lastFrame, told} \subseteq Nat
    /\ nextRequest \in 1..(MaxControls + 1) /\ stale \subseteq 1..(nextRequest - 1)
    /\ worker \in {"connecting", "greeting", "serving", "waiting", "leaving", "discarding", "notifying"}
    /\ connections \in 0..MaxConnections /\ link \in 0..connections
    /\ toTarget \in [1..MaxConnections -> Seq(ToTargetMsgs)] /\ toClient \in Seq(ToClientMsgs)
    /\ cut \subseteq 1..connections /\ faults \in 0..MaxFaults
    /\ io \in {"off", "accepting", "greeting", "serving", "waiting", "pushing"}
    /\ accepted \in 0..connections /\ served \in 0..accepted
    /\ hand \in Controls \cup {Nothing} /\ sentNames \subseteq Names
    /\ frame \in {"idle", "free", "pumping", "stopping"}
    /\ {running, capturing, fresh} \subseteq BOOLEAN
    /\ commands \in Seq(Controls) /\ Len(commands) <= CommandCapacity
    /\ outbound \in Seq(Packets) /\ Len(outbound) <= OutboundCapacity
    /\ completed \in Nat /\ pending \in 0..completed /\ applied \in 0..(nextRequest - 1)

(* What the source is told is enough to show the frames it gets, whatever  *)
(* packets the full queue dropped and however often it connected: no name  *)
(* arrives twice (ingest would reject the message), every frame's name has *)
(* arrived before it, and the frames missing before it are as many as the  *)
(* drops reported since the frame before.                                  *)
StreamExact ==
    [][worker = "waiting" /\ Len(toClient') < Len(toClient) /\ worker' = "serving" =>
         LET msg == Head(toClient) IN
         /\ msg.type = "names" => msg.names \cap known = {}
         /\ msg.type = "frame" =>
              /\ msg.name \in known
              /\ lastFrame # 0 => msg.number = lastFrame + told + 1]_vars

(* No control is applied twice and none overtakes another, through broken  *)
(* connections, restarts and crashes of the target.                        *)
ControlsInOrder == [][ApplyCommand => Head(commands).id > applied]_vars

(* docs/index.md: "A stopped service clears its capture and both queues,   *)
(* so restart begins from a deterministic idle state."                     *)
StoppedIsIdle ==
    frame = "idle" =>
        /\ commands = <<>> /\ outbound = <<>> /\ hand = Nothing
        /\ ~capturing /\ ~fresh /\ pending = 0
        /\ io = "off" /\ served = 0

(* docs/index.md: "Queued controls are session-scoped and are discarded on *)
(* disconnect rather than being replayed against a new process."  What was *)
(* queued when the connection ended is never sent.                         *)
QueuedIsDiscarded ==
    [][worker = "serving" /\ taking /\ ~taking' => taken.id \notin stale]_vars
=============================================================================
