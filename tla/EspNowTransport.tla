-------------------------- MODULE EspNowTransport --------------------------
(***************************************************************************)
(* The transport of one ESP-NOW node: the control queue, the frame in      *)
(* flight, the TDMA signals and the orderly stop (components/mesh:         *)
(* mesh_transport.c, mesh_tdma.c, mesh_audio.c, mesh_stop of mesh.c and    *)
(* the loop of mesh_task).                                                 *)
(*                                                                         *)
(* Threads: the caller of mesh_start and mesh_stop, the mesh task, the     *)
(* Wi-Fi task with the receive and send callbacks, the esp_timer task and  *)
(* the audio producer.  What a packet says to the session is               *)
(* EspNowSession; here it is a choice.                                     *)
(*                                                                         *)
(* Generations are only compared with the current one, so each holder of a *)
(* generation keeps whether it is current.  Whether a signal is serviced   *)
(* within its window is a choice, and so is the owner of a control window. *)
(* The bitmaps s_heard_bitmap and s_relay_bitmap are handled alike; `bits' *)
(* holds the set bits of both.                                             *)
(***************************************************************************)
EXTENDS Integers, Sequences, FiniteSetsExt, SequencesExt

CONSTANTS Bits,       \* the bits of the two bitmaps that can be set
          Capacity,   \* MESH_CONTROL_QUEUE_CAPACITY
          RelayRing,  \* usable entries of s_relay_ring
          MaxInputs   \* bound: speech and packets under way inside the node

ASSUME TransportAssumption ==
    /\ Capacity \in Nat \ {0} /\ RelayRing \in Nat \ {0} /\ MaxInputs \in Nat \ {0}

VARIABLES
    state, role,    \* s_state (joining is a part of "scanning"), s_role
    stop,           \* where mesh_stop is, "none" if it is not running
    was_active,     \* its local variable
    task,           \* where the mesh task is
    timer,          \* s_frame_timer is armed, for the current generation
    event,          \* frame event: in the timer callback or s_frame_event_queue
    slot, window,   \* slot and control signal: timer or semaphore, and its age
    inflight,       \* s_tx_inflight
    rx_callbacks,   \* s_rx_callbacks_active
    rx_queue,       \* packets in s_rx_queue
    producing,      \* a producer holds s_audio_producer_mutex, admitted
    tx_queue,       \* frames in s_tx_queue
    relays,         \* frames in s_relay_ring
    control,        \* s_control_queue, in the order of arrival
    bits,           \* s_heard_bitmap and s_relay_bitmap
    unreported      \* history: bits set in this session and in no STATUS sent

life   == <<state, role, stop, was_active, task>>
tdma   == <<timer, event, slot, window>>
inputs == <<rx_callbacks, rx_queue, producing, tx_queue, relays>>
status == <<control, bits, unreported>>
vars   == <<life, tdma, inflight, inputs, status>>

NoFrame   == [kind |-> "none", bits |-> {}]
stopping  == stop # "none"
rx_enabled == state # "idle" /\ ~stopping
Kinds     == {"JOIN_ACK", "SLOT_MAP", "GRANT", "RELEASE", "KEEPALIVE", "STATUS"}

Init ==
    /\ state = "idle" /\ role = "none" /\ stop = "none" /\ was_active = FALSE
    /\ task = "none"
    /\ timer = FALSE /\ event = "none" /\ slot = "none" /\ window = "none"
    /\ inflight = NoFrame
    /\ rx_callbacks = 0 /\ rx_queue = 0 /\ producing = FALSE /\ tx_queue = 0 /\ relays = 0
    /\ control = <<>> /\ bits = {} /\ unreported = {}

Room == rx_callbacks + rx_queue + tx_queue + relays + (IF producing THEN 1 ELSE 0) < MaxInputs
-----------------------------------------------------------------------------
(* enqueue_control_packet.  A packet replaces one of its kind with the     *)
(* same destination; the model has one joining node, hence one destination *)
(* for each kind.                                                          *)
Priority(kind) ==
    CASE kind = "JOIN_ACK"                         -> 2
      [] kind \in {"SLOT_MAP", "GRANT", "RELEASE"} -> 1
      [] OTHER                                     -> 0
MutReplaceable(kind) == kind \notin {"RELEASE", "KEEPALIVE"}
Replaceable(kind)    == kind # "RELEASE"

Item(kind, set) == [kind |-> kind, bits |-> set]
Queued(q, kind) == {i \in DOMAIN q : q[i].kind = kind}
Victim(q) == LET lowest == {i \in DOMAIN q : \A j \in DOMAIN q :
                                Priority(q[i].kind) <= Priority(q[j].kind)}
             IN  Min(lowest)
Rejected(q, item) ==
    LET victim == Priority(q[Victim(q)].kind)
    IN  victim > Priority(item.kind) \/ (victim = Priority(item.kind) /\ victim = 0)

(* The queue afterwards, and the bitmaps that go back to `bits': those of  *)
(* an evicted STATUS, or of one that was not queued (send_status).         *)
MutReplace(q, i, item) == [queue |-> [q EXCEPT ![i].bits = item.bits], back |-> {}]
Replace(q, i, item)    == [queue |-> [q EXCEPT ![i].bits = @ \cup item.bits], back |-> {}]
Evict(q, item) == [queue |-> Append(RemoveAt(q, Victim(q)), item), back |-> q[Victim(q)].bits]
Enqueue(q, item) ==
    IF stopping THEN [queue |-> q, back |-> item.bits]
    ELSE IF Replaceable(item.kind) /\ Queued(q, item.kind) # {}
    THEN Replace(q, Min(Queued(q, item.kind)), item)
    ELSE IF Len(q) < Capacity THEN [queue |-> Append(q, item), back |-> {}]
    ELSE IF Rejected(q, item) THEN [queue |-> q, back |-> item.bits]
    ELSE Evict(q, item)

(* One send_packet after another, from a queue and the bits so far; no     *)
(* handler sends more than four (check_peer_timeouts, two speakers).       *)
Send(result, kind) ==
    LET next == Enqueue(result.queue, Item(kind, {}))
    IN  [queue |-> next.queue, back |-> result.back \cup next.back]
SendAll(kinds, set) ==
    LET start  == [queue |-> control, back |-> set]
        first  == IF Len(kinds) > 0 THEN Send(start, kinds[1]) ELSE start
        second == IF Len(kinds) > 1 THEN Send(first, kinds[2]) ELSE first
        third  == IF Len(kinds) > 2 THEN Send(second, kinds[3]) ELSE second
    IN  IF Len(kinds) > 3 THEN Send(third, kinds[4]) ELSE third

(* dequeue_control_packet: the oldest packet if it is overdue, else the    *)
(* highest priority.                                                       *)
Selectable(q) ==
    {1, Min({i \in DOMAIN q : \A j \in DOMAIN q : Priority(q[i].kind) >= Priority(q[j].kind)})}

(* update_speaker_grants: on a change, each of up to two speakers released *)
(* (MESH_MAX_ACTIVE_SPEAKERS) and the grant.                               *)
GrantPackets ==
    IF role = "coordinator"
    THEN {<<>>, <<"GRANT">>, <<"RELEASE", "GRANT">>, <<"RELEASE", "RELEASE", "GRANT">>}
    ELSE {<<>>}
Note(set, packets) ==
    LET result == SendAll(packets, bits \cup set)
    IN  /\ control' = result.queue /\ bits' = result.back
        /\ unreported' = unreported \cup set
-----------------------------------------------------------------------------
(* tracked_esp_now_send: one frame in flight, only LEAVE while stopping;   *)
(* the driver may refuse the frame.                                        *)
MutMaySend(kind) == inflight = NoFrame
MaySend(kind)    == inflight = NoFrame /\ (stopping => kind = "LEAVE")
Transmit(kind, set) ==
    /\ MaySend(kind)
    /\ inflight' = [kind |-> IF kind = "LEAVE" THEN kind ELSE "other", bits |-> set]

(* The bits that the queued packets carry.                                 *)
Waiting == UNION {control[i].bits : i \in DOMAIN control}

(* esp_now_send_cb: the bitmaps of a failed STATUS go back.                *)
Restored(ok) == IF ok THEN {} ELSE inflight.bits
SendDone(ok) ==
    /\ inflight # NoFrame
    /\ bits' = bits \cup Restored(ok)
    /\ inflight' = NoFrame
    /\ unreported' = IF ok THEN unreported \ (inflight.bits \ (bits \cup Waiting)) ELSE unreported
    /\ UNCHANGED <<life, tdma, inputs, control>>

(* esp_now_recv_cb: admission, then the queue, unless the packet is        *)
(* malformed or the queue full.                                            *)
RxEnter ==
    /\ rx_enabled /\ rx_callbacks = 0 /\ Room
    /\ rx_callbacks' = 1
    /\ UNCHANGED <<life, tdma, inflight, rx_queue, producing, tx_queue, relays, status>>
RxPut ==
    /\ rx_callbacks = 1
    /\ rx_callbacks' = 0 /\ rx_queue' \in {rx_queue, rx_queue + 1}
    /\ UNCHANGED <<life, tdma, inflight, producing, tx_queue, relays, status>>

(* mesh_send_audio: admission under its mutex, then the queue, if it has   *)
(* room.                                                                   *)
ProducerEnter ==
    /\ ~producing /\ ~stopping /\ state = "active" /\ Room
    /\ producing' = TRUE
    /\ UNCHANGED <<life, tdma, inflight, rx_callbacks, rx_queue, tx_queue, relays, status>>
ProducerPut ==
    /\ producing
    /\ producing' = FALSE /\ tx_queue' \in {tx_queue, tx_queue + 1}
    /\ UNCHANGED <<life, tdma, inflight, rx_callbacks, rx_queue, relays, status>>
-----------------------------------------------------------------------------
(* TDMA.  After advance_tdma_generation, esp_timer_stop and                *)
(* drain_slot_signal nothing is current, but a timer callback that was     *)
(* already running may still deliver its event or signal.                  *)
Late(signal) == {"none", IF signal = "none" THEN "none" ELSE "stale"}
Unschedule == event' \in Late(event) /\ slot' \in Late(slot) /\ window' \in Late(window)

(* arm_frame_timer_at_generation_locked, for the current generation.       *)
Armed == ~stopping

(* frame_timer_callback rejects an old generation.                         *)
FrameTimer ==
    /\ timer /\ timer' = FALSE
    /\ event' = "current"
    /\ UNCHANGED <<life, slot, window, inflight, inputs, status>>

(* service_frame_boundary, under s_frame_timer_mutex; `own' is             *)
(* owns_control_window for the frame.                                      *)
BoundaryBegin ==
    /\ task = "work" /\ state = "active" /\ event # "none"
    /\ event' = "none"
    /\ task' = IF event = "current" /\ Armed THEN "boundary" ELSE "work"
    /\ UNCHANGED <<state, role, stop, was_active, timer, slot, window, inflight, inputs, status>>
BoundaryEnd(own) ==
    /\ task = "boundary" /\ task' = "work"
    /\ timer' = TRUE
    /\ slot' = "current" /\ window' = IF own THEN "current" ELSE window
    /\ UNCHANGED <<state, role, stop, was_active, event, inflight, inputs, status>>

(* service_tx_slot with send_audio_in_slot: own speech first, then relays. *)
(* A stale or late signal, a busy radio or a refused frame miss the slot.  *)
SlotMissed ==
    /\ task = "work" /\ state = "active" /\ slot # "none"
    /\ slot' = "none"
    /\ UNCHANGED <<life, timer, event, window, inflight, inputs, status>>
SlotTaken ==
    /\ task = "work" /\ state = "active" /\ slot = "current"
    /\ slot' = "none"
    /\ UNCHANGED <<life, timer, event, window, rx_callbacks, rx_queue, producing>>
SlotAudio ==
    /\ SlotTaken /\ tx_queue > 0
    /\ Transmit("AUDIO", {})
    /\ tx_queue' = tx_queue - 1 /\ UNCHANGED relays
    /\ \E packets \in GrantPackets, set \in SUBSET Bits : Note(set, packets)
SlotRelay ==
    /\ SlotTaken /\ tx_queue = 0 /\ relays > 0
    /\ Transmit("AUDIO", {})
    /\ relays' = relays - 1 /\ UNCHANGED tx_queue
    /\ \E bit \in Bits : Note({bit}, <<>>)

(* service_control_window: validity, a wait for the inflight, validity again. *)
WindowMissed ==
    /\ task \in {"work", "window"} /\ state = "active" /\ window # "none"
    /\ task' = "work" /\ window' = "none"
    /\ UNCHANGED <<state, role, stop, was_active, timer, event, slot, inflight, inputs, status>>
WindowOpen ==
    /\ task = "work" /\ state = "active" /\ window = "current"
    /\ task' = "window"
    /\ UNCHANGED <<state, role, stop, was_active, tdma, inflight, inputs, status>>
WindowSync ==
    /\ task = "window" /\ window = "current" /\ role = "coordinator"
    /\ task' = "work" /\ window' = "none"
    /\ Transmit("SYNC", {})
    /\ UNCHANGED <<state, role, stop, was_active, timer, event, slot, inputs, status>>
WindowControl ==
    /\ task = "window" /\ window = "current" /\ inflight = NoFrame /\ control # <<>>
    /\ task' = "work" /\ window' = "none"
    /\ \E i \in Selectable(control) : LET item == control[i] IN
         /\ control' = RemoveAt(control, i)
         /\ \/ Transmit(item.kind, item.bits) /\ UNCHANGED bits
            \/ inflight' = inflight /\ bits' = bits \cup item.bits  \* refused
    /\ UNCHANGED <<state, role, stop, was_active, timer, event, slot, inputs, unreported>>
-----------------------------------------------------------------------------
(* mesh_task: every turn begins with a look at s_stopping; what a turn     *)
(* does may come in any order here, and more than once.                    *)
MutTaskExit == task = "loop" /\ stopping /\ state = "active"
TaskExit    == task = "loop" /\ stopping
TaskLoop ==
    /\ task = "loop" /\ task' = (IF TaskExit THEN "none" ELSE "work")
    /\ UNCHANGED <<state, role, stop, was_active, tdma, inflight, inputs, status>>
EndTurn ==
    /\ task = "work" /\ task' = "loop"
    /\ UNCHANGED <<state, role, stop, was_active, tdma, inflight, inputs, status>>

(* mesh_task_scan and mesh_task_join.                                      *)
SendJoin ==
    /\ task = "work" /\ state = "scanning"
    /\ Transmit("JOIN", {})
    /\ UNCHANGED <<life, tdma, inputs, status>>
ScanTimeout ==
    /\ task = "work" /\ state = "scanning"
    /\ state' = "active" /\ role' = "coordinator"
    /\ timer' = Armed /\ Unschedule
    /\ UNCHANGED <<stop, was_active, task, inflight, inputs, status>>
JoinAccepted ==
    /\ task = "work" /\ state = "scanning" /\ rx_queue > 0
    /\ rx_queue' = rx_queue - 1
    /\ state' = "active" /\ role' = "participant"
    /\ UNCHANGED <<stop, was_active, task, tdma, inflight, rx_callbacks, producing, tx_queue,
                   relays, status>>

(* handle_packet: speech, also while scanning; a JOIN, a LEAVE, a SYNC, or *)
(* a packet without effect on the transport.                               *)
Packet == /\ task = "work" /\ rx_queue > 0 /\ rx_queue' = rx_queue - 1
          /\ UNCHANGED <<life, inflight, rx_callbacks, producing, tx_queue>>
HandleAudio ==
    /\ Packet
    /\ relays' \in {relays} \cup (IF state = "active" THEN {Min({relays + 1, RelayRing})} ELSE {})
    /\ \E packets \in GrantPackets, set \in SUBSET Bits : Note(set, packets)
    /\ UNCHANGED tdma
HandleJoin ==
    /\ Packet /\ state = "active" /\ role = "coordinator"
    /\ \E packets \in {<<"JOIN_ACK">>, <<"JOIN_ACK", "SLOT_MAP">>} : Note({}, packets)
    /\ UNCHANGED <<tdma, relays>>
HandleLeave ==
    /\ Packet /\ state = "active" /\ role = "coordinator"
    /\ Note({}, <<"SLOT_MAP">>)
    /\ UNCHANGED <<tdma, relays>>
HandleSync ==
    /\ Packet /\ state = "active" /\ role = "participant"
    /\ timer' = Armed /\ Unschedule
    /\ UNCHANGED <<relays, status>>
HandleOther == Packet /\ UNCHANGED <<tdma, relays, status>>

(* mesh_task_run_active_maintenance; send_status takes the bitmaps along.  *)
SendKeepalive ==
    /\ task = "work" /\ state = "active"
    /\ Note({}, <<"KEEPALIVE">>)
    /\ UNCHANGED <<life, tdma, inflight, inputs>>
SendStatus ==
    /\ task = "work" /\ state = "active"
    /\ \E packets \in GrantPackets :
         LET granted == SendAll(packets, bits)
             result  == Enqueue(granted.queue, Item("STATUS", granted.back))
         IN  control' = result.queue /\ bits' = result.back
    /\ UNCHANGED <<life, tdma, inflight, inputs, unreported>>

(* clear_transient_mesh_state.                                             *)
ClearTransient == /\ control' = <<>> /\ bits' = {} /\ unreported' = {}
                  /\ tx_queue' = 0 /\ relays' = 0

(* mesh_task_join: no answer in time.                                      *)
JoinDeadline ==
    /\ task = "work" /\ state = "scanning"
    /\ ClearTransient
    /\ UNCHANGED <<life, tdma, inflight, rx_callbacks, rx_queue, producing>>

(* check_peer_timeouts: a coordinator without some of its peers, and a     *)
(* participant without its coordinator.  The speakers among the peers, or  *)
(* whose time is over, are released; no grant follows if what is left of   *)
(* the selection has not changed.                                          *)
TimeoutPackets ==
    {<<"SLOT_MAP">>, <<"RELEASE", "SLOT_MAP">>, <<"RELEASE", "RELEASE", "SLOT_MAP">>,
     <<"GRANT", "SLOT_MAP">>, <<"RELEASE", "GRANT", "SLOT_MAP">>,
     <<"RELEASE", "RELEASE", "GRANT", "SLOT_MAP">>}
PeerTimeout ==
    /\ task = "work" /\ state = "active" /\ role = "coordinator"
    /\ \E packets \in TimeoutPackets : Note({}, packets)
    /\ UNCHANGED <<life, tdma, inflight, inputs>>
MutCoordinatorLost ==
    /\ task = "work" /\ state = "active" /\ role = "participant"
    /\ state' = "scanning" /\ role' = "none"
    /\ timer' = FALSE /\ event' = "none"
    /\ ClearTransient /\ rx_queue' = 0
    /\ UNCHANGED <<stop, was_active, task, slot, window, inflight, rx_callbacks, producing>>
CoordinatorLost ==
    /\ task = "work" /\ state = "active" /\ role = "participant"
    /\ state' = "scanning" /\ role' = "none"
    /\ timer' = FALSE /\ Unschedule
    /\ ClearTransient /\ rx_queue' = 0
    /\ UNCHANGED <<stop, was_active, task, inflight, rx_callbacks, producing>>
-----------------------------------------------------------------------------
(* mesh_start; the task is created.                                        *)
Start ==
    /\ state = "idle" /\ ~stopping
    /\ state' = "scanning" /\ task' = "loop"
    /\ UNCHANGED <<role, stop, was_active, tdma, inflight, inputs, status>>

StopBegin ==
    /\ state # "idle" /\ ~stopping
    /\ stop' = "timers" /\ was_active' = (state = "active")
    /\ UNCHANGED <<state, role, task, tdma, inflight, inputs, status>>

(* The generation advances and the timers stop, under s_frame_timer_mutex; *)
(* then both semaphores wake the task.                                     *)
MutMutexFree == TRUE
MutexFree    == task # "boundary"
StopTimers ==
    /\ stop = "timers" /\ MutexFree
    /\ stop' = "quiesce"
    /\ timer' = FALSE
    /\ event' \in Late(event)
    /\ slot' = "stale" /\ window' = "stale"
    /\ UNCHANGED <<state, role, was_active, task, inflight, inputs, status>>

(* The task has exited, the producers are out; the receive callback and    *)
(* the frame in flight get a limited time.  The task is assumed to exit    *)
(* within TASK_QUIESCE_TIMEOUT_MS.                                         *)
Quiet == task = "none" /\ ~producing
StopQuiesce(in_time) ==
    /\ stop = "quiesce" /\ Quiet
    /\ in_time => rx_callbacks = 0 /\ inflight = NoFrame
    /\ stop' = IF ~in_time THEN "force" ELSE IF was_active THEN "leave" ELSE "clear"
    /\ UNCHANGED <<state, role, was_active, task, tdma, inflight, inputs, status>>

StopLeave ==
    /\ stop = "leave"
    /\ \/ Transmit("LEAVE", {}) /\ stop' = "drain"
       \/ inflight' = inflight /\ stop' = "clear"   \* refused
    /\ UNCHANGED <<state, role, was_active, task, tdma, inputs, status>>
StopDrain(in_time) ==
    /\ stop = "drain"
    /\ in_time => inflight = NoFrame
    /\ stop' = IF in_time THEN "clear" ELSE "force"
    /\ UNCHANGED <<state, role, was_active, task, tdma, inflight, inputs, status>>

(* force_cleanup_esp_now_transport: the driver is shut down, the callbacks *)
(* inside are assumed to end within RX_QUIESCE_TIMEOUT_MS, and a frame in  *)
(* flight is abandoned.                                                    *)
StopForce ==
    /\ stop = "force" /\ rx_callbacks = 0
    /\ bits' = bits \cup inflight.bits /\ inflight' = NoFrame
    /\ stop' = "clear"
    /\ UNCHANGED <<state, role, was_active, task, tdma, inputs, control, unreported>>

StopClear ==
    /\ stop = "clear"
    /\ stop' = "none" /\ state' = "idle" /\ role' = "none" /\ was_active' = FALSE
    /\ ClearTransient /\ rx_queue' = 0
    /\ UNCHANGED <<task, tdma, inflight, rx_callbacks, producing>>

Stop == \/ StopTimers \/ StopLeave \/ StopForce \/ StopClear
        \/ \E in_time \in BOOLEAN : StopQuiesce(in_time) \/ StopDrain(in_time)

Work == \/ SendJoin \/ ScanTimeout \/ JoinDeadline \/ JoinAccepted \/ HandleAudio \/ HandleJoin
        \/ HandleLeave \/ HandleSync \/ HandleOther \/ SendKeepalive \/ SendStatus \/ PeerTimeout
        \/ CoordinatorLost \/ SlotAudio \/ SlotRelay

Callbacks == RxEnter \/ RxPut \/ ProducerEnter \/ ProducerPut \/ FrameTimer
             \/ \E ok \in BOOLEAN : SendDone(ok)

Next == \/ Start \/ StopBegin \/ Stop \/ TaskLoop \/ EndTurn \/ Work \/ Callbacks
        \/ BoundaryBegin \/ (\E own \in BOOLEAN : BoundaryEnd(own)) \/ SlotMissed
        \/ WindowMissed \/ WindowOpen \/ WindowSync \/ WindowControl

Spec == Init /\ [][Next]_vars

(* Every thread runs: mesh_stop, the turns of the task, the callbacks and  *)
(* the producer.  Nothing is assumed of the radio.                         *)
FairSpec ==
    /\ Spec
    /\ WF_vars(Stop) /\ WF_vars(TaskLoop) /\ WF_vars(EndTurn) /\ WF_vars(WindowMissed)
    /\ WF_vars(\E own \in BOOLEAN : BoundaryEnd(own)) /\ WF_vars(RxPut) /\ WF_vars(ProducerPut)
-----------------------------------------------------------------------------
Signal == {"none", "current", "stale"}

(* Types of the state; the control queue keeps within its capacity and     *)
(* holds at most one packet of a replaceable kind.                         *)
TypeOK ==
    /\ state \in {"idle", "scanning", "active"}
    /\ role \in {"none", "coordinator", "participant"}
    /\ stop \in {"none", "timers", "quiesce", "leave", "drain", "force", "clear"}
    /\ was_active \in BOOLEAN /\ task \in {"none", "loop", "work", "boundary", "window"}
    /\ timer \in BOOLEAN /\ event \in Signal /\ slot \in Signal /\ window \in Signal
    /\ inflight \in [kind : {"none", "LEAVE", "other"}, bits : SUBSET Bits]
    /\ producing \in BOOLEAN
    /\ rx_callbacks \in 0..1 /\ rx_queue \in Nat /\ tx_queue \in Nat /\ relays \in 0..RelayRing
    /\ control \in BoundedSeq([kind : Kinds, bits : SUBSET Bits], Capacity)
    /\ \A i, j \in DOMAIN control :
         (i < j /\ control[i].kind = control[j].kind) => control[i].kind = "RELEASE"
    /\ bits \in SUBSET Bits /\ unreported \in SUBSET Bits

(* When mesh_stop has returned nothing of the session is left behind: no   *)
(* task, callback or producer is inside, the queues are empty, no frame is *)
(* in flight and the frame timer is off.  mesh.c:360: "No producer or      *)
(* admitted callback may reach a queue after this point."                  *)
QuietWhenIdle ==
    state = "idle" =>
        /\ task = "none" /\ rx_callbacks = 0 /\ ~producing /\ ~timer
        /\ rx_queue = 0 /\ tx_queue = 0 /\ relays = 0 /\ control = <<>> /\ bits = {}
        /\ inflight = NoFrame

(* Outside a session nothing is scheduled: the frame timer is off, and     *)
(* every event or signal a late timer callback delivers is of an old       *)
(* generation.                                                             *)
NoStaleSchedule ==
    state # "active" => ~timer /\ "current" \notin {event, slot, window}

(* What the node has heard and relayed reaches a STATUS that is sent, for  *)
(* as long as its session lasts: replacing, evicting, rejecting, refusing  *)
(* or losing one never loses its bits.                                     *)
StatusKept == unreported \subseteq bits \cup Waiting \cup inflight.bits

(* While the node stops, LEAVE is the only frame it starts to send.        *)
OnlyLeaveWhileStopping ==
    [][stopping /\ inflight = NoFrame => inflight'.kind \in {"none", "LEAVE"}]_vars

(* mesh_stop comes to an end, whatever the task, the callbacks and the     *)
(* radio are doing when it begins.                                         *)
StopEnds == stopping ~> ~stopping
=============================================================================
