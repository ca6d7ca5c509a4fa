--------------------------- MODULE MeshLifecycle ---------------------------
(***************************************************************************)
(* How the rider's wish reaches the radio.  A long press of the button     *)
(* persists and sets the mesh intent (main/main.c, main/mesh_intent.c);    *)
(* the application loop compares the intent with the status the nRF        *)
(* reports and sends START or STOP (main/transport_nrf.c); the command is  *)
(* tagged with a generation and repeated until the nRF acknowledges it or  *)
(* a status shows its effect (components/uart_bridge/bridge_commands.c);   *)
(* the nRF's command worker applies the latest request and answers         *)
(* (nrf_mesh/src/mesh_protocol_runtime.c).                                 *)
(*                                                                         *)
(* Actors: the button task, the application loop, the ESP's SPI task with  *)
(* the receive callbacks it runs, the nRF's SPI thread, and the nRF's      *)
(* workqueue.  s_reconcile_attempts is shared without a lock, so it is     *)
(* read and written in steps of their own.  NrfOutbound models how the     *)
(* nRF's rings are drained; here a poll takes the oldest record, and one   *)
(* that fails may deliver it and keep it.  Left out: the peer count of a   *)
(* status with its join and leave tones, and legacy nRF firmware, which    *)
(* sends no COMMAND_ACK.                                                   *)
(***************************************************************************)
EXTENDS Integers, Sequences, SequencesExt, TLC

CONSTANTS CommandAttempts,    \* BRIDGE_COMMAND_MAX_ATTEMPTS
          ReconcileAttempts,  \* NRF_RECONCILE_MAX_ATTEMPTS
          GenMod,             \* size of the 8-bit generation space
          CtrlSlots,          \* usable entries of the nRF's control ring
          MaxPresses,         \* bound: button presses
          MaxUpsets,          \* bound: frames lost on the wire, failed polls,
                              \* waits that end with the answer under way,
                              \* restarts of either processor, expiries of the
                              \* status, and losses of the mesh, together
          RestartCost         \* bound: how many upsets each of the last three
                              \* counts for

ASSUME LifecycleAssumption ==
    /\ CommandAttempts \in Nat \ {0} /\ ReconcileAttempts \in Nat \ {0}
    /\ GenMod \in Nat \ {0} /\ CtrlSlots \in Nat \ {0}
    /\ MaxPresses \in Nat /\ MaxUpsets \in Nat /\ RestartCost \in Nat \ {0}

VARIABLES
    intent, nvs,                   \* mesh_intent's s_enabled and its copy in NVS
    button_pc,                     \* button task; nvs is what it requests
    main_pc, seen, tries,          \* application loop and its locals
    attempts, rest,                \* s_reconcile_attempts, ticks before the next
    observed,                      \* s_last_mesh_state, or "none"
    cmd, attempt, fresh_status,    \* send_mesh_command
    generation, ack,               \* its counter, and the ACK noted since
    connected, status,             \* status registry
    mesh_active, enable_pending, tone,  \* g_mesh_active, the "enabled" tone
    spi_pc, ctrl_pending, armed, rx,    \* ESP SPI task, control slot, DMA
    incoming,                      \* nRF SPI thread: command it is passing on
    request, status_pending, nrf_state, out,  \* nRF workqueue
    applied,                       \* history: the nRF has applied cmd
    presses, upsets

buttonVars == <<intent, nvs, button_pc>>
loopVars   == <<main_pc, seen, tries, attempts, rest, observed>>
cmdVars    == <<cmd, attempt, fresh_status, generation, ack>>
statusVars == <<connected, status>>
toneVars   == <<mesh_active, enable_pending, tone>>
spiVars    == <<spi_pc, ctrl_pending, armed, rx>>
nrfVars    == <<request, status_pending, nrf_state, out, applied>>
boundVars  == <<presses, upsets>>
espVars    == <<buttonVars, loopVars, cmdVars, statusVars, toneVars>>
vars == <<espVars, spiVars, incoming, nrfVars, boundVars>>

(* JOINING counts as "scanning": nothing below tells them apart.           *)
MeshStates == {"idle", "scanning", "active"}
Generations == 0..(GenMod - 1)

(* A control frame and a COMMAND_ACK name a command and its generation.    *)
None == [command |-> "none", generation |-> 0]
Ping == [command |-> "status", generation |-> 0]
Lifecycle == [command : {"start", "stop"}, generation : Generations]
Command(enable) == IF enable THEN "start" ELSE "stop"

(* s_requested_enabled, _command and _generation; NoRequest while          *)
(* s_control_pending is 0, when nothing reads them.                        *)
NoRequest == [enabled |-> FALSE, command |-> "none", generation |-> 0]
Requests  == [enabled : BOOLEAN, command : {"none", "start", "stop"},
              generation : Generations]

(* Records of the nRF's control ring.                                      *)
Rec(kind, state, tag) == [kind |-> kind, state |-> state, tag |-> tag]
StatusRec(s) == Rec("status", s, None)
EventRec(e)  == Rec(e, "none", None)
AckRec(t)    == Rec("ack", "none", t)
NoRec        == EventRec("none")

(* queue_control_packet for each of recs: the oldest records are dropped.  *)
Pushed(ring, recs) ==
    LET all == ring \o recs IN
    IF Len(all) > CtrlSlots THEN SubSeq(all, Len(all) - CtrlSlots + 1, Len(all))
                            ELSE all

(* The ESP as it boots, with the persisted intent wish; the nRF as it      *)
(* boots, with the status uart_bridge_init queues.                         *)
EspBoot(wish) ==
    /\ intent' = wish /\ button_pc' = "idle"
    /\ main_pc' = "probe" /\ seen' = "none" /\ tries' = 0
    /\ attempts' = 0 /\ rest' = 0 /\ observed' = "none"
    /\ cmd' = None /\ attempt' = 0 /\ fresh_status' = FALSE
    /\ generation' = 0 /\ ack' = None
    /\ connected' = FALSE /\ status' = "idle"
    /\ mesh_active' = FALSE /\ enable_pending' = FALSE /\ tone' = FALSE
    /\ spi_pc' = "transfer" /\ ctrl_pending' = None /\ armed' = None /\ rx' = NoRec

Init ==
    /\ nvs \in BOOLEAN /\ intent = nvs /\ button_pc = "idle"
    /\ main_pc = "probe" /\ seen = "none" /\ tries = 0
    /\ attempts = 0 /\ rest = 0 /\ observed = "none"
    /\ cmd = None /\ attempt = 0 /\ fresh_status = FALSE
    /\ generation = 0 /\ ack = None
    /\ connected = FALSE /\ status = "idle"
    /\ mesh_active = FALSE /\ enable_pending = FALSE /\ tone = FALSE
    /\ spi_pc = "transfer" /\ ctrl_pending = None /\ armed = None /\ rx = NoRec
    /\ incoming = None
    /\ request = NoRequest /\ status_pending = FALSE
    /\ nrf_state = "idle" /\ out = <<StatusRec("idle")>> /\ applied = FALSE
    /\ presses = 0 /\ upsets = 0
-----------------------------------------------------------------------------
(* button_long_press_callback, registered once the nRF has been probed:    *)
(* persist the toggled intent; a failed write leaves everything as it was. *)
Running == main_pc \notin {"probe", "probing"}

ButtonPersist(ok) ==
    /\ button_pc = "idle" /\ Running /\ presses < MaxPresses
    /\ presses' = presses + 1
    /\ IF ok
       THEN nvs' = ~intent /\ button_pc' = "set"
       ELSE UNCHANGED <<nvs, button_pc>>
    /\ UNCHANGED <<intent, loopVars, cmdVars, statusVars, toneVars, spiVars, incoming,
                   nrfVars, upsets>>

(* transport_nrf_set_user_enabled, under s_membership_mutex.               *)
MutButtonSet ==
    /\ button_pc = "set"
    /\ intent' = nvs
    /\ enable_pending' = nvs /\ UNCHANGED tone
    /\ mesh_active' = (mesh_active /\ nvs)
    /\ button_pc' = "reset"
    /\ UNCHANGED <<nvs, loopVars, cmdVars, statusVars, spiVars, incoming,
                   nrfVars, boundVars>>

ButtonSet ==
    /\ button_pc = "set"
    /\ intent' = nvs
    /\ enable_pending' = nvs /\ tone' = FALSE
    /\ mesh_active' = (mesh_active /\ nvs)
    /\ button_pc' = "reset"
    /\ UNCHANGED <<nvs, loopVars, cmdVars, statusVars, spiVars, incoming,
                   nrfVars, boundVars>>

(* transport_nrf_reset_reconciliation.                                     *)
ButtonReset ==
    /\ button_pc = "reset"
    /\ attempts' = 0 /\ rest' = 0
    /\ button_pc' = "apply"
    /\ UNCHANGED <<intent, nvs, main_pc, seen, tries, observed, cmdVars,
                   statusVars, toneVars, spiVars, incoming, nrfVars, boundVars>>

(* enable_mesh_from_button and disable_mesh_from_button with the nRF       *)
(* transport; disabling also cancels the tones.                            *)
ButtonApply ==
    /\ button_pc = "apply"
    /\ mesh_active' = FALSE
    /\ enable_pending' = (enable_pending /\ nvs)
    /\ tone' = (tone /\ nvs)
    /\ button_pc' = "idle"
    /\ UNCHANGED <<intent, nvs, loopVars, cmdVars, statusVars, spiVars,
                   incoming, nrfVars, boundVars>>
-----------------------------------------------------------------------------
(* select_transport: uart_bridge_probe asks for a status and waits for it. *)
MainProbe ==
    /\ main_pc = "probe"
    /\ ctrl_pending' = Ping /\ main_pc' = "probing"
    /\ UNCHANGED <<buttonVars, seen, tries, attempts, rest, observed, cmdVars,
                   statusVars, toneVars, spi_pc, armed, rx, incoming, nrfVars, boundVars>>

MainProbed ==
    /\ main_pc = "probing" /\ connected
    /\ main_pc' = "idle"
    /\ UNCHANGED <<buttonVars, seen, tries, attempts, rest, observed, cmdVars,
                   statusVars, toneVars, spiVars, incoming, nrfVars, boundVars>>

(* reconcile_mesh_state, no fresh status.                                  *)
MainDisconnected ==
    /\ main_pc = "idle" /\ ~connected
    /\ mesh_active' = FALSE
    /\ tone' = (tone /\ observed = "none")
    /\ observed' = "none" /\ main_pc' = "drain"
    /\ UNCHANGED <<buttonVars, seen, tries, attempts, rest, cmdVars, statusVars,
                   enable_pending, spiVars, incoming, nrfVars, boundVars>>

(* The status is read once; a change of state allows new attempts.  The    *)
(* intent is read here, again in MainMatch and again in MainSend.          *)
MainTick ==
    /\ main_pc = "idle" /\ connected
    /\ observed' = status
    /\ attempts' = IF observed = status THEN attempts ELSE 0
    /\ IF intent /\ status = "active"
       THEN main_pc' = "activate" /\ UNCHANGED <<seen, mesh_active>>
       ELSE main_pc' = "match" /\ seen' = status /\ mesh_active' = FALSE
    /\ UNCHANGED <<buttonVars, tries, rest, cmdVars, statusVars, enable_pending, tone,
                   spiVars, incoming, nrfVars, boundVars>>

MainActivate ==
    /\ main_pc = "activate"
    /\ mesh_active' = TRUE /\ main_pc' = "drain"
    /\ UNCHANGED <<buttonVars, seen, tries, attempts, rest, observed, cmdVars, statusVars,
                   enable_pending, tone, spiVars, incoming, nrfVars, boundVars>>

MutMainMatch ==
    /\ main_pc = "match"
    /\ IF intent = (seen # "idle")
       THEN attempts' = 0 /\ main_pc' = "drain"
       ELSE /\ UNCHANGED attempts
            /\ main_pc' = IF attempts > ReconcileAttempts \/ rest > 0 THEN "drain" ELSE "count"
    /\ seen' = "none"
    /\ UNCHANGED <<buttonVars, tries, rest, observed, cmdVars, statusVars, toneVars,
                   spiVars, incoming, nrfVars, boundVars>>

MainMatch ==
    /\ main_pc = "match"
    /\ IF intent = (seen # "idle")
       THEN attempts' = 0 /\ main_pc' = "drain"
       ELSE /\ UNCHANGED attempts
            /\ main_pc' = IF attempts >= ReconcileAttempts \/ rest > 0 THEN "drain" ELSE "count"
    /\ seen' = "none"
    /\ UNCHANGED <<buttonVars, tries, rest, observed, cmdVars, statusVars, toneVars,
                   spiVars, incoming, nrfVars, boundVars>>

(* s_reconcile_attempts++ is a read, and a write in MainSend.              *)
(* NRF_RECONCILE_INTERVAL_MS is two pauses of the loop.                    *)
MainCount ==
    /\ main_pc = "count"
    /\ rest' = 2 /\ tries' = attempts /\ main_pc' = "send"
    /\ UNCHANGED <<buttonVars, seen, attempts, observed, cmdVars, statusVars, toneVars,
                   spiVars, incoming, nrfVars, boundVars>>

(* drain_notifications, under s_membership_mutex: play what is queued.     *)
MainDrain ==
    /\ main_pc = "drain"
    /\ tone' = FALSE
    /\ main_pc' = "sleep"
    /\ UNCHANGED <<buttonVars, seen, tries, attempts, rest, observed, cmdVars, statusVars,
                   mesh_active, enable_pending, spiVars, incoming, nrfVars, boundVars>>

(* The loop sleeps for a second, in which frames under way arrive and      *)
(* requests are served; a wait that ends before that is an upset.          *)
Quiet == /\ out = <<>> /\ rx = NoRec /\ incoming = None
         /\ request = NoRequest /\ ~status_pending

Upset(n) ==
    /\ upsets + n <= MaxUpsets /\ upsets' = upsets + n
    /\ UNCHANGED presses

Delayed(late) == Upset(IF late THEN 1 ELSE 0)

MainSleep ==
    /\ main_pc = "sleep"
    /\ Delayed(~Quiet)
    /\ rest' = IF rest > 0 THEN rest - 1 ELSE 0
    /\ main_pc' = "idle"
    /\ UNCHANGED <<buttonVars, seen, tries, attempts, observed, cmdVars, statusVars,
                   toneVars, spiVars, incoming, nrfVars>>
-----------------------------------------------------------------------------
(* send_mesh_command: a new generation; an ACK or a status counts from     *)
(* here to the end of the exchange.  bridge_tx_queue_control replaces an   *)
(* unsent frame.                                                           *)
MainSend ==
    /\ main_pc = "send"
    /\ attempts' = tries + 1 /\ tries' = 0
    /\ generation' = (generation + 1) % GenMod
    /\ cmd' = [command |-> Command(intent), generation |-> generation']
    /\ ack' = None /\ fresh_status' = FALSE /\ attempt' = 1 /\ applied' = FALSE
    /\ ctrl_pending' = cmd'
    /\ main_pc' = "wait"
    /\ UNCHANGED <<buttonVars, seen, rest, observed, statusVars, toneVars, spi_pc, armed, rx,
                   incoming, request, status_pending, nrf_state, out, boundVars>>

CommandDone ==
    /\ cmd' = None /\ attempt' = 0 /\ fresh_status' = FALSE /\ ack' = None
    /\ applied' = FALSE
    /\ main_pc' = "drain"
    /\ UNCHANGED <<buttonVars, seen, tries, attempts, rest, observed, generation, statusVars,
                   toneVars, spiVars, incoming, request, status_pending, nrf_state, out>>

(* The exchange ends with the matching ACK,                                *)
MutMatches == ack.command = cmd.command

Matches == ack = cmd

MainAcked ==
    /\ main_pc = "wait" /\ Matches
    /\ CommandDone /\ UNCHANGED boundVars

(* or with a status received since that shows its effect,                  *)
MainObserved ==
    /\ main_pc = "wait" /\ ~Matches
    /\ connected /\ fresh_status
    /\ (cmd.command = "start") = (status # "idle")
    /\ CommandDone /\ UNCHANGED boundVars

(* or with the last timeout of BRIDGE_COMMAND_ACK_TIMEOUT_MS, or when the  *)
(* transmit mutex is busy as the frame is to be queued again.  The 300 ms  *)
(* are enough for an answer that nothing holds up.                         *)
UnderWay ==
    \/ cmd \in {ctrl_pending, armed, incoming}
    \/ request.command = cmd.command /\ request.generation = cmd.generation
    \/ rx.tag = cmd \/ Contains(out, AckRec(cmd))

MainSendBusy ==
    /\ main_pc = "send"
    /\ attempts' = tries + 1 /\ tries' = 0
    /\ generation' = (generation + 1) % GenMod
    /\ main_pc' = "drain"
    /\ Delayed(TRUE)
    /\ UNCHANGED <<buttonVars, seen, rest, observed, cmd, attempt, fresh_status, ack,
                   statusVars, toneVars, spiVars, incoming, nrfVars>>

MainRetry ==
    /\ main_pc = "wait" /\ ~Matches /\ attempt < CommandAttempts
    /\ Delayed(UnderWay)
    /\ attempt' = attempt + 1 /\ ctrl_pending' = cmd
    /\ UNCHANGED <<buttonVars, loopVars, cmd, fresh_status, generation, ack, statusVars,
                   toneVars, spi_pc, armed, rx, incoming, nrfVars>>

MainTimeout ==
    /\ main_pc = "wait" /\ ~Matches
    /\ Delayed(UnderWay \/ attempt < CommandAttempts)
    /\ CommandDone
-----------------------------------------------------------------------------
(* The ESP's SPI task: having parsed a frame it stages the control frame,  *)
(* if there is one, for the next poll.                                     *)
Rearm ==
    /\ rx' = NoRec /\ spi_pc' = "transfer"
    /\ armed' = ctrl_pending /\ ctrl_pending' = None

(* One poll of the nRF exchanges both frames; either may fail its CRC.     *)
Poll(command_lost, record_lost) ==
    LET record == IF out = <<>> THEN NoRec ELSE Head(out)
        lost == (IF command_lost THEN 1 ELSE 0) + (IF record_lost THEN 1 ELSE 0) IN
    /\ spi_pc = "transfer" /\ incoming = None
    /\ command_lost => armed # None
    /\ record_lost => out # <<>>
    /\ Upset(lost)
    /\ incoming' = IF command_lost THEN None ELSE armed
    /\ rx' = IF record_lost THEN NoRec ELSE record
    /\ out' = IF out = <<>> THEN out ELSE Tail(out)
    /\ armed' = None /\ spi_pc' = "parse"
    /\ UNCHANGED <<espVars, ctrl_pending, request, status_pending,
                   nrf_state, applied>>

(* spi_transceive errs: the nRF parses nothing and keeps its record, but   *)
(* the ESP's frame is gone and the ESP may have decoded that record.       *)
PollFailed(decoded) ==
    /\ spi_pc = "transfer" /\ incoming = None
    /\ IF decoded THEN out # <<>> ELSE armed # None
    /\ Upset(1)
    /\ rx' = IF decoded THEN Head(out) ELSE NoRec
    /\ armed' = None /\ spi_pc' = "parse"
    /\ UNCHANGED <<espVars, ctrl_pending, incoming, nrfVars>>

(* handle_rx_packet and the callbacks of transport_nrf.c, which are        *)
(* registered once the probe has succeeded.                                *)
RxNothing ==
    /\ spi_pc = "parse" /\ rx.kind \in {"none", "sync_lost", "became_coordinator"}
    /\ Rearm
    /\ UNCHANGED <<espVars, incoming, nrfVars, boundVars>>

RxAck ==
    /\ spi_pc = "parse" /\ rx.kind = "ack"
    /\ ack' = IF main_pc = "wait" THEN rx.tag ELSE ack
    /\ Rearm
    /\ UNCHANGED <<buttonVars, loopVars, cmd, attempt, fresh_status, generation,
                   statusVars, toneVars, incoming, nrfVars, boundVars>>

(* commit_status, under the status lock, then the status callback.         *)
RxStatus ==
    /\ spi_pc = "parse" /\ rx.kind = "status"
    /\ connected' = TRUE /\ status' = rx.state /\ fresh_status' = (main_pc = "wait")
    /\ spi_pc' = "status_cb"
    /\ UNCHANGED <<buttonVars, loopVars, cmd, attempt, generation, ack, toneVars,
                   ctrl_pending, armed, rx, incoming, nrfVars, boundVars>>

(* bridge_status_callback, under s_membership_mutex.                       *)
MutRxStatusCb ==
    LET ready == intent /\ rx.state = "active" /\ enable_pending IN
    /\ spi_pc = "status_cb"
    /\ IF Running
       THEN /\ mesh_active' = ready
            /\ tone' = (tone \/ ready)
            /\ enable_pending' = (enable_pending /\ ~ready)
       ELSE UNCHANGED toneVars
    /\ Rearm
    /\ UNCHANGED <<buttonVars, loopVars, cmdVars, statusVars, incoming, nrfVars, boundVars>>

RxStatusCb ==
    LET ready == intent /\ rx.state = "active" IN
    /\ spi_pc = "status_cb"
    /\ IF Running
       THEN /\ mesh_active' = ready
            /\ tone' = (tone \/ (ready /\ enable_pending))
            /\ enable_pending' = (enable_pending /\ ~ready)
       ELSE UNCHANGED toneVars
    /\ Rearm
    /\ UNCHANGED <<buttonVars, loopVars, cmdVars, statusVars, incoming, nrfVars, boundVars>>

(* bridge_event_callback, MESH_READY and MESH_STOPPED.                     *)
RxReady ==
    /\ spi_pc = "parse" /\ rx.kind = "ready"
    /\ mesh_active' = (mesh_active /\ (Running => intent))
    /\ Rearm
    /\ UNCHANGED <<buttonVars, loopVars, cmdVars, statusVars, enable_pending, tone,
                   incoming, nrfVars, boundVars>>

RxStopped ==
    /\ spi_pc = "parse" /\ rx.kind = "stopped"
    /\ IF Running
       THEN mesh_active' = FALSE /\ enable_pending' = FALSE /\ tone' = FALSE
       ELSE UNCHANGED toneVars
    /\ Rearm
    /\ UNCHANGED <<buttonVars, loopVars, cmdVars, statusVars, incoming, nrfVars, boundVars>>

(* No status for BRIDGE_STATUS_STALE_TIMEOUT_US.                           *)
StatusExpires ==
    /\ connected /\ Upset(RestartCost)
    /\ connected' = FALSE
    /\ UNCHANGED <<buttonVars, loopVars, cmdVars, status, toneVars, spiVars, incoming,
                   nrfVars>>
-----------------------------------------------------------------------------
(* mesh_protocol_request_start and _stop: the latest request replaces one  *)
(* the worker has not taken yet.  The three words are written at once: the *)
(* SPI thread and the workqueue are cooperative and of one priority.       *)
RequestOf(c) == [enabled |-> c.command = "start", command |-> c.command,
                 generation |-> c.generation]

RequestFlag ==
    /\ incoming.command \in {"start", "stop"}
    /\ request' = RequestOf(incoming)
    /\ incoming' = None
    /\ UNCHANGED <<espVars, spiVars, status_pending, nrf_state, out, applied, boundVars>>

(* mesh_protocol_request_status: for a ping, and every 200 polls, when the *)
(* ring has long been drained.                                             *)
StatusRequest ==
    /\ \/ incoming = Ping /\ incoming' = None
       \/ Quiet /\ UNCHANGED incoming
    /\ status_pending' = TRUE
    /\ UNCHANGED <<espVars, spiVars, request, nrf_state, out, applied,
                   boundVars>>

(* command_work_handler: apply the latest request, acknowledge it with its *)
(* command and generation, report the state.                               *)
CommandWork ==
    LET tag == [command |-> request.command, generation |-> request.generation]
        stop == ~request.enabled /\ nrf_state # "idle"
        next_state == CASE request.enabled /\ nrf_state = "idle" -> "scanning"
                        [] stop -> "idle"
                        [] OTHER -> nrf_state
        stopped == IF stop THEN <<StatusRec("idle"), EventRec("stopped")>> ELSE <<>>
        answer == stopped \o <<AckRec(tag), StatusRec(next_state)>> IN
    /\ request # NoRequest
    /\ nrf_state' = next_state
    /\ out' = Pushed(out, answer \o IF status_pending THEN <<StatusRec(next_state)>>
                                                     ELSE <<>>)
    /\ applied' = (applied \/ cmd = [command |-> Command(request.enabled),
                                     generation |-> request.generation])
    /\ request' = NoRequest /\ status_pending' = FALSE
    /\ UNCHANGED <<espVars, spiVars, incoming, boundVars>>

StatusWork ==
    /\ request = NoRequest /\ status_pending
    /\ out' = Pushed(out, <<StatusRec(nrf_state)>>) /\ status_pending' = FALSE
    /\ UNCHANGED <<espVars, spiVars, incoming, request, nrf_state, applied,
                   boundVars>>

(* The nRF joins a mesh, or founds one, or loses its coordinator.          *)
Move(from, to, records) ==
    /\ nrf_state = from
    /\ nrf_state' = to /\ out' = Pushed(out, records)
    /\ UNCHANGED <<espVars, spiVars, incoming, request, status_pending, applied>>

MeshJoined ==
    /\ Move("scanning", "active", <<StatusRec("active"), EventRec("ready")>>)
    /\ UNCHANGED boundVars

MeshFounded ==
    /\ Move("scanning", "active",
            <<StatusRec("active"), EventRec("became_coordinator"), EventRec("ready")>>)
    /\ UNCHANGED boundVars

SyncLost ==
    /\ Move("active", "scanning", <<EventRec("sync_lost"), StatusRec("scanning")>>)
    /\ Upset(RestartCost)
-----------------------------------------------------------------------------
NrfReset ==
    /\ Upset(RestartCost)
    /\ incoming' = None
    /\ request' = NoRequest /\ status_pending' = FALSE
    /\ nrf_state' = "idle" /\ out' = <<StatusRec("idle")>>
    /\ UNCHANGED <<espVars, spiVars, applied>>

(* The ESP takes seconds to boot.  Meanwhile the nRF has applied what it   *)
(* had received, and its polls have drained what it had queued.            *)
EspReset ==
    /\ incoming = None /\ request = NoRequest
    /\ Upset(RestartCost)
    /\ EspBoot(nvs) /\ UNCHANGED nvs
    /\ out' = <<>>
    /\ UNCHANGED <<incoming, request, status_pending, nrf_state, applied>>

ButtonStep == ButtonSet \/ ButtonReset \/ ButtonApply
ButtonNext == (\E ok \in BOOLEAN : ButtonPersist(ok)) \/ ButtonStep
LoopNext ==
    \/ MainProbe \/ MainProbed \/ MainDisconnected \/ MainTick \/ MainActivate
    \/ MainMatch \/ MainCount \/ MainDrain
    \/ MainSend \/ MainAcked \/ MainObserved \/ MainRetry \/ MainTimeout
SpiNext == RxNothing \/ RxAck \/ RxStatus \/ RxStatusCb \/ RxReady \/ RxStopped
NrfNext == RequestFlag \/ CommandWork \/ StatusWork
Polls ==
    \/ \E command_lost, record_lost \in BOOLEAN : Poll(command_lost, record_lost)
    \/ \E decoded \in BOOLEAN : PollFailed(decoded)

Next ==
    \/ ButtonNext \/ LoopNext \/ MainSendBusy \/ MainSleep
    \/ SpiNext \/ Polls \/ StatusExpires
    \/ NrfNext \/ StatusRequest \/ MeshJoined \/ MeshFounded \/ SyncLost
    \/ NrfReset \/ EspReset

Spec == Init /\ [][Next]_vars

(* Tasks and threads keep running, the nRF polls, the workqueue works, the *)
(* interval elapses and statuses are requested.  Nothing is assumed of the *)
(* button, of the wire or of the mesh.                                     *)
Fairness ==
    /\ WF_vars(ButtonStep) /\ WF_vars(LoopNext) /\ SF_vars(MainSleep)
    /\ WF_vars(SpiNext) /\ WF_vars(Polls)
    /\ WF_vars(NrfNext) /\ SF_vars(StatusRequest)

LiveSpec == Spec /\ Fairness
-----------------------------------------------------------------------------
TypeOK ==
    /\ {intent, nvs, fresh_status, connected, mesh_active, enable_pending,
        tone, status_pending, applied} \subseteq BOOLEAN
    /\ button_pc \in {"idle", "set", "reset", "apply"}
    /\ main_pc \in {"probe", "probing", "idle", "activate", "match", "count", "send",
                    "wait", "drain", "sleep"} /\ rest \in 0..2
    /\ seen \in MeshStates \cup {"none"} /\ observed \in MeshStates \cup {"none"}
    /\ attempts \in 0..ReconcileAttempts /\ tries \in 0..(ReconcileAttempts - 1)
    /\ attempt \in 0..CommandAttempts /\ generation \in Generations
    /\ {cmd, ack} \subseteq Lifecycle \cup {None}
    /\ {ctrl_pending, armed, incoming} \subseteq Lifecycle \cup {None, Ping}
    /\ {status, nrf_state} \subseteq MeshStates
    /\ spi_pc \in {"transfer", "parse", "status_cb"}
    /\ request \in Requests
    /\ Len(out) <= CtrlSlots

(* A command that ends with an ACK was applied by the nRF, the very        *)
(* command and generation: "COMMAND_ACK means the nRF command worker       *)
(* applied the transition request" and "unrelated or stale generations do  *)
(* not complete the command" (docs/inter_mcu.md), although a request may   *)
(* replace an earlier one and answers of earlier attempts arrive late.     *)
AckedApplied == main_pc = "wait" /\ Matches => applied

(* Once the rider has switched the mesh off, no "mesh enabled" tone is     *)
(* owed or queued, whatever status or event the SPI task is handling.      *)
TonesMatchIntent == enable_pending \/ tone => intent

(* The loop has given up on a state that it sees: all its attempts since   *)
(* the last change of state are used up, and there were enough upsets for  *)
(* each of them to have met one.                                           *)
GaveUp ==
    /\ connected /\ observed = nrf_state
    /\ attempts = ReconcileAttempts /\ upsets >= ReconcileAttempts

(* However a press, losses, restarts and expiries interleave, the radio    *)
(* ends up doing what the rider last asked for and NVS recorded, unless    *)
(* every attempt of the reconciliation met an upset, when it gives up.     *)
(* Even then the flag that opens the audio path settles on what the rider  *)
(* asked and the radio does, although the button, the loop and the status  *)
(* callback all write it from what each of them last read.                 *)
Converges == <>[](/\ nvs = (nrf_state # "idle") \/ GaveUp
                  /\ mesh_active = (nvs /\ nrf_state = "active"))
=============================================================================
