----------------------------- MODULE NrfSlotTx -----------------------------
(***************************************************************************)
(* What an nRF node transmits in its slot, and when                        *)
(* (nrf_mesh/src/tdma.c, the transmit side of mesh_protocol_audio.c, and   *)
(* its rules in shared/mesh_core.c).                                       *)
(*                                                                         *)
(* Three contexts: the SPI thread puts the ESP's frames into               *)
(* s_audio_ingress_queue; the timer interrupts arm and submit work; the    *)
(* system workqueue runs one handler at a time and owns everything else.   *)
(* Interrupts come between the two locked sections of acquire_sync and     *)
(* after the one of tdma_stop, so these handlers are two steps each.       *)
(*                                                                         *)
(* A session (state ACTIVE, ingress enabled) begins and ends with the      *)
(* schedule, in the same handlers; who begins it is NrfMembership.         *)
(* Times are left out: whether a handler runs within its window, how much  *)
(* of a bundle fits into the rest of the slot and how a SYNC compares with *)
(* the frame history are choices.  The ESP attaches one predecessor        *)
(* (transport_nrf_send_audio), so previous2 is absent.                     *)
(***************************************************************************)
EXTENDS Integers, Sequences, FiniteSetsExt, SequencesExt

CONSTANTS Queue,      \* entries of s_audio_ingress_queue
          Ring,       \* usable entries of s_tx_audio_ring
          RelayRing,  \* usable entries of s_relay_ring
          MaxFrames,  \* bound: frames the ESP sends
          MaxUpsets   \* bound: sessions, SYNCs that reacquire, and RTT probes

ASSUME SlotTxAssumption ==
    /\ Queue \in Nat \ {0} /\ Ring \in Nat \ {0} /\ RelayRing \in Nat \ {0}
    /\ MaxFrames \in Nat /\ MaxUpsets \in Nat

VARIABLES
    running, synchronized,  \* s_running, s_synchronized
    quiesced,               \* s_timer_quiesced
    handler,                \* handler between its two steps, or "none"
    timer,                  \* s_frame_timer is armed
    due,                    \* by window: its timer is armed, its work submitted
    current,                \* by window: its generation is s_generation
    ingress,                \* s_audio_ingress_queue
    ring,                   \* s_tx_audio_ring, from tail to head
    relays,                 \* packets in s_relay_ring
    turn,                   \* s_relay_contention_turn
    deferred,               \* s_local_deferred_seq, 0 if none is pending
    next, prev_active,      \* ESP: next sequence number, the last frame was active
    open,                   \* history: admitted, neither on the air nor given up
    last,                   \* history: newest current frame on the air
    passed,                 \* history: slots for active speech since a relay waits
    upsets                  \* what MaxUpsets bounds

schedule == <<running, synchronized, quiesced, handler, timer, due, current>>
queues   == <<ingress, ring>>
contest  == <<relays, turn, deferred, passed>>
esp      == <<next, prev_active>>
history  == <<open, last>>
vars     == <<schedule, queues, contest, esp, history, upsets>>

Windows == {"slot", "control"}
Entry(seq, kind, prev1) == [seq |-> seq, kind |-> kind, prev1 |-> prev1]
Seqs(q) == {q[i].seq : i \in DOMAIN q} \ {0}

Init ==
    /\ running = FALSE /\ synchronized = FALSE /\ quiesced = FALSE /\ handler = "none"
    /\ timer = FALSE /\ due = [w \in Windows |-> {}] /\ current = [w \in Windows |-> FALSE]
    /\ ingress = <<>> /\ ring = <<>>
    /\ relays = 0 /\ turn = FALSE /\ deferred = 0 /\ passed = 0
    /\ next = 1 /\ prev_active = FALSE
    /\ open = {} /\ last = 0 /\ upsets = 0

Upset == upsets < MaxUpsets /\ upsets' = upsets + 1
-----------------------------------------------------------------------------
(* The schedule.                                                           *)
NoneCurrent == current' = [w \in Windows |-> FALSE]
NoneDue     == due' = [w \in Windows |-> {}]

(* tdma_start, as coordinator or as a participant yet without SYNC.        *)
Start(sync) ==
    /\ handler = "none" /\ ~running /\ Upset
    /\ running' = TRUE /\ synchronized' = sync /\ quiesced' = FALSE /\ timer' = TRUE
    /\ NoneCurrent
    /\ UNCHANGED <<handler, due, queues, contest, esp, history>>

(* frame_timer_handler.  The windows in `late' are over already.           *)
MutOpens(w) == TRUE
Opens(w)    == synchronized
FrameTimer(late) ==
    /\ timer
    /\ timer' = (running /\ ~quiesced)
    /\ IF timer'
       THEN /\ due' = [w \in Windows |->
                         IF Opens(w) /\ w \notin late THEN due[w] \cup {"timer"} ELSE due[w]]
            /\ current' = [w \in Windows |-> TRUE]
       ELSE UNCHANGED <<due, current>>
    /\ UNCHANGED <<running, synchronized, quiesced, handler, queues, contest, esp, history, upsets>>

(* slot_timer_handler and control_timer_handler.                           *)
WindowTimer(w) ==
    /\ "timer" \in due[w]
    /\ due' = [due EXCEPT ![w] = {"work"}]
    /\ UNCHANGED <<running, synchronized, quiesced, handler, timer, current, queues, contest, esp,
                   history, upsets>>

(* tdma_sync: a SYNC acquires the epoch of an unsynchronised participant,  *)
(* reacquires it when it is too far off, and else corrects the period.     *)
AcquireBegin ==
    /\ handler = "none" /\ running
    /\ IF synchronized THEN Upset ELSE UNCHANGED upsets
    /\ handler' = "acquire"
    /\ quiesced' = TRUE /\ synchronized' = FALSE /\ NoneCurrent
    /\ UNCHANGED <<running, timer, due, queues, contest, esp, history>>
MutAcquireEnd ==
    /\ handler = "acquire" /\ handler' = "none"
    /\ NoneDue /\ timer' = TRUE
    /\ synchronized' = TRUE
    /\ UNCHANGED <<running, quiesced, current, queues, contest, esp, history, upsets>>
AcquireEnd ==
    /\ handler = "acquire" /\ handler' = "none"
    /\ NoneDue /\ timer' = TRUE
    /\ synchronized' = TRUE /\ quiesced' = FALSE
    /\ UNCHANGED <<running, current, queues, contest, esp, history, upsets>>

(* The session ends: mesh_protocol_stop, a lost coordinator, a demotion.   *)
StopBegin ==
    /\ handler = "none" /\ running
    /\ handler' = "stop"
    /\ running' = FALSE /\ synchronized' = FALSE /\ quiesced' = TRUE /\ NoneCurrent
    /\ UNCHANGED <<timer, due, queues, contest, esp, history, upsets>>
StopEnd ==
    /\ handler = "stop" /\ handler' = "none"
    /\ NoneDue /\ timer' = FALSE
    /\ ring' = <<>> /\ ingress' = <<>> /\ open' = {}
    /\ relays' = 0 /\ turn' = FALSE /\ deferred' = 0 /\ passed' = 0
    /\ UNCHANGED <<running, synchronized, quiesced, current, esp, last, upsets>>

(* control_work_handler, and slot_work_handler outside its window.         *)
WorkMissed(w) ==
    /\ handler = "none" /\ "work" \in due[w]
    /\ due' = [due EXCEPT ![w] = @ \ {"work"}]
    /\ UNCHANGED <<running, synchronized, quiesced, handler, timer, current, queues, contest, esp,
                   history, upsets>>
-----------------------------------------------------------------------------
(* SPI thread: transport_nrf_send_audio on the ESP, then                   *)
(* queue_audio_ingress, unless the frame is lost on the way or there is no *)
(* session.  A full queue loses its oldest entry.                          *)
Put(entry) ==
    LET full == Len(ingress) = Queue
    IN  /\ ingress' = Append(IF full THEN Tail(ingress) ELSE ingress, entry)
        /\ open' = (open \ (IF full THEN {Head(ingress).seq} ELSE {})) \cup ({entry.seq} \ {0})
SendFrame(kind, lost) ==
    /\ next <= MaxFrames
    /\ next' = next + 1 /\ prev_active' = (kind = "active")
    /\ IF running /\ ~lost THEN Put(Entry(next, kind, prev_active)) ELSE UNCHANGED <<ingress, open>>
    /\ UNCHANGED <<schedule, ring, contest, last, upsets>>
SendProbe ==
    /\ running /\ Upset
    /\ Put(Entry(0, "probe", FALSE))
    /\ UNCHANGED <<schedule, ring, contest, esp, last>>

(* drain_audio_ingress: the ring keeps the newest entries; what it drops   *)
(* may be the deferred tail.                                               *)
MutExcess == 0
Excess  == Max({0, Len(ring \o ingress) - Ring})
Drained == SubSeq(ring \o ingress, Excess + 1, Len(ring \o ingress))
Dropped == Seqs(SubSeq(ring \o ingress, 1, Excess))
Pending == IF Excess > 0 THEN 0 ELSE deferred
IngressWork ==
    /\ handler = "none" /\ running /\ ingress # <<>>
    /\ ring' = Drained /\ ingress' = <<>>
    /\ deferred' = Pending
    /\ open' = open \ Dropped
    /\ UNCHANGED <<schedule, relays, turn, passed, esp, last, upsets>>

(* handle_audio_v2: enqueue_relay_packet drops the oldest of a full ring.  *)
RelayReceived ==
    /\ handler = "none" /\ running
    /\ relays' = Min({relays + 1, RelayRing})
    /\ UNCHANGED <<schedule, queues, turn, deferred, passed, esp, history, upsets>>
-----------------------------------------------------------------------------
(* slot_tx_handler, called by slot_work_handler within the window.         *)
Valid(w) == running /\ current[w]
Slot ==
    /\ handler = "none" /\ "work" \in due["slot"] /\ Valid("slot")
    /\ due' = [due EXCEPT !["slot"] = @ \ {"work"}]
    /\ ingress' = <<>>
    /\ UNCHANGED <<running, synchronized, quiesced, handler, timer, current, esp, upsets>>

LocalPending == Drained # <<>>
RelayPending == relays > 0
Defers == LocalPending /\ RelayPending /\ turn /\ Drained[1].kind = "active"

(* deferred_tail_has_proven_successor, mesh_core_successor_carries_prev1.  *)
MutProven == Pending # 0 /\ Len(Drained) >= 2 /\ Drained[1].seq = Pending
Proven ==
    /\ Pending # 0 /\ Len(Drained) >= 2
    /\ Drained[1].seq = Pending
    /\ Drained[2].seq = Pending + 1 /\ Drained[2].prev1

(* transmit_local_entry on the air: the current frame, and its predecessor *)
(* unless it was stripped for lack of time.                                *)
Carries(entry, stripped) ==
    ({entry.seq} \cup (IF entry.prev1 /\ ~stripped THEN {entry.seq - 1} ELSE {})) \ {0}
MayStrip(entry, retain_prev1) == entry.prev1 /\ ~retain_prev1
OnAir(entry, stripped) ==
    /\ open' = open \ (Dropped \cup Carries(entry, stripped))
    /\ last' = Max({last, entry.seq})

(* consume_local_audio_entries. *)
MutConsume(n) == ring' = Tail(Drained)
Consume(n)    == ring' = SubSeq(Drained, n + 1, Len(Drained))

(* The turn after a local transmission, and the slots a relay has waited.  *)
MutLocalTurn(sent) == IF RelayPending THEN sent ELSE turn
LocalTurn(sent)    == RelayPending \/ turn
Passes == passed' = IF ~RelayPending THEN 0
                    ELSE IF Drained[1].kind = "active" THEN passed + 1 ELSE passed

SlotDefer ==
    /\ Slot /\ Defers
    /\ deferred' = Drained[1].seq /\ turn' = FALSE
    /\ relays' = relays - 1 /\ passed' = 0
    /\ ring' = Drained /\ open' = open \ Dropped
    /\ UNCHANGED last

(* The successor in place of both: all or nothing.                         *)
SlotSuccessor(stripped) ==
    /\ Slot /\ LocalPending /\ ~Defers /\ Proven
    /\ stripped => MayStrip(Drained[2], TRUE)
    /\ OnAir(Drained[2], stripped) /\ Consume(2)
    /\ deferred' = 0 /\ turn' = (RelayPending \/ turn) /\ Passes
    /\ UNCHANGED relays
SlotSuccessorFailed ==
    /\ Slot /\ LocalPending /\ ~Defers /\ Proven
    /\ ring' = Drained /\ open' = open \ Dropped
    /\ deferred' = 0 /\ turn' = FALSE /\ Passes
    /\ UNCHANGED <<relays, last>>

(* The tail: nothing was deferred, nothing is proven, or the successor     *)
(* does not fit with its predecessor (LOCAL_TX_FALLBACK_ORIGINAL).         *)
Local ==
    /\ Slot /\ LocalPending /\ ~Defers
    /\ Consume(1) /\ deferred' = 0 /\ Passes
    /\ UNCHANGED relays
SlotLocal(stripped) ==
    /\ Local
    /\ stripped => MayStrip(Drained[1], FALSE)
    /\ OnAir(Drained[1], stripped)
    /\ turn' = LocalTurn(TRUE)
MutSlotLocalFailed ==
    /\ Slot /\ LocalPending /\ ~Defers /\ ring' = Drained /\ deferred' = 0 /\ Passes
    /\ open' = open \ Dropped
    /\ turn' = LocalTurn(FALSE)
    /\ UNCHANGED <<relays, last>>
SlotLocalFailed ==
    /\ Local
    /\ open' = open \ (Dropped \cup {Drained[1].seq})
    /\ turn' = LocalTurn(FALSE)
    /\ UNCHANGED last

SlotRelay ==
    /\ Slot /\ ~LocalPending /\ RelayPending
    /\ relays' = relays - 1 /\ turn' = FALSE /\ passed' = 0
    /\ UNCHANGED <<ring, deferred, history>>
SlotIdle ==
    /\ Slot /\ ~LocalPending /\ ~RelayPending
    /\ UNCHANGED <<ring, contest, history>>

SlotTx == \/ SlotDefer \/ SlotSuccessorFailed \/ SlotLocalFailed \/ SlotRelay \/ SlotIdle
          \/ \E stripped \in BOOLEAN : SlotSuccessor(stripped) \/ SlotLocal(stripped)

Next ==
    \/ \E sync \in BOOLEAN : Start(sync)
    \/ \E late \in SUBSET Windows : FrameTimer(late)
    \/ \E w \in Windows : WindowTimer(w) \/ WorkMissed(w)
    \/ AcquireBegin \/ AcquireEnd \/ StopBegin \/ StopEnd
    \/ \E kind \in {"active", "comfort"}, lost \in BOOLEAN : SendFrame(kind, lost)
    \/ SendProbe \/ IngressWork \/ RelayReceived \/ SlotTx

Spec == Init /\ [][Next]_vars

(* The timers fire, the handlers return, and neither the frame timer nor   *)
(* the slot work is late for ever.                                         *)
FairSpec ==
    /\ Spec
    /\ SF_vars(FrameTimer({})) /\ WF_vars(WindowTimer("slot")) /\ SF_vars(SlotTx)
    /\ WF_vars(AcquireEnd) /\ WF_vars(StopEnd)
-----------------------------------------------------------------------------
Waiting == Seqs(ring) \cup Seqs(ingress)

(* Types of the state; the queues keep within their sizes.                 *)
TypeOK ==
    /\ running \in BOOLEAN /\ synchronized \in BOOLEAN /\ quiesced \in BOOLEAN
    /\ handler \in {"none", "acquire", "stop"} /\ timer \in BOOLEAN
    /\ due \in [Windows -> SUBSET {"timer", "work"}] /\ current \in [Windows -> BOOLEAN]
    /\ LET entries == [seq : 0..MaxFrames, kind : {"active", "comfort", "probe"}, prev1 : BOOLEAN]
       IN  ingress \in BoundedSeq(entries, Queue) /\ ring \in BoundedSeq(entries, Ring)
    /\ relays \in 0..RelayRing /\ turn \in BOOLEAN /\ deferred \in 0..MaxFrames
    /\ next \in 1..(MaxFrames + 1) /\ prev_active \in BOOLEAN
    /\ open \subseteq 1..MaxFrames /\ last \in 0..MaxFrames /\ passed \in Nat
    /\ upsets \in 0..MaxUpsets

(* Deferring a frame for a relay never loses it: a frame leaves the queues *)
(* only on the air (as the current frame or as the predecessor of the next *)
(* one), by its own failed transmission, by overflow or with its session.  *)
FrameAccounted == open \subseteq Waiting

(* Frames go on the air once and in order: nothing that waits is older     *)
(* than a frame already sent as current.                                   *)
SentInOrder == \A s \in Waiting : s > last

(* An active talker passes a waiting relay over once, or twice after a     *)
(* failed successor.  docs/protocol.md:142: "nRF alternates local and      *)
(* relay traffic when both are pending."                                   *)
RelayGetsTurn == passed <= 2

(* A window is open only on a synchronised schedule.  docs/tdma.md: "A     *)
(* valid coordinator SYNC establishes the frame epoch. Only then can       *)
(* either path transmit in its slot."                                      *)
OnlySynchronized ==
    \A w \in Windows : due[w] # {} /\ Valid(w) => synchronized

(* The schedule never stops by itself: outside of a resynchronisation the  *)
(* frame timer of a running node is armed and will be served.              *)
KeepsRunning == running /\ handler = "none" => timer /\ ~quiesced

(* A frame that waits in a synchronised node is sent or dropped in the end, *)
(* whatever the relays do.                                                 *)
FramesLeave ==
    \A s \in 1..MaxFrames : (s \in Waiting /\ synchronized) ~> (s \notin Waiting \/ ~synchronized)
=============================================================================
