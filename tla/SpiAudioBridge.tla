--------------------------- MODULE SpiAudioBridge ---------------------------
(***************************************************************************)
(* ESP-to-nRF audio over the SPI bridge: the ESP's audio ring with its two *)
(* counting semaphores, the single control slot, the stop-and-wait         *)
(* in-flight frame released by the ACK GPIO interrupt, the status gate and *)
(* its purges (components/uart_bridge/), and the nRF side that admits or   *)
(* deduplicates a frame and pulses the ACK line (nrf_mesh/src/             *)
(* uart_bridge.c).                                                         *)
(*                                                                         *)
(* The actors interleave at the granularity of the code's locks:           *)
(*   spi       the SPI slave task (prepare DMA, transfer, parse)           *)
(*   producer  the audio task in send_audio_packet                         *)
(*   control   a task in bridge_tx_queue_control                           *)
(*   reader    a task that finds the status expired in get_status          *)
(*   ISR       the ACK interrupt; it takes only the ack spinlock           *)
(*   nRF       the SPI master's poll loop                                  *)
(*                                                                         *)
(* A counting-semaphore give that follows a spinlock section is merged     *)
(* with it: every take of these semaphores is a try-take, and failing one  *)
(* changes no state.  The ring is the sequence of its live entries.        *)
(***************************************************************************)
EXTENDS Integers, Sequences, FiniteSets

CONSTANTS Slots,        \* usable ring entries, BRIDGE_TX_AUDIO_QUEUE_SIZE - 1
          SeqMod,       \* size of the 8-bit wire sequence space
          MaxEncoded,   \* bound: frames encoded in one behaviour
          MaxUpsets,    \* bound: ESP restarts, and statuses since the last
          AckMayExpire  \* FALSE: only behaviours whose ACKs come within 50 ms

ASSUME SpiAssumption ==
    /\ Slots \in Nat \ {0}
    /\ SeqMod \in Nat \ {0}
    /\ MaxEncoded \in Nat
    /\ MaxUpsets \in Nat
    /\ AckMayExpire \in BOOLEAN

VARIABLES
    audio_q, slots_free, slots_used,        \* audio ring and its semaphores
    tx_mutex,                               \* owner of tx_mutex
    ctrl_pending,                           \* control slot (NoFrame: empty)
    inflight,                               \* frame retained for its ACK
    ack_wait,                               \* is it, and for how long
    tx_seq,                                 \* next wire sequence number
    spi_pc, entry, tx_dma, esp_rx,          \* SPI slave task
    prod_pc, ctrl_pc,                       \* producer tasks
    link, mesh_state, generation,           \* status registry
    reader_pc, reader_gen,                  \* task in get_status
    nrf_pc, nrf_rx, last_seq,               \* nRF poll loop
    ingress,                                \* nRF accepts local audio
    ack_line,                               \* "edge": latched, ISR not yet run
    encoded, accepted, admitted, reboots    \* history

ringVars   == <<audio_q, slots_free, slots_used>>
ackVars    == <<inflight, ack_wait>>
statusVars == <<link, mesh_state, generation>>
spiVars    == <<spi_pc, entry, tx_dma, esp_rx>>
taskVars   == <<prod_pc, ctrl_pc, reader_pc, reader_gen>>
nrfVars    == <<nrf_pc, nrf_rx, last_seq, ingress>>
histVars   == <<encoded, accepted, admitted, reboots>>
vars == <<ringVars, tx_mutex, ctrl_pending, ackVars, tx_seq, spiVars, taskVars,
          statusVars, nrfVars, ack_line, histVars>>

(* n numbers every encoded frame (history); seq is what the wire carries.  *)
Frame(kind, n, seq) == [kind |-> kind, n |-> n, seq |-> seq]
NoFrame == Frame("idle", 0, 0)
Frames  == [kind : {"idle", "audio", "control"}, n : Nat, seq : 0..(SeqMod - 1)]

NoSeq == SeqMod       \* s_last_audio_seq_valid = false

(* uint8_t arithmetic on the wire sequence number.                         *)
MutNextSeq(seq) == seq + 1
NextSeq(seq) == (seq + 1) % SeqMod

(* One if a slot is held there.                                            *)
Held(b) == IF b THEN 1 ELSE 0

(* waiting_ack and inflight_valid are written together in every section of *)
(* the ack lock, so one variable stands for both: "none", "waiting", or    *)
(* "expired" once BRIDGE_ACK_TIMEOUT_US have passed.                       *)
waiting_ack == ack_wait # "none"

(* link is "down" while connected is false, else "fresh" or "stale".       *)
mesh_ready == link = "fresh" /\ mesh_state = "active"

Init ==
    /\ audio_q = <<>> /\ slots_free = Slots /\ slots_used = 0
    /\ tx_mutex = "none"
    /\ ctrl_pending = NoFrame
    /\ inflight = NoFrame /\ ack_wait = "none"
    /\ tx_seq = 0
    /\ spi_pc = "deadline" /\ entry = NoFrame /\ tx_dma = NoFrame
    /\ esp_rx = "none"
    /\ prod_pc = "idle" /\ ctrl_pc = "idle"
    /\ link = "down" /\ mesh_state = "inactive" /\ generation = 0
    /\ reader_pc = "idle" /\ reader_gen = 0
    /\ nrf_pc = "poll" /\ nrf_rx = NoFrame /\ last_seq = NoSeq
    /\ ingress = "disabled"
    /\ ack_line = "idle"
    /\ encoded = 0 /\ accepted = {} /\ admitted = <<>> /\ reboots = 0
-----------------------------------------------------------------------------
(* send_audio_packet: a free slot is taken first, then the mutex is tried; *)
(* a busy mutex gives the slot back and rejects the new frame.  Encoding   *)
(* cannot fail after the length check.                                     *)
SendAudioTakeSlot ==
    /\ prod_pc = "idle" /\ mesh_ready /\ slots_free > 0
    /\ encoded < MaxEncoded
    /\ slots_free' = slots_free - 1
    /\ prod_pc' = "slot"
    /\ UNCHANGED <<audio_q, slots_used, tx_mutex, ctrl_pending, ackVars, tx_seq,
                   spiVars, ctrl_pc, reader_pc, reader_gen, statusVars, nrfVars,
                   ack_line, histVars>>

SendAudioBusy ==
    /\ prod_pc = "slot" /\ tx_mutex # "none"
    /\ slots_free' = slots_free + 1
    /\ prod_pc' = "idle"
    /\ UNCHANGED <<audio_q, slots_used, tx_mutex, ctrl_pending, ackVars, tx_seq,
                   spiVars, ctrl_pc, reader_pc, reader_gen, statusVars, nrfVars,
                   ack_line, histVars>>

SendAudioLock ==
    /\ prod_pc = "slot" /\ tx_mutex = "none"
    /\ tx_mutex' = "producer"
    /\ prod_pc' = "encode"
    /\ UNCHANGED <<ringVars, ctrl_pending, ackVars, tx_seq, spiVars, ctrl_pc,
                   reader_pc, reader_gen, statusVars, nrfVars, ack_line, histVars>>

SendAudioEnqueue ==
    /\ prod_pc = "encode"
    /\ audio_q' = Append(audio_q, Frame("audio", encoded + 1, tx_seq))
    /\ slots_used' = slots_used + 1
    /\ tx_seq' = NextSeq(tx_seq)
    /\ tx_mutex' = "none"
    /\ prod_pc' = "idle"
    /\ encoded' = encoded + 1
    /\ accepted' = accepted \cup {encoded + 1}
    /\ UNCHANGED <<slots_free, ctrl_pending, ackVars, spiVars, ctrl_pc,
                   reader_pc, reader_gen, statusVars, nrfVars, ack_line,
                   admitted, reboots>>

(* bridge_tx_queue_control: one replaceable slot, sharing tx_seq with the  *)
(* audio frames.                                                           *)
QueueControlLock ==
    /\ ctrl_pc = "idle" /\ tx_mutex = "none" /\ encoded < MaxEncoded
    /\ tx_mutex' = "control"
    /\ ctrl_pc' = "encode"
    /\ UNCHANGED <<ringVars, ctrl_pending, ackVars, tx_seq, spiVars, prod_pc,
                   reader_pc, reader_gen, statusVars, nrfVars, ack_line, histVars>>

QueueControlEncode ==
    /\ ctrl_pc = "encode"
    /\ ctrl_pending' = Frame("control", encoded + 1, tx_seq)
    /\ tx_seq' = NextSeq(tx_seq)
    /\ tx_mutex' = "none"
    /\ ctrl_pc' = "idle"
    /\ encoded' = encoded + 1
    /\ UNCHANGED <<ringVars, ackVars, spiVars, prod_pc, reader_pc, reader_gen,
                   statusVars, nrfVars, ack_line, accepted, admitted, reboots>>
-----------------------------------------------------------------------------
(* bridge_tx_prepare_dma, one step per lock section.                       *)
MutDmaDeadline ==
    /\ spi_pc = "deadline"
    /\ spi_pc' = "control"
    /\ UNCHANGED <<ringVars, tx_mutex, ctrl_pending, ackVars, tx_seq, entry, tx_dma,
                   esp_rx, taskVars, statusVars, nrfVars, ack_line, histVars>>

DmaDeadline ==
    /\ spi_pc = "deadline"
    /\ IF ack_wait = "expired"
       THEN ack_wait' = "none" /\ slots_free' = slots_free + 1
       ELSE UNCHANGED <<ack_wait, slots_free>>
    /\ spi_pc' = "control"
    /\ UNCHANGED <<audio_q, slots_used, tx_mutex, ctrl_pending, inflight,
                   tx_seq, entry, tx_dma, esp_rx, taskVars, statusVars,
                   nrfVars, ack_line, histVars>>

(* Lifecycle control passes even while an audio frame awaits its ACK.      *)
MutDmaControl ==
    /\ spi_pc = "control"
    /\ IF ctrl_pending # NoFrame /\ tx_mutex = "none"
       THEN tx_dma' = ctrl_pending /\ spi_pc' = "armed"
       ELSE spi_pc' = "resend" /\ UNCHANGED tx_dma
    /\ UNCHANGED <<ringVars, tx_mutex, ctrl_pending, ackVars, tx_seq, entry, esp_rx,
                   taskVars, statusVars, nrfVars, ack_line, histVars>>

DmaControl ==
    /\ spi_pc = "control"
    /\ IF ctrl_pending # NoFrame /\ tx_mutex = "none"
       THEN /\ tx_dma' = ctrl_pending /\ ctrl_pending' = NoFrame
            /\ spi_pc' = "armed"
       ELSE spi_pc' = "resend" /\ UNCHANGED <<tx_dma, ctrl_pending>>
    /\ UNCHANGED <<ringVars, tx_mutex, ackVars, tx_seq, entry, esp_rx, taskVars,
                   statusVars, nrfVars, ack_line, histVars>>

DmaResend ==
    /\ spi_pc = "resend"
    /\ IF waiting_ack
       THEN tx_dma' = inflight /\ spi_pc' = "armed"
       ELSE spi_pc' = "dequeue" /\ UNCHANGED tx_dma
    /\ UNCHANGED <<ringVars, tx_mutex, ctrl_pending, ackVars, tx_seq, entry,
                   esp_rx, taskVars, statusVars, nrfVars, ack_line, histVars>>

(* The mutex is tried and a used slot is tried; without either the SPI     *)
(* task arms an idle frame.                                                *)
DmaIdle ==
    /\ spi_pc = "dequeue" /\ (tx_mutex # "none" \/ slots_used = 0)
    /\ tx_dma' = NoFrame
    /\ spi_pc' = "armed"
    /\ UNCHANGED <<ringVars, tx_mutex, ctrl_pending, ackVars, tx_seq, entry,
                   esp_rx, taskVars, statusVars, nrfVars, ack_line, histVars>>

MutDmaDequeue ==
    /\ spi_pc = "dequeue" /\ tx_mutex = "none" /\ slots_used > 0
    /\ tx_mutex' = "spi"
    /\ slots_used' = slots_used - 1
    /\ entry' = audio_q[Len(audio_q)]
    /\ audio_q' = SubSeq(audio_q, 1, Len(audio_q) - 1)
    /\ spi_pc' = "commit"
    /\ UNCHANGED <<slots_free, ctrl_pending, ackVars, tx_seq, tx_dma, esp_rx,
                   taskVars, statusVars, nrfVars, ack_line, histVars>>

DmaDequeue ==
    /\ spi_pc = "dequeue" /\ tx_mutex = "none" /\ slots_used > 0
    /\ tx_mutex' = "spi"
    /\ slots_used' = slots_used - 1
    /\ entry' = Head(audio_q) /\ audio_q' = Tail(audio_q)
    /\ spi_pc' = "commit"
    /\ UNCHANGED <<slots_free, ctrl_pending, ackVars, tx_seq, tx_dma, esp_rx,
                   taskVars, statusVars, nrfVars, ack_line, histVars>>

(* Older than 120 ms (any entry may be), or the mesh is not ready.         *)
DmaDrop ==
    /\ spi_pc = "commit"
    /\ slots_free' = slots_free + 1
    /\ tx_mutex' = "none"
    /\ entry' = NoFrame
    /\ spi_pc' = "dequeue"
    /\ UNCHANGED <<audio_q, slots_used, ctrl_pending, ackVars, tx_seq, tx_dma,
                   esp_rx, taskVars, statusVars, nrfVars, ack_line, histVars>>

DmaCommit ==
    /\ spi_pc = "commit" /\ mesh_ready
    /\ tx_dma' = entry /\ inflight' = entry
    /\ ack_wait' = "waiting"
    /\ tx_mutex' = "none"
    /\ entry' = NoFrame
    /\ spi_pc' = "armed"
    /\ UNCHANGED <<ringVars, ctrl_pending, tx_seq, esp_rx, taskVars, statusVars,
                   nrfVars, ack_line, histVars>>

(* bridge_tx_ack_isr, then the deferred edge is consumed.                  *)
AckIsr ==
    /\ ack_line = "edge"
    /\ ack_line' = "idle"
    /\ IF waiting_ack
       THEN ack_wait' = "none" /\ slots_free' = slots_free + 1
       ELSE UNCHANGED <<ack_wait, slots_free>>
    /\ UNCHANGED <<audio_q, slots_used, tx_mutex, ctrl_pending, inflight, tx_seq,
                   spiVars, taskVars, statusVars, nrfVars,
                   histVars>>
-----------------------------------------------------------------------------
(* drain_audio_ring_locked: empty the ring and release the in-flight frame.*)
MutDrainAudioRing ==
    /\ audio_q' = <<>> /\ slots_used' = 0
    /\ slots_free' = slots_free + slots_used + 1
    /\ ack_wait' = "none"

DrainAudioRing ==
    /\ audio_q' = <<>> /\ slots_used' = 0
    /\ slots_free' = slots_free + slots_used + Held(waiting_ack)
    /\ ack_wait' = "none"

(* bridge_rx_parse of a STATUS frame: commit_status, and a purge when the  *)
(* mesh is not active or has no node id.  Any other frame changes nothing  *)
(* here.                                                                   *)
RxNothing ==
    /\ spi_pc = "received" /\ esp_rx = "none"
    /\ spi_pc' = "deadline"
    /\ UNCHANGED <<ringVars, tx_mutex, ctrl_pending, ackVars, tx_seq, entry,
                   tx_dma, esp_rx, taskVars, statusVars, nrfVars, ack_line, histVars>>

RxStatus ==
    /\ spi_pc = "received" /\ esp_rx # "none"
    /\ link' = "fresh" /\ mesh_state' = esp_rx
    /\ generation' = generation + 1
    /\ spi_pc' = IF esp_rx = "active" THEN "deadline" ELSE "purge"
    /\ esp_rx' = "none"
    /\ UNCHANGED <<ringVars, tx_mutex, ctrl_pending, ackVars, tx_seq, entry,
                   tx_dma, taskVars, nrfVars, ack_line, histVars>>

DiscardPendingLock ==
    /\ spi_pc = "purge" /\ tx_mutex = "none"
    /\ tx_mutex' = "spi"
    /\ spi_pc' = "drain"
    /\ UNCHANGED <<ringVars, ctrl_pending, ackVars, tx_seq, entry, tx_dma, esp_rx,
                   taskVars, statusVars, nrfVars, ack_line, histVars>>

DiscardPending ==
    /\ spi_pc = "drain"
    /\ DrainAudioRing
    /\ tx_mutex' = "none"
    /\ spi_pc' = "deadline"
    /\ UNCHANGED <<ctrl_pending, inflight, tx_seq, entry, tx_dma,
                   esp_rx, taskVars, statusVars, nrfVars, ack_line, histVars>>

(* uart_bridge_get_status finds the status stale, marks the bridge         *)
(* disconnected and purges, unless a fresh status came in meanwhile.       *)
StatusExpired ==
    /\ reader_pc = "idle" /\ link = "stale"
    /\ link' = "down"
    /\ reader_pc' = "purge" /\ reader_gen' = generation
    /\ UNCHANGED <<ringVars, tx_mutex, ctrl_pending, ackVars, tx_seq, spiVars,
                   prod_pc, ctrl_pc, mesh_state, generation, nrfVars,
                   ack_line, histVars>>

DiscardExpiredLock ==
    /\ reader_pc = "purge" /\ tx_mutex = "none"
    /\ tx_mutex' = "reader"
    /\ reader_pc' = "drain"
    /\ UNCHANGED <<ringVars, ctrl_pending, ackVars, tx_seq, spiVars, prod_pc,
                   ctrl_pc, reader_gen, statusVars, nrfVars, ack_line, histVars>>

DiscardExpired ==
    /\ reader_pc = "drain"
    /\ IF link = "down" /\ generation = reader_gen
       THEN DrainAudioRing
       ELSE UNCHANGED <<ringVars, ack_wait>>
    /\ tx_mutex' = "none"
    /\ reader_pc' = "idle" /\ reader_gen' = 0
    /\ UNCHANGED <<ctrl_pending, inflight, tx_seq, spiVars, prod_pc,
                   ctrl_pc, statusVars, nrfVars, ack_line, histVars>>
-----------------------------------------------------------------------------
(* One SPI transaction with the slave armed: the nRF reads the DMA buffer, *)
(* or fails, or reads bytes its frame check rejects (NoFrame); the ESP may *)
(* read a STATUS frame.  Polling an unarmed slave reads idle bytes.        *)
Transfer ==
    /\ spi_pc = "armed" /\ nrf_pc = "poll"
    /\ \E got \in {tx_dma, NoFrame} : nrf_rx' = got
    /\ esp_rx' \in IF generation + reboots < MaxUpsets THEN {"none", "active", "inactive"}
                                                       ELSE {"none"}
    /\ spi_pc' = "received"
    /\ nrf_pc' = "parse"
    /\ UNCHANGED <<ringVars, tx_mutex, ctrl_pending, ackVars, tx_seq, entry, tx_dma,
                   taskVars, statusVars, last_seq, ingress, ack_line, histVars>>

(* pulse_ack_line: the edge reaches the ESP or is missed.                  *)
PulseAck == ack_line' \in {ack_line, "edge"}

NrfNotAudio ==
    /\ nrf_pc = "parse" /\ nrf_rx.kind # "audio"
    /\ nrf_pc' = "poll" /\ nrf_rx' = NoFrame
    /\ UNCHANGED <<ringVars, tx_mutex, ctrl_pending, ackVars, tx_seq, spiVars, taskVars,
                   statusVars, last_seq, ingress, ack_line, histVars>>

NrfDuplicate ==
    /\ nrf_pc = "parse" /\ nrf_rx.kind = "audio" /\ nrf_rx.seq = last_seq
    /\ PulseAck
    /\ nrf_pc' = "poll" /\ nrf_rx' = NoFrame
    /\ UNCHANGED <<ringVars, tx_mutex, ctrl_pending, ackVars, tx_seq, spiVars, taskVars,
                   statusVars, last_seq, ingress, histVars>>

MutNrfAdmit ==
    /\ nrf_pc = "parse" /\ nrf_rx.kind = "audio"
    /\ ingress = "enabled"
    /\ last_seq' = nrf_rx.seq
    /\ admitted' = Append(admitted, nrf_rx.n)
    /\ PulseAck
    /\ nrf_pc' = "poll" /\ nrf_rx' = NoFrame
    /\ UNCHANGED <<ringVars, tx_mutex, ctrl_pending, ackVars, tx_seq, spiVars, taskVars,
                   statusVars, ingress, encoded, accepted, reboots>>

NrfAdmit ==
    /\ nrf_pc = "parse" /\ nrf_rx.kind = "audio" /\ nrf_rx.seq # last_seq
    /\ ingress = "enabled"
    /\ last_seq' = nrf_rx.seq
    /\ admitted' = Append(admitted, nrf_rx.n)
    /\ PulseAck
    /\ nrf_pc' = "poll" /\ nrf_rx' = NoFrame
    /\ UNCHANGED <<ringVars, tx_mutex, ctrl_pending, ackVars, tx_seq, spiVars, taskVars,
                   statusVars, ingress, encoded, accepted, reboots>>

MutNrfReject ==
    /\ nrf_pc = "parse" /\ nrf_rx.kind = "audio" /\ nrf_rx.seq # last_seq
    /\ ingress = "disabled"
    /\ last_seq' = nrf_rx.seq
    /\ nrf_pc' = "poll" /\ nrf_rx' = NoFrame
    /\ UNCHANGED <<ringVars, tx_mutex, ctrl_pending, ackVars, tx_seq, spiVars, taskVars,
                   statusVars, ingress, ack_line, histVars>>

NrfReject ==
    /\ nrf_pc = "parse" /\ nrf_rx.kind = "audio" /\ nrf_rx.seq # last_seq
    /\ ingress = "disabled"
    /\ nrf_pc' = "poll" /\ nrf_rx' = NoFrame
    /\ UNCHANGED <<ringVars, tx_mutex, ctrl_pending, ackVars, tx_seq, spiVars, taskVars,
                   statusVars, last_seq, ingress, ack_line, histVars>>
-----------------------------------------------------------------------------
(* Time passes: 50 ms since the frame in flight was staged, 5 s since the  *)
(* last status.                                                            *)
AckDeadline ==
    /\ AckMayExpire /\ ack_wait = "waiting"
    /\ ack_wait' = "expired"
    /\ UNCHANGED <<ringVars, tx_mutex, ctrl_pending, inflight, tx_seq,
                   spiVars, taskVars, statusVars, nrfVars,
                   ack_line, histVars>>

StatusAges ==
    /\ link = "fresh"
    /\ link' = "stale"
    /\ UNCHANGED <<ringVars, tx_mutex, ctrl_pending, ackVars, tx_seq, spiVars, taskVars,
                   mesh_state, generation, nrfVars, ack_line, histVars>>

(* mesh_protocol_audio_set_ingress, on becoming active and on stop.*)
SetIngressEnabled ==
    /\ ingress' \in {"enabled", "disabled"} \ {ingress}
    /\ UNCHANGED <<ringVars, tx_mutex, ctrl_pending, ackVars, tx_seq, spiVars, taskVars,
                   statusVars, nrf_pc, nrf_rx, last_seq, ack_line, histVars>>

(* The ESP restarts: g_bridge is zero again and uart_bridge_init runs; the *)
(* nRF keeps s_last_audio_seq.                                             *)
EspReboot ==
    /\ generation + reboots < MaxUpsets
    /\ reboots' = reboots + 1
    /\ audio_q' = <<>> /\ slots_free' = Slots /\ slots_used' = 0
    /\ tx_mutex' = "none"
    /\ ctrl_pending' = NoFrame
    /\ inflight' = NoFrame /\ ack_wait' = "none"
    /\ tx_seq' = 0
    /\ spi_pc' = "deadline" /\ entry' = NoFrame /\ tx_dma' = NoFrame
    /\ esp_rx' = "none"
    /\ prod_pc' = "idle" /\ ctrl_pc' = "idle"
    /\ link' = "down" /\ mesh_state' = "inactive" /\ generation' = 0
    /\ reader_pc' = "idle" /\ reader_gen' = 0
    /\ ack_line' = "idle"
    /\ UNCHANGED <<nrfVars, encoded, accepted, admitted>>

Producer == SendAudioTakeSlot \/ SendAudioBusy \/ SendAudioLock \/ SendAudioEnqueue
Control  == QueueControlLock \/ QueueControlEncode
SpiTask  == \/ DmaDeadline \/ DmaControl \/ DmaResend \/ DmaIdle \/ DmaDequeue
            \/ DmaDrop \/ DmaCommit \/ RxNothing \/ RxStatus
            \/ DiscardPendingLock \/ DiscardPending
Reader   == StatusExpired \/ DiscardExpiredLock \/ DiscardExpired
NrfParse == NrfNotAudio \/ NrfDuplicate \/ NrfAdmit \/ NrfReject
Clock    == AckDeadline \/ StatusAges

Next == \/ Producer \/ Control \/ SpiTask \/ Reader \/ AckIsr
        \/ Transfer \/ NrfParse \/ Clock \/ SetIngressEnabled \/ EspReboot

Spec == Init /\ [][Next]_vars

(* The tasks are scheduled, the nRF keeps polling and time passes.  Nothing*)
(* is assumed of new audio, new commands, status expiry or the ACK edge.   *)
Fairness ==
    /\ WF_vars(SpiTask) /\ WF_vars(Transfer) /\ WF_vars(NrfParse)
    /\ WF_vars(AckDeadline) /\ WF_vars(AckIsr)
    /\ WF_vars(SendAudioBusy \/ SendAudioLock \/ SendAudioEnqueue)
    /\ WF_vars(QueueControlEncode)
    /\ WF_vars(DiscardExpiredLock) /\ WF_vars(DiscardExpired)

FairSpec == Spec /\ Fairness
-----------------------------------------------------------------------------
Ch == INSTANCE AudioChannel WITH delivered <- admitted
Newest == Ch!Newest(admitted)

(* Every variable stays in its domain.                                     *)
TypeOK ==
    /\ audio_q \in Seq(Frames) /\ slots_free \in Nat /\ slots_used \in Nat
    /\ tx_mutex \in {"none", "producer", "control", "spi", "reader"}
    /\ ctrl_pending \in Frames
    /\ inflight \in Frames /\ ack_wait \in {"none", "waiting", "expired"}
    /\ tx_seq \in 0..(SeqMod - 1)
    /\ spi_pc \in {"deadline", "control", "resend", "dequeue", "commit",
                   "armed", "received", "purge", "drain"}
    /\ entry \in Frames /\ tx_dma \in Frames
    /\ esp_rx \in {"none", "active", "inactive"}
    /\ prod_pc \in {"idle", "slot", "encode"} /\ ctrl_pc \in {"idle", "encode"}
    /\ link \in {"down", "fresh", "stale"} /\ mesh_state \in {"inactive", "active"}
    /\ generation \in Nat
    /\ reader_pc \in {"idle", "purge", "drain"} /\ reader_gen \in Nat
    /\ nrf_pc \in {"poll", "parse"} /\ nrf_rx \in Frames
    /\ last_seq \in 0..SeqMod /\ ingress \in {"enabled", "disabled"}
    /\ ack_line \in {"idle", "edge"}
    /\ encoded \in Nat /\ accepted \in SUBSET Nat /\ admitted \in Seq(Nat)
    /\ reboots \in Nat

(* Every ring slot is in exactly one place: free, used, in the producer's  *)
(* hand, in the SPI task's hand, or in flight.  The ISR, the ACK timeout   *)
(* and both purges give slots back through the same semaphore ("would leak *)
(* a semaphore slot permanently", bridge_tx.c:200), so a slot lost or      *)
(* given twice shows here; and the used semaphore counts the ring's live   *)
(* entries, so no entry is overwritten before it is read.  There is one    *)
(* frame in flight at a time: the SPI task dequeues only when none waits.  *)
SlotsConserved ==
    /\ slots_free + slots_used + Held(prod_pc \in {"slot", "encode"})
         + Held(spi_pc = "commit") + Held(waiting_ack) = Slots
    /\ slots_used = Len(audio_q)
    /\ spi_pc \in {"dequeue", "commit"} => ~waiting_ack

(* Where a copy of an audio frame may be, oldest first: the nRF's receive  *)
(* buffer, the DMA buffer, the in-flight copy, the entry being committed,  *)
(* the ring.  Frames never overtake one another along this pipe, and the   *)
(* nRF can tell a copy of the newest frame it admitted from a new frame.   *)
IsAudio(f) == f.kind = "audio"
Recognised(f) == IsAudio(f) =>
    /\ f.n \in accepted /\ Newest <= f.n
    /\ f.n = Newest => f.seq = last_seq
NotAhead(f, g) == IsAudio(f) /\ IsAudio(g) =>
    f.n <= g.n /\ (f.n = g.n => f.seq = g.seq)
AllBefore(n) ==
    /\ Newest < n
    /\ \A f \in {nrf_rx, tx_dma} : IsAudio(f) => f.n < n
    /\ waiting_ack => inflight.n < n

PipeInOrder ==
    /\ accepted \subseteq 1..encoded /\ Newest <= encoded /\ ~IsAudio(ctrl_pending)
    /\ Recognised(nrf_rx) /\ Recognised(tx_dma) /\ NotAhead(nrf_rx, tx_dma)
    /\ waiting_ack => /\ IsAudio(inflight) /\ Recognised(inflight)
                         /\ NotAhead(nrf_rx, inflight) /\ NotAhead(tx_dma, inflight)
    /\ spi_pc = "commit" => /\ IsAudio(entry) /\ entry.n \in accepted
                            /\ AllBefore(entry.n)
    /\ \A i \in DOMAIN audio_q :
         /\ IsAudio(audio_q[i]) /\ audio_q[i].n \in accepted
         /\ AllBefore(audio_q[i].n)
         /\ spi_pc = "commit" => entry.n < audio_q[i].n
    /\ \A i, j \in DOMAIN audio_q : i < j => audio_q[i].n < audio_q[j].n

(* A new frame that the nRF takes for a duplicate, and so acknowledges     *)
(* without admitting, was encoded a whole sequence space after the last    *)
(* frame the nRF admitted, or after an ESP restart (parse_rx compares with *)
(* the last admitted sequence number only).                                *)
FalseDuplicateOnlyAfterWrap ==
    (nrf_pc = "parse" /\ nrf_rx.kind = "audio" /\ nrf_rx.seq = last_seq)
      => \/ nrf_rx.n = Newest
         \/ nrf_rx.n - Newest >= SeqMod
         \/ reboots > 0

(* The audio path is an ordered channel that loses but never duplicates,   *)
(* reorders or invents a frame, whatever the ACK edges, timeouts, purges   *)
(* and re-presentations do.                                                *)
ChannelSpec == Ch!ChSpec

(* docs/inter_mcu.md:78: "The ESP retains one frame and re-presents it on  *)
(* each poll until the nRF has durably admitted it and pulses the ACK      *)
(* GPIO": an ACK interrupt that releases a frame finds it admitted.        *)
AckReleasesAdmittedFrame ==
    [][AckIsr /\ waiting_ack => \E i \in DOMAIN admitted : admitted[i] = inflight.n]_vars

(* A frame in flight is released: acknowledged, timed out or purged.       *)
InflightReleased == waiting_ack ~> ~waiting_ack

(* Every frame in the ring leaves it: the ring never stalls behind a lost  *)
(* ACK, a busy mutex or a pending control frame.                           *)
RingDrains == \A n \in 1..(MaxEncoded + 2) :
    (\E i \in DOMAIN audio_q : audio_q[i].n = n)
      ~> ~(\E i \in DOMAIN audio_q : audio_q[i].n = n)
=============================================================================
