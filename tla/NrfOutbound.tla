---------------------------- MODULE NrfOutbound ----------------------------
(***************************************************************************)
(* The nRF's outbound SPI queues (nrf_mesh/src/uart_bridge.c): a control   *)
(* ring and an audio ring that the system workqueue fills, dropping the    *)
(* oldest record when full, and that the SPI thread drains one record per  *)
(* poll, control first.                                                    *)
(*                                                                         *)
(* uart_bridge_process peeks a record under s_tx_lock, transfers it with   *)
(* the lock released, and takes the lock again to advance the tail if it   *)
(* still stands where it peeked.  The workqueue runs while the SPI thread  *)
(* waits for the transfer.  A section under s_tx_lock is one step.         *)
(***************************************************************************)
EXTENDS Integers, Sequences

CONSTANTS CtrlSize,    \* TX_CTRL_QUEUE_SIZE, one more than the usable entries
          AudioSize,   \* TX_AUDIO_QUEUE_SIZE
          MaxCtrl, MaxAudio, \* bounds: records queued on each ring
          MaxRepeats         \* bound: failed transfers that the ESP decoded

ASSUME OutboundAssumption ==
    /\ CtrlSize \in Nat /\ CtrlSize >= 2
    /\ AudioSize \in Nat /\ AudioSize >= 2
    /\ MaxCtrl \in Nat /\ MaxAudio \in Nat /\ MaxRepeats \in Nat

Queues == {"control", "audio"}
Size(k) == IF k = "control" THEN CtrlSize ELSE AudioSize
MaxPushed(k) == IF k = "control" THEN MaxCtrl ELSE MaxAudio

VARIABLES
    q, head, tail,              \* the rings, by queue
    overwrite, transmitted,     \* s_*_q_overwrite, s_spi_tx_*
    spi_pc,                     \* "poll", "transfer", "commit"
    tx_kind, tx_index, tx_buf,  \* the record uart_bridge_process peeked
    pushed,                     \* history: records queued so far
    delivered,                  \* history: records the ESP decoded, in order
    burst,                      \* history: records queued since the peek
    unconfirmed,                \* history: rings whose newest decoded record
                                \* has had no successful transfer since
    repeats                     \* failed transfers that the ESP decoded

ringVars  == <<q, head, tail, overwrite, transmitted>>
peekVars  == <<tx_kind, tx_index, tx_buf>>
espVars   == <<delivered, unconfirmed, repeats>>
vars == <<ringVars, spi_pc, peekVars, pushed, burst, espVars>>

(* A record is the number it got when it was queued on its ring; zero is a *)
(* slot never written, and the idle frame.                                 *)
MutNextIndex(k, i) == IF i = Size(k) THEN 0 ELSE i + 1

NextIndex(k, i) == IF i = Size(k) - 1 THEN 0 ELSE i + 1   \* (i + 1) % size

Indices(k) == 0..(Size(k) - 1)
Empty(k) == head[k] = tail[k]

(* The entries from index i up to the head, and the indices in use.        *)
Behind(k, i) == IF head[k] >= i THEN head[k] - i ELSE head[k] - i + Size(k)
Live(k) == {i \in Indices(k) : Behind(k, i) \in 1..Behind(k, tail[k])}

Init ==
    /\ q = [k \in Queues |-> [i \in Indices(k) |-> 0]]
    /\ head = [k \in Queues |-> 0] /\ tail = [k \in Queues |-> 0]
    /\ overwrite = [k \in Queues |-> 0] /\ transmitted = [k \in Queues |-> 0]
    /\ spi_pc = "poll"
    /\ tx_kind = "idle" /\ tx_index = 0 /\ tx_buf = 0
    /\ pushed = [k \in Queues |-> 0] /\ delivered = [k \in Queues |-> <<>>]
    /\ burst = 0 /\ unconfirmed = {} /\ repeats = 0
-----------------------------------------------------------------------------
(* queue_control_packet (events, statuses, command ACKs, log lines) and    *)
(* uart_bridge_send_audio(_v2): drop the oldest record when full.          *)
MutEnqueue(k) ==
    LET next_head == NextIndex(k, head[k]) IN
    /\ pushed[k] < MaxPushed(k)
    /\ UNCHANGED <<tail, overwrite>>
    /\ q' = [q EXCEPT ![k][head[k]] = pushed[k] + 1]
    /\ head' = [head EXCEPT ![k] = next_head]
    /\ pushed' = [pushed EXCEPT ![k] = @ + 1]
    /\ burst' = IF k = tx_kind THEN burst + 1 ELSE burst
    /\ UNCHANGED <<transmitted, spi_pc, peekVars, espVars>>

MutEnqueueNewest(k) ==
    LET full == NextIndex(k, head[k]) = tail[k] IN
    /\ pushed[k] < MaxPushed(k)
    /\ overwrite' = [overwrite EXCEPT ![k] = IF full THEN @ + 1 ELSE @]
    /\ q' = [q EXCEPT ![k][head[k]] = IF full THEN @ ELSE pushed[k] + 1]
    /\ head' = [head EXCEPT ![k] = IF full THEN @ ELSE NextIndex(k, @)]
    /\ pushed' = [pushed EXCEPT ![k] = @ + 1]
    /\ burst' = IF k = tx_kind THEN burst + 1 ELSE burst
    /\ UNCHANGED <<tail, transmitted, spi_pc, peekVars, espVars>>

Enqueue(k) ==
    LET next_head == NextIndex(k, head[k])
        full == next_head = tail[k] IN
    /\ pushed[k] < MaxPushed(k)
    /\ tail' = [tail EXCEPT ![k] = IF full THEN NextIndex(k, @) ELSE @]
    /\ overwrite' = [overwrite EXCEPT ![k] = IF full THEN @ + 1 ELSE @]
    /\ q' = [q EXCEPT ![k][head[k]] = pushed[k] + 1]
    /\ head' = [head EXCEPT ![k] = next_head]
    /\ pushed' = [pushed EXCEPT ![k] = @ + 1]
    /\ burst' = IF k = tx_kind THEN burst + 1 ELSE burst
    /\ UNCHANGED <<transmitted, spi_pc, peekVars, espVars>>

(* uart_bridge_process: peek one record, control first.                    *)
PeekFrom(k) ==
    /\ tx_kind' = k /\ tx_index' = tail[k] /\ tx_buf' = q[k][tail[k]]

Peek ==
    /\ spi_pc = "poll"
    /\ \/ ~Empty("control") /\ PeekFrom("control")
       \/ Empty("control") /\ ~Empty("audio") /\ PeekFrom("audio")
       \/ /\ Empty("control") /\ Empty("audio")
          /\ tx_kind' = "idle" /\ tx_index' = 0 /\ tx_buf' = 0
    /\ spi_pc' = "transfer" /\ burst' = 0
    /\ UNCHANGED <<ringVars, pushed, espVars>>

(* What the ESP makes of the frame it clocks in: bridge_rx_parse decodes   *)
(* it or rejects it (bad sync, length or CRC); nothing tells the nRF.      *)
Received(decoded) ==
    delivered' = IF decoded /\ tx_kind \in Queues
                 THEN [delivered EXCEPT ![tx_kind] = Append(@, tx_buf)]
                 ELSE delivered

(* spi_transceive returns an error: the record stays queued.  The error is *)
(* the master's; the ESP may have clocked in the whole frame.              *)
TransferFail(decoded) ==
    /\ spi_pc = "transfer"
    /\ Received(decoded)
    /\ IF decoded /\ tx_kind \in Queues
       THEN /\ repeats < MaxRepeats /\ repeats' = repeats + 1
            /\ unconfirmed' = unconfirmed \cup {tx_kind}
       ELSE UNCHANGED <<repeats, unconfirmed>>
    /\ spi_pc' = "poll"
    /\ UNCHANGED <<ringVars, peekVars, pushed, burst>>

(* spi_transceive succeeds.                                                *)
TransferDone(decoded) ==
    /\ spi_pc = "transfer"
    /\ Received(decoded)
    /\ unconfirmed' = unconfirmed \ {tx_kind}
    /\ spi_pc' = "commit"
    /\ UNCHANGED <<ringVars, peekVars, pushed, burst, repeats>>

(* Advance the queue if its tail still stands where the record was peeked. *)
MutCommit ==
    /\ spi_pc = "commit"
    /\ UNCHANGED <<tail, transmitted>>
    /\ spi_pc' = "poll"
    /\ UNCHANGED <<q, head, overwrite, peekVars, pushed, burst, espVars>>

MutCommitUnchecked ==
    /\ spi_pc = "commit"
    /\ IF tx_kind \in Queues
       THEN /\ tail' = [tail EXCEPT ![tx_kind] = NextIndex(tx_kind, @)]
            /\ transmitted' = [transmitted EXCEPT ![tx_kind] = @ + 1]
       ELSE UNCHANGED <<tail, transmitted>>
    /\ spi_pc' = "poll"
    /\ UNCHANGED <<q, head, overwrite, peekVars, pushed, burst, espVars>>

Commit ==
    /\ spi_pc = "commit"
    /\ IF tx_kind \in Queues /\ tail[tx_kind] = tx_index
       THEN /\ tail' = [tail EXCEPT ![tx_kind] = NextIndex(tx_kind, @)]
            /\ transmitted' = [transmitted EXCEPT ![tx_kind] = @ + 1]
       ELSE UNCHANGED <<tail, transmitted>>
    /\ spi_pc' = "poll"
    /\ UNCHANGED <<q, head, overwrite, peekVars, pushed, burst, espVars>>

Next ==
    \/ \E k \in Queues : Enqueue(k)
    \/ Peek
    \/ \E decoded \in BOOLEAN : TransferFail(decoded) \/ TransferDone(decoded)
    \/ Commit

Spec == Init /\ [][Next]_vars
-----------------------------------------------------------------------------
TypeOK ==
    /\ \A k \in Queues : q[k] \in [Indices(k) -> Nat]
    /\ \A k \in Queues : head[k] \in Indices(k) /\ tail[k] \in Indices(k)
    /\ DOMAIN q = Queues /\ DOMAIN head = Queues /\ DOMAIN tail = Queues
    /\ overwrite \in [Queues -> Nat] /\ transmitted \in [Queues -> Nat]
    /\ spi_pc \in {"poll", "transfer", "commit"}
    /\ tx_kind \in Queues \cup {"idle"} /\ tx_index \in Nat /\ tx_buf \in Nat
    /\ pushed \in [Queues -> Nat] /\ delivered \in [Queues -> Seq(Nat)]
    /\ burst \in Nat /\ unconfirmed \subseteq Queues /\ repeats \in Nat

(* Every queued record is still in its ring, was counted as overwritten or *)
(* was counted as transmitted: the telemetry of uart_bridge.c adds up,     *)
(* also when the workqueue drops records during a transfer.                *)
Accounted == \A k \in Queues :
    pushed[k] = overwrite[k] + transmitted[k] + Behind(k, tail[k])

(* A ring holds the newest records of its kind, in the order they were     *)
(* queued: overflow gives up the oldest ones and nothing else.             *)
NewestKept == \A k \in Queues : \A i \in Live(k) :
    q[k][i] = pushed[k] - Behind(k, i) + 1

(* The SPI thread takes a record off its ring only if it is the one it has *)
(* just transferred, unless the workqueue queued a whole ring's worth of   *)
(* records during that one transfer: the index then comes round to where   *)
(* it was.  docs/inter_mcu.md:75 has no such condition: the nRF "removes   *)
(* the selected entry only after a successful SPI transaction".            *)
RemovesSent ==
    [][spi_pc = "commit" /\ tail' # tail /\ spi_pc' = "poll"
       /\ burst < Size(tx_kind)
        => q[tx_kind][tail[tx_kind]] = tx_buf]_vars

(* Each ring, with its overflow and its retries of transfers that may have *)
(* arrived, is an ordered channel that may lose a record.  It repeats only *)
(* the newest one, and only until a transfer has succeeded.                *)
Control == INSTANCE RetryChannel
    WITH accepted <- 1..pushed["control"], delivered <- delivered["control"],
         open <- "control" \in unconfirmed
Audio == INSTANCE RetryChannel
    WITH accepted <- 1..pushed["audio"], delivered <- delivered["audio"],
         open <- "audio" \in unconfirmed
ChannelsImplemented == Control!RcSpec /\ Audio!RcSpec
=============================================================================
