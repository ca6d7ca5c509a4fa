---------------------------- MODULE AudioChannel ----------------------------
(***************************************************************************)
(* What the ESP-to-nRF audio path promises, with no ring, no DMA buffer,   *)
(* no ACK line and no wire sequence numbers: an ordered channel that may   *)
(* lose a frame but never duplicates, reorders or invents one.  What the   *)
(* other direction promises is RetryChannel.                               *)
(*                                                                         *)
(* A frame is named by the number it got when it was accepted.             *)
(***************************************************************************)
EXTENDS Naturals, Sequences

VARIABLES accepted,   \* frames uart_bridge_send_audio_v2 returned ESP_OK for
          delivered   \* the sequence of frames the nRF admitted

chVars == <<accepted, delivered>>

(* The newest frame delivered, zero before the first.                      *)
Newest(s) == IF s = <<>> THEN 0 ELSE s[Len(s)]

ChInit == accepted = {} /\ delivered = <<>>

ChAccept == \E f \in accepted' :
    /\ \A g \in accepted : g < f
    /\ accepted' = accepted \cup {f}
    /\ UNCHANGED delivered

ChDeliver == \E f \in accepted :
    /\ f > Newest(delivered)
    /\ delivered' = Append(delivered, f)
    /\ UNCHANGED accepted

ChNext == ChAccept \/ ChDeliver

ChSpec == ChInit /\ [][ChNext]_chVars
=============================================================================
