---------------------------- MODULE RetryChannel ----------------------------
(***************************************************************************)
(* What each outbound ring of the nRF promises the ESP, with no ring, no   *)
(* lock and no bus: an ordered channel that may lose a record and never    *)
(* reorders or invents one.  A transfer that the sender takes for failed   *)
(* may have arrived, so the newest record may be delivered again as long   *)
(* as no transfer has been seen to succeed since; never after one has, and *)
(* never behind a newer record.                                            *)
(*                                                                         *)
(* A record is named by the number it got when it was accepted.            *)
(***************************************************************************)
EXTENDS Naturals, Sequences

VARIABLES accepted,   \* records queued so far
          delivered,  \* the sequence of records the ESP decoded
          open        \* the newest of them may come again

rcVars == <<accepted, delivered, open>>

(* The newest record delivered, zero before the first.                     *)
Newest(s) == IF s = <<>> THEN 0 ELSE s[Len(s)]

RcInit == accepted = {} /\ delivered = <<>> /\ ~open

RcAccept == \E r \in accepted' :
    /\ \A other \in accepted : other < r
    /\ accepted' = accepted \cup {r}
    /\ UNCHANGED <<delivered, open>>

RcDeliver == \E r \in accepted :
    /\ r > Newest(delivered) \/ (r = Newest(delivered) /\ open)
    /\ delivered' = Append(delivered, r)
    /\ open' \in BOOLEAN
    /\ UNCHANGED accepted

RcConfirm ==
    /\ ~open'
    /\ UNCHANGED <<accepted, delivered>>

RcNext == RcAccept \/ RcDeliver \/ RcConfirm

RcSpec == RcInit /\ [][RcNext]_rcVars
=============================================================================
