------------------------ MODULE MeshLifecycle_proof ------------------------
(***************************************************************************)
(* The button, the application loop, the command exchange and the nRF's    *)
(* command worker, proved for every number of attempts, generations, ring  *)
(* entries and presses.                                                    *)
(***************************************************************************)
EXTENDS MeshLifecycle, TLAPS

Tags   == Lifecycle \cup {None}
Frames == Lifecycle \cup {None, Ping}
Kinds  == {"none", "status", "ack", "ready", "stopped", "sync_lost", "became_coordinator"}
Records == {r \in [kind : Kinds, state : MeshStates \cup {"none"}, tag : Tags] :
              r.kind = "status" => r.state \in MeshStates}

(* The part of the state that the button task, the loop and the status     *)
(* callback share under s_membership_mutex.                                *)
ToneInv ==
    /\ intent \in BOOLEAN /\ nvs \in BOOLEAN /\ button_pc \in {"idle", "set", "reset", "apply"}
    /\ mesh_active \in BOOLEAN /\ enable_pending \in BOOLEAN /\ tone \in BOOLEAN
    /\ TonesMatchIntent

(* The application loop; between its check of s_reconcile_attempts and the *)
(* read of MainCount only a reset to 0 comes.                              *)
LoopInv ==
    /\ main_pc \in {"probe", "probing", "idle", "activate", "match", "count", "send",
                    "wait", "drain", "sleep"}
    /\ rest \in 0..2
    /\ seen \in MeshStates \cup {"none"} /\ observed \in MeshStates \cup {"none"}
    /\ attempts \in 0..ReconcileAttempts /\ tries \in 0..(ReconcileAttempts - 1)
    /\ main_pc = "count" => attempts < ReconcileAttempts
    /\ connected \in BOOLEAN /\ status \in MeshStates

(* The exchange: commands, records and requests under way are well formed. *)
ExchangeInv ==
    /\ cmd \in Tags /\ ack \in Tags /\ generation \in Generations
    /\ attempt \in 0..CommandAttempts
    /\ fresh_status \in BOOLEAN /\ applied \in BOOLEAN
    /\ ctrl_pending \in Frames /\ armed \in Frames /\ incoming \in Frames
    /\ spi_pc \in {"transfer", "parse", "status_cb"}
    /\ rx \in Records /\ (spi_pc = "status_cb" => rx.kind = "status")

NrfInv ==
    /\ status_pending \in BOOLEAN /\ request \in Requests
    /\ request # NoRequest => request.command = Command(request.enabled)
    /\ nrf_state \in MeshStates
    /\ out \in Seq(Records) /\ Len(out) <= CtrlSlots

WireInv == ExchangeInv /\ NrfInv
-----------------------------------------------------------------------------
(* The generation counter wraps at the end of its space.                   *)
LEMMA NextGeneration ==
  ASSUME NEW g \in Generations
  PROVE  (g + 1) % GenMod = (IF g + 1 = GenMod THEN 0 ELSE g + 1) /\ (g + 1) % GenMod \in Generations
<1>1. CASE g + 1 = GenMod
  BY <1>1, LifecycleAssumption DEF Generations
<1>2. CASE g + 1 < GenMod
  BY <1>2, LifecycleAssumption DEF Generations
<1>3. QED
  BY <1>1, <1>2, LifecycleAssumption DEF Generations

(* The constant records and frames.                                        *)
LEMMA Constants ==
  /\ None \in Tags /\ None \in Frames /\ Ping \in Frames /\ Tags \subseteq Frames
  /\ NoRequest \in Requests /\ NoRec \in Records /\ NoRec.tag = None /\ NoRec.kind = "none"
  /\ \A s \in MeshStates : StatusRec(s) \in Records /\ StatusRec(s).tag = None
  /\ \A e \in Kinds \ {"status"} : EventRec(e) \in Records /\ EventRec(e).tag = None
  /\ \A t \in Lifecycle : AckRec(t) \in Records /\ AckRec(t).tag = t
<1>1. 0 \in Generations
  BY LifecycleAssumption DEF Generations
<1>2. None \in Tags /\ None \in Frames /\ Ping \in Frames /\ Tags \subseteq Frames
  BY DEF Tags, Frames
<1>3. NoRequest \in Requests
  BY <1>1 DEF NoRequest, Requests
<1>4. \A s \in MeshStates : StatusRec(s) \in Records /\ StatusRec(s).tag = None
  BY <1>2 DEF StatusRec, Rec, Records, Kinds
<1>5. \A e \in Kinds \ {"status"} : EventRec(e) \in Records /\ EventRec(e).tag = None
  BY <1>2 DEF EventRec, Rec, Records, Kinds
<1>6. \A t \in Lifecycle : AckRec(t) \in Records /\ AckRec(t).tag = t
  BY DEF AckRec, Rec, Records, Kinds, Tags
<1>7. NoRec \in Records /\ NoRec.tag = None /\ NoRec.kind = "none"
  BY <1>5 DEF NoRec, Kinds, EventRec, Rec
<1>8. QED
  BY <1>2, <1>3, <1>4, <1>5, <1>6, <1>7

(* queue_control_packet keeps within the ring, and a record that is in it  *)
(* afterwards was in it or is one of the new ones.                         *)
LEMMA PushedType ==
  ASSUME NEW ring \in Seq(Records), NEW recs \in Seq(Records)
  PROVE  /\ Pushed(ring, recs) \in Seq(Records) /\ Len(Pushed(ring, recs)) <= CtrlSlots
         /\ \A i \in DOMAIN Pushed(ring, recs) :
              \/ \E j \in DOMAIN ring : Pushed(ring, recs)[i] = ring[j]
              \/ \E j \in DOMAIN recs : Pushed(ring, recs)[i] = recs[j]
<1> DEFINE all  == ring \o recs
           from == Len(all) - CtrlSlots + 1
<1>1. /\ all \in Seq(Records) /\ Len(all) = Len(ring) + Len(recs) /\ Len(all) \in Nat
      /\ Len(ring) \in Nat /\ Len(recs) \in Nat
      /\ DOMAIN ring = 1..Len(ring) /\ DOMAIN recs = 1..Len(recs) /\ DOMAIN all = 1..Len(all)
  OBVIOUS
<1>2. /\ \A i \in 1..Len(ring) : all[i] = ring[i]
      /\ \A i \in 1..Len(recs) : all[Len(ring) + i] = recs[i]
  OBVIOUS
<1>3. Pushed(ring, recs) = IF Len(all) > CtrlSlots THEN SubSeq(all, from, Len(all)) ELSE all
  BY DEF Pushed
<1> HIDE DEF all
<1>4. \A i \in DOMAIN all : \/ \E j \in DOMAIN ring : all[i] = ring[j]
                            \/ \E j \in DOMAIN recs : all[i] = recs[j]
  <2> SUFFICES ASSUME NEW i \in DOMAIN all, i \notin DOMAIN ring
               PROVE  \E j \in DOMAIN recs : all[i] = recs[j]
    BY <1>1, <1>2
  <2>1. i - Len(ring) \in 1..Len(recs) /\ Len(ring) + (i - Len(ring)) = i
    BY <1>1
  <2>2. QED
    BY <1>1, <1>2, <2>1
<1>5. CASE Len(all) > CtrlSlots
  <2> DEFINE s == SubSeq(all, from, Len(all))
  <2>1. from \in 1..Len(all) /\ CtrlSlots \in Nat
    BY <1>1, <1>5, LifecycleAssumption
  <2>2. Len(all) - from + 1 = CtrlSlots
    BY <1>1, <2>1
  <2>3. s \in Seq(Records) /\ Len(s) = Len(all) - from + 1
    BY <1>1, <2>1
  <2>4. \A i \in 1..(Len(all) - from + 1) : s[i] = all[from + i - 1] /\ from + i - 1 \in DOMAIN all
    BY <1>1, <2>1
  <2> HIDE DEF s, from
  <2>5. DOMAIN s = 1..CtrlSlots
    BY <2>1, <2>2, <2>3
  <2>6. \A i \in DOMAIN s : \/ \E j \in DOMAIN ring : s[i] = ring[j]
                            \/ \E j \in DOMAIN recs : s[i] = recs[j]
    BY <1>4, <2>2, <2>4, <2>5
  <2>7. Pushed(ring, recs) = s
    BY <1>3, <1>5 DEF s
  <2>8. QED
    BY <2>1, <2>2, <2>3, <2>6, <2>7
<1>6. CASE ~(Len(all) > CtrlSlots)
  <2>1. Pushed(ring, recs) = all /\ Len(all) <= CtrlSlots
    BY <1>1, <1>3, <1>6, LifecycleAssumption
  <2>2. QED
    BY <1>1, <1>4, <2>1
<1>7. QED
  BY <1>5, <1>6
-----------------------------------------------------------------------------
(* Every write to the tones leaves them in accord with the intent.         *)
LEMMA ToneInduction == ToneInv /\ [Next]_vars => ToneInv'
<1> SUFFICES ASSUME ToneInv, [Next]_vars PROVE ToneInv'
  OBVIOUS
<1> USE LifecycleAssumption DEF espVars, buttonVars, loopVars, cmdVars, statusVars, toneVars, vars
<1>1. ASSUME UNCHANGED <<buttonVars, toneVars>> PROVE ToneInv'
  BY <1>1 DEF ToneInv, TonesMatchIntent
<1>2. CASE MainProbe \/ MainProbed \/ MainMatch \/ MainCount \/ MainSend \/ MainAcked \/
          MainObserved \/ MainRetry \/ MainTimeout \/ MainSendBusy \/ MainSleep \/
          RxNothing \/ RxAck \/ RxStatus \/ Polls \/ StatusExpires \/ RequestFlag \/
          CommandWork \/ StatusWork \/ StatusRequest \/ MeshJoined \/ MeshFounded \/
          SyncLost \/ NrfReset \/ UNCHANGED vars
  <2>1. UNCHANGED <<buttonVars, toneVars>>
    BY <1>2
    DEF MainProbe, MainProbed, MainMatch, MainCount, MainSend, MainAcked,
        CommandDone, MainObserved, MainRetry, MainTimeout, Delayed, Upset,
        MainSendBusy, MainSleep, RxNothing, RxAck, RxStatus, Poll, PollFailed, Polls,
        StatusExpires, RequestFlag, CommandWork, StatusWork, StatusRequest,
        MeshJoined, Move, MeshFounded, SyncLost, NrfReset, spiVars, nrfVars,
        boundVars
  <2>2. QED
    BY <1>1, <2>1
<1>3. CASE \E ok \in BOOLEAN : ButtonPersist(ok)
  <2>1. PICK ok \in BOOLEAN : ButtonPersist(ok)
    BY <1>3
  <2>2. UNCHANGED <<intent, mesh_active, enable_pending, tone>>
    BY <2>1 DEF ButtonPersist
  <2>3. CASE ok
    <3>1. nvs' = ~intent /\ button_pc' = "set"
      BY <2>1, <2>3 DEF ButtonPersist
    <3>2. nvs' \in BOOLEAN
      BY <3>1
    <3>3. QED
      BY <2>2, <3>1, <3>2 DEF ToneInv, TonesMatchIntent
  <2>4. CASE ~ok
    BY <2>1, <2>2, <2>4 DEF ButtonPersist, ToneInv, TonesMatchIntent
  <2>5. QED
    BY <2>3, <2>4
<1>4. CASE ButtonSet
  BY <1>4 DEF ButtonSet, ToneInv, TonesMatchIntent
<1>5. CASE ButtonReset
  BY <1>5 DEF ButtonReset, ToneInv, TonesMatchIntent
<1>6. CASE ButtonApply
  BY <1>6 DEF ButtonApply, ToneInv, TonesMatchIntent
<1>7. CASE MainDisconnected
  BY <1>7 DEF MainDisconnected, ToneInv, TonesMatchIntent
<1>8. CASE MainTick
  BY <1>8 DEF MainTick, ToneInv, TonesMatchIntent
<1>9. CASE MainActivate
  BY <1>9 DEF MainActivate, ToneInv, TonesMatchIntent
<1>10. CASE MainDrain
  BY <1>10 DEF MainDrain, ToneInv, TonesMatchIntent
<1>11. CASE RxStatusCb
  <2>1. UNCHANGED buttonVars
    BY <1>11 DEF RxStatusCb
  <2>2. CASE Running
    <3>1. /\ mesh_active' = (intent /\ rx.state = "active")
          /\ tone' = (tone \/ (intent /\ rx.state = "active" /\ enable_pending))
          /\ enable_pending' = (enable_pending /\ ~(intent /\ rx.state = "active"))
      BY <1>11, <2>2 DEF RxStatusCb
    <3>2. mesh_active' \in BOOLEAN /\ tone' \in BOOLEAN /\ enable_pending' \in BOOLEAN
      BY <3>1 DEF ToneInv
    <3>3. enable_pending' \/ tone' => intent
      BY <3>1 DEF ToneInv, TonesMatchIntent
    <3>4. QED
      BY <2>1, <3>2, <3>3 DEF ToneInv, TonesMatchIntent
  <2>3. CASE ~Running
    BY <1>11, <1>1, <2>1, <2>3 DEF RxStatusCb
  <2>4. QED
    BY <2>2, <2>3
<1>12. CASE RxReady
  BY <1>12 DEF RxReady, ToneInv, TonesMatchIntent
<1>13. CASE RxStopped
  <2>1. UNCHANGED buttonVars
    BY <1>13 DEF RxStopped
  <2>2. CASE Running
    <3>1. mesh_active' = FALSE /\ enable_pending' = FALSE /\ tone' = FALSE
      BY <1>13, <2>2 DEF RxStopped
    <3>2. QED
      BY <2>1, <3>1 DEF ToneInv, TonesMatchIntent
  <2>3. CASE ~Running
    BY <1>13, <1>1, <2>1, <2>3 DEF RxStopped
  <2>4. QED
    BY <2>2, <2>3
<1>14. CASE EspReset
  BY <1>14 DEF EspReset, EspBoot, ToneInv, TonesMatchIntent
<1>15. QED
  BY <1>1, <1>2, <1>3, <1>4, <1>5, <1>6, <1>7, <1>8, <1>9, <1>10, <1>11, <1>12,
     <1>13, <1>14
  DEF Next, ButtonNext, ButtonStep, LoopNext, SpiNext, NrfNext

(* Every step keeps the loop's attempts within NRF_RECONCILE_MAX_ATTEMPTS. *)
LEMMA LoopInduction == LoopInv /\ WireInv /\ [Next]_vars => LoopInv'
<1> SUFFICES ASSUME LoopInv, WireInv, [Next]_vars PROVE LoopInv'
  OBVIOUS
<1> USE LifecycleAssumption DEF espVars, buttonVars, loopVars, cmdVars, statusVars, toneVars, vars
<1>1. ASSUME UNCHANGED <<loopVars, statusVars>> PROVE LoopInv'
  BY <1>1 DEF LoopInv
<1>2. CASE (\E ok \in BOOLEAN : ButtonPersist(ok)) \/ ButtonSet \/ ButtonApply \/ MainRetry \/
          RxNothing \/ RxAck \/ RxStatusCb \/ RxReady \/ RxStopped \/ Polls \/
          RequestFlag \/ CommandWork \/ StatusWork \/ StatusRequest \/ MeshJoined \/
          MeshFounded \/ SyncLost \/ NrfReset \/ UNCHANGED vars
  <2>1. UNCHANGED <<loopVars, statusVars>>
    BY <1>2
    DEF ButtonPersist, ButtonSet, ButtonApply, MainRetry, RxNothing, RxAck,
        RxStatusCb, RxReady, RxStopped, Poll, PollFailed, Polls, RequestFlag, CommandWork,
        StatusWork, StatusRequest, MeshJoined, Move, MeshFounded, SyncLost,
        NrfReset, spiVars, nrfVars, boundVars
  <2>2. QED
    BY <1>1, <2>1
<1>3. CASE ButtonReset
  BY <1>3 DEF ButtonReset, LoopInv
<1>4. CASE MainProbe
  BY <1>4 DEF MainProbe, LoopInv
<1>5. CASE MainProbed
  BY <1>5 DEF MainProbed, LoopInv
<1>6. CASE MainDisconnected
  BY <1>6 DEF MainDisconnected, LoopInv
<1>7. CASE MainTick
  BY <1>7 DEF MainTick, LoopInv
<1>8. CASE MainActivate
  BY <1>8 DEF MainActivate, LoopInv
<1>9. CASE MainMatch
  BY <1>9 DEF MainMatch, LoopInv
<1>10. CASE MainCount
  BY <1>10 DEF MainCount, LoopInv
<1>11. CASE MainDrain
  BY <1>11 DEF MainDrain, LoopInv
<1>12. CASE MainSend
  BY <1>12 DEF MainSend, LoopInv
<1>13. CASE MainAcked
  BY <1>13 DEF MainAcked, CommandDone, LoopInv
<1>14. CASE MainObserved
  BY <1>14 DEF MainObserved, CommandDone, LoopInv
<1>15. CASE MainTimeout
  BY <1>15 DEF MainTimeout, CommandDone, Delayed, Upset, LoopInv
<1>16. CASE MainSendBusy
  BY <1>16 DEF MainSendBusy, LoopInv
<1>17. CASE MainSleep
  BY <1>17 DEF MainSleep, LoopInv
<1>18. CASE RxStatus
  <2>1. rx.state \in MeshStates
    BY <1>18 DEF RxStatus, WireInv, ExchangeInv, Records
  <2>2. QED
    BY <1>18, <2>1 DEF RxStatus, LoopInv, loopVars
<1>19. CASE StatusExpires
  BY <1>19 DEF StatusExpires, LoopInv
<1>20. CASE EspReset
  <2>1. rest' = 0 /\ attempts' = 0 /\ tries' = 0 /\ connected' = FALSE
    BY <1>20 DEF EspReset, EspBoot
  <2>2. /\ main_pc' = "probe" /\ seen' = "none" /\ observed' = "none" /\ status' = "idle"
    BY <1>20 DEF EspReset, EspBoot
  <2>3. rest' \in 0..2 /\ attempts' \in 0..ReconcileAttempts /\ tries' \in 0..(ReconcileAttempts - 1)
    BY <2>1
  <2>4. QED
    BY <2>1, <2>2, <2>3, Zenon DEF LoopInv, MeshStates
<1>21. QED
  BY <1>1, <1>2, <1>3, <1>4, <1>5, <1>6, <1>7, <1>8, <1>9, <1>10, <1>11, <1>12,
     <1>13, <1>14, <1>15, <1>16, <1>17, <1>18, <1>19, <1>20
  DEF Next, ButtonNext, ButtonStep, LoopNext, SpiNext, NrfNext

(* A poll takes the oldest record of the ring, or leaves it there after a  *)
(* failed transfer; the ESP gets that record or nothing.                   *)
LEMMA PollEffect ==
  ASSUME Polls
  PROVE  /\ out' \in {out, IF out = <<>> THEN out ELSE Tail(out)}
         /\ rx' \in {NoRec} \cup (IF out = <<>> THEN {} ELSE {Head(out)})
         /\ incoming' \in {None, armed} /\ armed' = None
         /\ spi_pc = "transfer" /\ spi_pc' = "parse"
         /\ \E n \in {0, 1, 2} : upsets + n <= MaxUpsets /\ upsets' = upsets + n
         /\ UNCHANGED <<espVars, ctrl_pending, request, status_pending, nrf_state, applied>>
<1>1. ASSUME NEW command_lost \in BOOLEAN, NEW record_lost \in BOOLEAN,
             Poll(command_lost, record_lost)
      PROVE  /\ out' = (IF out = <<>> THEN out ELSE Tail(out))
             /\ rx' \in {NoRec} \cup (IF out = <<>> THEN {} ELSE {Head(out)})
             /\ incoming' \in {None, armed} /\ armed' = None
             /\ spi_pc = "transfer" /\ spi_pc' = "parse"
             /\ \E n \in {0, 1, 2} : upsets + n <= MaxUpsets /\ upsets' = upsets + n
             /\ UNCHANGED <<espVars, ctrl_pending, request, status_pending, nrf_state, applied>>
  <2>1. \E n \in {0, 1, 2} : upsets + n <= MaxUpsets /\ upsets' = upsets + n
    BY <1>1 DEF Poll, Upset
  <2> QED
    BY <1>1, <2>1 DEF Poll
<1>2. ASSUME NEW decoded \in BOOLEAN, PollFailed(decoded)
      PROVE  /\ out' = out
             /\ rx' \in {NoRec} \cup (IF out = <<>> THEN {} ELSE {Head(out)})
             /\ incoming' \in {None, armed} /\ armed' = None
             /\ spi_pc = "transfer" /\ spi_pc' = "parse"
             /\ \E n \in {0, 1, 2} : upsets + n <= MaxUpsets /\ upsets' = upsets + n
             /\ UNCHANGED <<espVars, ctrl_pending, request, status_pending, nrf_state, applied>>
  <2>1. \E n \in {0, 1, 2} : upsets + n <= MaxUpsets /\ upsets' = upsets + n
    BY <1>2 DEF PollFailed, Upset
  <2> QED
    BY <1>2, <2>1 DEF PollFailed, nrfVars
<1> QED
  BY <1>1, <1>2 DEF Polls

(* Every step keeps the command exchange well formed.                      *)
LEMMA ExchangeInduction == WireInv /\ [Next]_vars => ExchangeInv'
<1> SUFFICES ASSUME WireInv, [Next]_vars PROVE ExchangeInv'
  OBVIOUS
<1>a. ExchangeInv /\ NrfInv
  BY DEF WireInv
<1> USE LifecycleAssumption, <1>a DEF espVars, buttonVars, loopVars, cmdVars, statusVars, toneVars, vars
<1>1. ASSUME UNCHANGED <<cmdVars, spiVars, incoming, applied>> PROVE ExchangeInv'
  BY <1>1 DEF ExchangeInv, spiVars
<1>2. CASE (\E ok \in BOOLEAN : ButtonPersist(ok)) \/ ButtonSet \/ ButtonReset \/ ButtonApply
          \/ MainProbed \/ MainDisconnected \/ MainTick \/ MainActivate \/ MainMatch
          \/ MainCount \/ MainDrain \/ MainSleep \/ StatusExpires \/ StatusWork \/
          MeshJoined \/ MeshFounded \/ SyncLost \/ UNCHANGED vars
  <2>1. UNCHANGED <<cmdVars, spiVars, incoming, applied>>
    BY <1>2
    DEF ButtonPersist, ButtonSet, ButtonReset, ButtonApply, MainProbed,
        MainDisconnected, MainTick, MainActivate, MainMatch, MainCount, MainDrain,
        MainSleep, StatusExpires, StatusWork, MeshJoined, Move, MeshFounded,
        SyncLost, spiVars, nrfVars, boundVars
  <2>2. QED
    BY <1>1, <2>1
<1>3. CASE MainProbe
  BY <1>3, Constants DEF MainProbe, nrfVars, ExchangeInv
<1>4. CASE MainSend
  <2>1. generation' \in Generations
    BY <1>4, NextGeneration DEF MainSend, ExchangeInv
  <2>2. cmd' = [command |-> Command(intent), generation |-> generation']
    BY <1>4 DEF MainSend
  <2>3. cmd' \in Lifecycle
    BY <2>1, <2>2 DEF Lifecycle, Command
  <2>4. ack' = None /\ fresh_status' = FALSE /\ attempt' = 1 /\ applied' = FALSE /\ ctrl_pending' = cmd'
    BY <1>4 DEF MainSend
  <2>5. attempt' \in 0..CommandAttempts
    BY <2>4
  <2>6. UNCHANGED <<spi_pc, armed, rx, incoming>>
    BY <1>4 DEF MainSend
  <2>7. QED
    BY <2>1, <2>3, <2>4, <2>5, <2>6, Constants, Zenon DEF ExchangeInv, Tags, Frames
<1>5. CASE MainAcked
  <2>1. cmd' = None /\ attempt' = 0 /\ fresh_status' = FALSE /\ ack' = None /\ applied' = FALSE
    BY <1>5 DEF MainAcked, CommandDone
  <2>2. UNCHANGED <<generation, spiVars, incoming>>
    BY <1>5 DEF MainAcked, CommandDone
  <2>3. attempt' \in 0..CommandAttempts
    BY <2>1
  <2>4. QED
    BY <2>1, <2>2, <2>3, Constants, Zenon DEF ExchangeInv, spiVars
<1>6. CASE MainObserved
  <2>1. cmd' = None /\ attempt' = 0 /\ fresh_status' = FALSE /\ ack' = None /\ applied' = FALSE
    BY <1>6 DEF MainObserved, CommandDone
  <2>2. UNCHANGED <<generation, spiVars, incoming>>
    BY <1>6 DEF MainObserved, CommandDone
  <2>3. attempt' \in 0..CommandAttempts
    BY <2>1
  <2>4. QED
    BY <2>1, <2>2, <2>3, Constants, Zenon DEF ExchangeInv, spiVars
<1>7. CASE MainRetry
  <2>1. attempt' \in 0..CommandAttempts
    BY <1>7 DEF MainRetry, ExchangeInv
  <2>2. ctrl_pending' = cmd
    BY <1>7 DEF MainRetry
  <2>3. UNCHANGED <<cmd, fresh_status, generation, ack, spi_pc, armed, rx, incoming, applied>>
    BY <1>7 DEF MainRetry, nrfVars
  <2>4. QED
    BY <2>1, <2>2, <2>3, Constants DEF ExchangeInv
<1>8. CASE MainTimeout
  <2>1. cmd' = None /\ attempt' = 0 /\ fresh_status' = FALSE /\ ack' = None /\ applied' = FALSE
    BY <1>8 DEF MainTimeout, CommandDone
  <2>2. UNCHANGED <<generation, spiVars, incoming>>
    BY <1>8 DEF MainTimeout, CommandDone
  <2>3. attempt' \in 0..CommandAttempts
    BY <2>1
  <2>4. QED
    BY <2>1, <2>2, <2>3, Constants, Zenon DEF ExchangeInv, spiVars
<1>9. CASE MainSendBusy
  <2>1. generation' \in Generations
    BY <1>9, NextGeneration DEF MainSendBusy, ExchangeInv
  <2>2. UNCHANGED <<cmd, attempt, fresh_status, ack, spiVars, incoming, applied>>
    BY <1>9 DEF MainSendBusy, nrfVars
  <2>3. QED
    BY <2>1, <2>2 DEF ExchangeInv, spiVars
<1>10. CASE RxNothing
  <2>1. rx' = NoRec /\ spi_pc' = "transfer" /\ armed' = ctrl_pending /\ ctrl_pending' = None
    BY <1>10 DEF RxNothing, Rearm
  <2>2. UNCHANGED <<cmd, attempt, fresh_status, generation, ack, incoming, applied>>
    BY <1>10 DEF RxNothing, nrfVars
  <2>3. QED
    BY <2>1, <2>2, Constants DEF ExchangeInv
<1>11. CASE RxAck
  <2>1. rx' = NoRec /\ spi_pc' = "transfer" /\ armed' = ctrl_pending /\ ctrl_pending' = None
    BY <1>11 DEF RxAck, Rearm
  <2>2. UNCHANGED <<cmd, attempt, fresh_status, generation, incoming, applied>>
    BY <1>11 DEF RxAck, nrfVars
  <2>3. ack' \in Tags
    BY <1>11 DEF RxAck, ExchangeInv, Records
  <2>4. QED
    BY <2>1, <2>2, <2>3, Constants DEF ExchangeInv
<1>12. CASE RxStatus
  <2>1. fresh_status' = (main_pc = "wait") /\ spi_pc' = "status_cb" /\ rx.kind = "status"
    BY <1>12 DEF RxStatus
  <2>2. UNCHANGED <<cmd, attempt, generation, ack, ctrl_pending, armed, rx, incoming, applied>>
    BY <1>12 DEF RxStatus, nrfVars
  <2>3. fresh_status' \in BOOLEAN
    BY <2>1
  <2>4. QED
    BY <2>1, <2>2, <2>3 DEF ExchangeInv
<1>13. CASE RxStatusCb
  <2>1. rx' = NoRec /\ spi_pc' = "transfer" /\ armed' = ctrl_pending /\ ctrl_pending' = None
    BY <1>13 DEF RxStatusCb, Rearm
  <2>2. UNCHANGED <<cmd, attempt, fresh_status, generation, ack, incoming, applied>>
    BY <1>13 DEF RxStatusCb, nrfVars
  <2>3. QED
    BY <2>1, <2>2, Constants DEF ExchangeInv
<1>14. CASE RxReady
  <2>1. rx' = NoRec /\ spi_pc' = "transfer" /\ armed' = ctrl_pending /\ ctrl_pending' = None
    BY <1>14 DEF RxReady, Rearm
  <2>2. UNCHANGED <<cmd, attempt, fresh_status, generation, ack, incoming, applied>>
    BY <1>14 DEF RxReady, nrfVars
  <2>3. QED
    BY <2>1, <2>2, Constants DEF ExchangeInv
<1>15. CASE RxStopped
  <2>1. rx' = NoRec /\ spi_pc' = "transfer" /\ armed' = ctrl_pending /\ ctrl_pending' = None
    BY <1>15 DEF RxStopped, Rearm
  <2>2. UNCHANGED <<cmd, attempt, fresh_status, generation, ack, incoming, applied>>
    BY <1>15 DEF RxStopped, nrfVars
  <2>3. QED
    BY <2>1, <2>2, Constants DEF ExchangeInv
<1>16. CASE Polls
  <2>1. rx' \in {NoRec} \cup (IF out = <<>> THEN {} ELSE {Head(out)})
    BY <1>16, PollEffect
  <2>2. UNCHANGED <<cmd, attempt, fresh_status, generation, ack, ctrl_pending, applied>>
    BY <1>16, PollEffect
  <2>3. armed' = None /\ spi_pc' = "parse" /\ incoming' \in {None, armed}
    BY <1>16, PollEffect
  <2>4. out # <<>> => Head(out) \in Records
    BY DEF WireInv, NrfInv
  <2>5. rx' \in Records
    BY <2>1, <2>4, Constants
  <2>6. QED
    BY <2>2, <2>3, <2>5, Constants DEF ExchangeInv
<1>17. CASE RequestFlag
  BY <1>17, Constants DEF RequestFlag, spiVars, ExchangeInv
<1>18. CASE CommandWork
  <2>1. UNCHANGED <<cmd, attempt, fresh_status, generation, ack, spiVars, incoming>>
    BY <1>18 DEF CommandWork
  <2>2. applied' \in BOOLEAN
    BY <1>18 DEF CommandWork
  <2>3. QED
    BY <2>1, <2>2 DEF ExchangeInv, spiVars
<1>19. CASE StatusRequest
  BY <1>19, Constants DEF StatusRequest, spiVars, ExchangeInv
<1>20. CASE NrfReset
  BY <1>20, Constants DEF NrfReset, spiVars, ExchangeInv
<1>21. CASE EspReset
  <2>1. /\ cmd' = None /\ attempt' = 0 /\ fresh_status' = FALSE /\ generation' = 0 /\ ack' = None
        /\ spi_pc' = "transfer" /\ ctrl_pending' = None /\ armed' = None /\ rx' = NoRec
    BY <1>21 DEF EspReset, EspBoot
  <2>2. UNCHANGED <<incoming, applied>>
    BY <1>21 DEF EspReset
  <2>3. attempt' \in 0..CommandAttempts /\ generation' \in Generations
    BY <2>1 DEF Generations
  <2>4. QED
    BY <2>1, <2>2, <2>3, Constants, Zenon DEF ExchangeInv
<1>22. QED
  BY <1>1, <1>2, <1>3, <1>4, <1>5, <1>6, <1>7, <1>8, <1>9, <1>10, <1>11, <1>12,
     <1>13, <1>14, <1>15, <1>16, <1>17, <1>18, <1>19, <1>20, <1>21
  DEF Next, ButtonNext, ButtonStep, LoopNext, SpiNext, NrfNext

(* Every step keeps the nRF's request and its control ring well formed.    *)
LEMMA NrfInduction == WireInv /\ [Next]_vars => NrfInv'
<1> SUFFICES ASSUME WireInv, [Next]_vars PROVE NrfInv'
  OBVIOUS
<1>a. ExchangeInv /\ NrfInv
  BY DEF WireInv
<1> USE LifecycleAssumption, <1>a DEF espVars, buttonVars, loopVars, cmdVars, statusVars, toneVars, vars
<1>1. ASSUME UNCHANGED <<request, status_pending, nrf_state, out>> PROVE NrfInv'
  BY <1>1 DEF NrfInv
<1>2. CASE (\E ok \in BOOLEAN : ButtonPersist(ok)) \/ ButtonSet \/ ButtonReset \/ ButtonApply
          \/ MainProbe \/ MainProbed \/ MainDisconnected \/ MainTick \/ MainActivate
          \/ MainMatch \/ MainCount \/ MainDrain \/ MainSend \/ MainAcked \/
          MainObserved \/ MainRetry \/ MainTimeout \/ MainSendBusy \/ MainSleep \/
          RxNothing \/ RxAck \/ RxStatus \/ RxStatusCb \/ RxReady \/ RxStopped \/
          StatusExpires \/ UNCHANGED vars
  <2>1. UNCHANGED <<request, status_pending, nrf_state, out>>
    BY <1>2
    DEF ButtonPersist, ButtonSet, ButtonReset, ButtonApply, MainProbe, MainProbed,
        MainDisconnected, MainTick, MainActivate, MainMatch, MainCount, MainDrain,
        MainSend, MainAcked, CommandDone, MainObserved, MainRetry, MainTimeout,
        Delayed, Upset, MainSendBusy, MainSleep, RxNothing, RxAck, RxStatus,
        RxStatusCb, RxReady, RxStopped, StatusExpires, spiVars, nrfVars, boundVars
  <2>2. QED
    BY <1>1, <2>1
<1>3. CASE Polls
  <2>2. UNCHANGED <<request, status_pending, nrf_state>>
    BY <1>3, PollEffect
  <2>3. out' \in {out, IF out = <<>> THEN out ELSE Tail(out)}
    BY <1>3, PollEffect
  <2>4. out' \in Seq(Records) /\ Len(out') <= CtrlSlots
    BY <2>3 DEF NrfInv
  <2>5. QED
    BY <2>2, <2>4 DEF NrfInv
<1>4. CASE RequestFlag
  <2>1. incoming \in Lifecycle
    BY <1>4 DEF RequestFlag, ExchangeInv, Frames, None, Ping
  <2>2. request' = RequestOf(incoming) /\ UNCHANGED <<status_pending, nrf_state, out>>
    BY <1>4 DEF RequestFlag
  <2>3. request' \in Requests /\ request'.command = Command(request'.enabled)
    BY <2>1, <2>2 DEF RequestOf, Requests, Lifecycle, Command
  <2>4. QED
    BY <2>2, <2>3 DEF NrfInv
<1>5. CASE CommandWork
  <2> DEFINE tag == [command |-> request.command, generation |-> request.generation]
             stop == ~request.enabled /\ nrf_state # "idle"
             next_state == CASE request.enabled /\ nrf_state = "idle" -> "scanning"
                             [] stop -> "idle"
                             [] OTHER -> nrf_state
             stopped == IF stop THEN <<StatusRec("idle"), EventRec("stopped")>> ELSE <<>>
             more == IF status_pending THEN <<StatusRec(next_state)>> ELSE <<>>
             answer == (stopped \o <<AckRec(tag), StatusRec(next_state)>>) \o more
  <2>1. request # NoRequest /\ nrf_state' = next_state /\ out' = Pushed(out, answer)
    BY <1>5 DEF CommandWork
  <2>2. request' = NoRequest /\ status_pending' = FALSE
    BY <1>5 DEF CommandWork
  <2>3. tag \in Lifecycle
    BY <2>1 DEF NrfInv, Requests, Command, Lifecycle
  <2>4. next_state \in MeshStates
    BY DEF NrfInv, MeshStates
  <2> HIDE DEF next_state, tag
  <2>5. stopped \in Seq(Records)
    BY Constants DEF MeshStates, Kinds
  <2>6. more \in Seq(Records)
    BY <2>4, Constants
  <2>7. <<AckRec(tag), StatusRec(next_state)>> \in Seq(Records)
    BY <2>3, <2>4, Constants
  <2> HIDE DEF stopped, more
  <2>8. answer \in Seq(Records)
    BY <2>5, <2>6, <2>7
  <2> HIDE DEF answer
  <2>9. out' \in Seq(Records) /\ Len(out') <= CtrlSlots
    BY <2>1, <2>8, PushedType DEF NrfInv
  <2>10. QED
    BY <2>1, <2>2, <2>4, <2>9, Constants, Zenon DEF NrfInv
<1>6. CASE StatusWork
  <2>1. out' = Pushed(out, <<StatusRec(nrf_state)>>) /\ status_pending' = FALSE /\ UNCHANGED <<request, nrf_state>>
    BY <1>6 DEF StatusWork
  <2>2. <<StatusRec(nrf_state)>> \in Seq(Records)
    BY Constants DEF NrfInv
  <2>3. out' \in Seq(Records) /\ Len(out') <= CtrlSlots
    BY <2>1, <2>2, PushedType DEF NrfInv
  <2>4. QED
    BY <2>1, <2>3 DEF NrfInv
<1>7. CASE StatusRequest
  BY <1>7 DEF StatusRequest, NrfInv
<1>8. CASE MeshJoined
  <2> DEFINE records == <<StatusRec("active"), EventRec("ready")>>
  <2>1. nrf_state' = "active" /\ out' = Pushed(out, records) /\ UNCHANGED <<request, status_pending>>
    BY <1>8 DEF MeshJoined, Move
  <2>2. records \in Seq(Records)
    BY Constants DEF MeshStates, Kinds
  <2> HIDE DEF records
  <2>3. out' \in Seq(Records) /\ Len(out') <= CtrlSlots
    BY <2>1, <2>2, PushedType DEF NrfInv
  <2>4. QED
    BY <2>1, <2>3 DEF NrfInv, MeshStates
<1>9. CASE MeshFounded
  <2> DEFINE records == <<StatusRec("active"), EventRec("became_coordinator"), EventRec("ready")>>
  <2>1. nrf_state' = "active" /\ out' = Pushed(out, records) /\ UNCHANGED <<request, status_pending>>
    BY <1>9 DEF MeshFounded, Move
  <2>2. records \in Seq(Records)
    BY Constants DEF MeshStates, Kinds
  <2> HIDE DEF records
  <2>3. out' \in Seq(Records) /\ Len(out') <= CtrlSlots
    BY <2>1, <2>2, PushedType DEF NrfInv
  <2>4. QED
    BY <2>1, <2>3 DEF NrfInv, MeshStates
<1>10. CASE SyncLost
  <2> DEFINE records == <<EventRec("sync_lost"), StatusRec("scanning")>>
  <2>1. nrf_state' = "scanning" /\ out' = Pushed(out, records) /\ UNCHANGED <<request, status_pending>>
    BY <1>10 DEF SyncLost, Move
  <2>2. records \in Seq(Records)
    BY Constants DEF MeshStates, Kinds
  <2> HIDE DEF records
  <2>3. out' \in Seq(Records) /\ Len(out') <= CtrlSlots
    BY <2>1, <2>2, PushedType DEF NrfInv
  <2>4. QED
    BY <2>1, <2>3 DEF NrfInv, MeshStates
<1>11. CASE NrfReset
  <2>1. /\ request' = NoRequest /\ status_pending' = FALSE
        /\ nrf_state' = "idle" /\ out' = <<StatusRec("idle")>>
    BY <1>11 DEF NrfReset
  <2>2. out' \in Seq(Records) /\ Len(out') <= CtrlSlots
    BY <2>1, Constants DEF MeshStates
  <2>3. QED
    BY <2>1, <2>2, Constants DEF NrfInv, MeshStates
<1>12. CASE EspReset
  <2>1. out' = <<>> /\ UNCHANGED <<request, status_pending, nrf_state>>
    BY <1>12 DEF EspReset
  <2>2. out' \in Seq(Records) /\ Len(out') <= CtrlSlots
    BY <2>1
  <2>3. QED
    BY <2>1, <2>2 DEF NrfInv
<1>13. QED
  BY <1>1, <1>2, <1>3, <1>4, <1>5, <1>6, <1>7, <1>8, <1>9, <1>10, <1>11, <1>12
  DEF Next, ButtonNext, ButtonStep, LoopNext, SpiNext, NrfNext

(* The initial states.                                                     *)
LEMMA InitHolds == Init => ToneInv /\ LoopInv /\ WireInv
<1> SUFFICES ASSUME Init PROVE ToneInv /\ LoopInv /\ WireInv
  OBVIOUS
<1>1. ToneInv
  BY DEF Init, ToneInv, TonesMatchIntent
<1>2. LoopInv
  <2>1. rest \in 0..2 /\ attempts \in 0..ReconcileAttempts /\ tries \in 0..(ReconcileAttempts - 1)
    BY LifecycleAssumption DEF Init
  <2>2. QED
    BY <2>1, Zenon DEF Init, LoopInv, MeshStates
<1>3. ExchangeInv
  <2>1. attempt \in 0..CommandAttempts /\ generation \in Generations
    BY LifecycleAssumption DEF Init, Generations
  <2>2. QED
    BY <2>1, Constants, Zenon DEF Init, ExchangeInv
<1>4. NrfInv
  <2>1. out \in Seq(Records) /\ Len(out) <= CtrlSlots
    BY LifecycleAssumption, Constants DEF Init, MeshStates
  <2>2. QED
    BY <2>1, Constants, Zenon DEF Init, NrfInv, MeshStates
<1>5. QED
  BY <1>1, <1>2, <1>3, <1>4 DEF WireInv

(* What the theorems rest on, as one invariant.                            *)
LEMMA BaseInvariant == Spec => [](ToneInv /\ LoopInv /\ WireInv)
<1>1. ToneInv /\ LoopInv /\ WireInv /\ [Next]_vars => (ToneInv /\ LoopInv /\ WireInv)'
  BY ToneInduction, LoopInduction, ExchangeInduction, NrfInduction DEF WireInv
<1>2. QED
  BY InitHolds, <1>1, PTL DEF Spec

(* Types: in particular the unlocked s_reconcile_attempts stays within     *)
(* NRF_RECONCILE_MAX_ATTEMPTS although the button resets it while the loop *)
(* counts, generations stay within their byte, and the ring keeps its      *)
(* bound whatever the worker reports at once.                              *)
THEOREM TypeCorrect == Spec => []TypeOK
<1>1. ToneInv /\ LoopInv /\ WireInv => TypeOK
  BY DEF ToneInv, LoopInv, WireInv, ExchangeInv, NrfInv, TypeOK, Tags, Frames
<1>2. QED
  BY BaseInvariant, <1>1, PTL

(* Once the rider has switched the mesh off, no "mesh enabled" tone is     *)
(* owed or queued, however the button task, the loop and the status        *)
(* callback interleave.                                                    *)
THEOREM TonesMatchIntentCorrect == Spec => []TonesMatchIntent
<1>1. ToneInv => TonesMatchIntent
  BY DEF ToneInv
<1>2. QED
  BY BaseInvariant, <1>1, PTL
-----------------------------------------------------------------------------
(* How far a command lags behind the counter: the generations drawn since. *)
Age(now, g) == IF g <= now THEN now - g ELSE now + GenMod - g
Recent(now, t, n) == t \in Lifecycle => Age(now, t.generation) <= n

(* The commands under way: in the ESP's control slot and its DMA buffer,   *)
(* and those the nRF has, with the answers to them.                        *)
TagOf(r) == [command |-> r.command, generation |-> r.generation]
TagsOf(ring) == {ring[i].tag : i \in DOMAIN ring}
NearTags == {ctrl_pending, armed}
FarTags  == {incoming, TagOf(request), rx.tag} \cup TagsOf(out)
Current  == {t \in Frames : t \in Lifecycle => t.generation = generation}

NearSlack == IF main_pc = "wait" THEN 1 ELSE 0
FarSlack  == IF main_pc \in {"wait", "drain", "sleep"} THEN 1 ELSE 0

(* A command under way is older than the upsets explain only while the     *)
(* exchange that follows it, or the pause after that one, runs.            *)
AgeInv ==
    /\ upsets \in 0..MaxUpsets
    /\ \A t \in NearTags : Recent(generation, t, upsets + NearSlack)
    /\ \A t \in FarTags : Recent(generation, t, upsets + FarSlack)

(* The control slot holds the command waited for; an earlier one can be    *)
(* staged only until the first frame of the nRF has been parsed.           *)
FlowInv ==
    /\ spi_pc # "transfer" => armed = None
    /\ main_pc = "wait" =>
         /\ cmd \in Lifecycle /\ cmd.generation = generation
         /\ ctrl_pending \in {None, cmd}
         /\ ctrl_pending = cmd \/ (armed \in Lifecycle => armed = cmd)
         /\ fresh_status \/ ack # None => (armed \in Lifecycle => armed = cmd)

(* An answer to the command waited for is under way only once it has been  *)
(* applied.                                                                *)
AnswerTags == {ack, rx.tag} \cup TagsOf(out)
AppliedInv == main_pc = "wait" => (cmd \in AnswerTags => applied)

(* Ages grow by one as a generation is drawn, as long as they do not wrap. *)
LEMMA NextAge ==
  ASSUME NEW now \in Generations, NEW g \in Generations, NEW n \in Nat, n + 1 < GenMod,
         Age(now, g) <= n
  PROVE  Age((now + 1) % GenMod, g) <= n + 1 /\ g # (now + 1) % GenMod
<1> DEFINE next == (now + 1) % GenMod
<1>1. next = (IF now + 1 = GenMod THEN 0 ELSE now + 1) /\ next \in Generations
  BY NextGeneration
<1> HIDE DEF next
<1>2. Age(next, g) <= n + 1 /\ g # next
  BY <1>1, LifecycleAssumption DEF Age, Generations
<1>3. QED
  BY <1>2 DEF next

(* The same for a frame.                                                   *)
LEMMA NextRecent ==
  ASSUME NEW now \in Generations, NEW t, NEW n \in Nat, n + 1 < GenMod, Recent(now, t, n)
  PROVE  /\ Recent((now + 1) % GenMod, t, n + 1)
         /\ t \in Lifecycle => t.generation # (now + 1) % GenMod
<1> SUFFICES ASSUME t \in Lifecycle
             PROVE  Age((now + 1) % GenMod, t.generation) <= n + 1 /\ t.generation # (now + 1) % GenMod
  BY DEF Recent
<1>1. t.generation \in Generations /\ Age(now, t.generation) <= n
  BY DEF Recent, Lifecycle
<1>2. QED
  BY <1>1, NextAge

(* What is recent enough for one bound is so for a larger one.             *)
LEMMA RecentLonger ==
  ASSUME NEW now \in Generations, NEW t, NEW n \in Nat, NEW k \in Nat, n <= k, Recent(now, t, n)
  PROVE  Recent(now, t, k)
<1> SUFFICES ASSUME t \in Lifecycle PROVE Age(now, t.generation) <= k
  BY DEF Recent
<1>1. t.generation \in Generations /\ Age(now, t.generation) <= n
  BY DEF Recent, Lifecycle
<1>2. Age(now, t.generation) \in Int
  BY <1>1, LifecycleAssumption DEF Age, Generations
<1>3. QED
  BY <1>1, <1>2

(* A current frame has age 0.                                              *)
LEMMA CurrentRecent ==
  ASSUME generation \in Generations, NEW t \in Current, NEW n \in Nat
  PROVE  Recent(generation, t, n)
BY LifecycleAssumption DEF Current, Recent, Age, Generations

(* A step that draws no generation keeps AgeInv when the commands under    *)
(* way after it were under way before, or are current.                     *)
LEMMA AgesKept ==
  ASSUME WireInv, AgeInv, generation' = generation, upsets' \in 0..MaxUpsets,
         \/ NearTags' \subseteq Current
         \/ NearTags' \subseteq NearTags \cup Current /\ upsets + NearSlack <= upsets' + NearSlack',
         \/ FarTags' \subseteq Current
         \/ FarTags' \subseteq FarTags \cup NearTags \cup Current /\ upsets + FarSlack <= upsets' + FarSlack'
  PROVE  AgeInv'
<1>a. NearSlack \in Nat /\ FarSlack \in Nat /\ NearSlack <= FarSlack
  BY DEF NearSlack, FarSlack
<1>b. NearSlack' \in Nat /\ FarSlack' \in Nat
  BY DEF NearSlack, FarSlack
<1>c. generation \in Generations /\ upsets \in Nat /\ upsets' \in Nat
  BY LifecycleAssumption DEF WireInv, ExchangeInv, AgeInv
<1>d. \A u, v \in Nat : u + v \in Nat
  OBVIOUS
<1>1. /\ generation \in Generations
      /\ upsets + NearSlack \in Nat /\ upsets + FarSlack \in Nat /\ upsets + NearSlack <= upsets + FarSlack
  BY ONLY <1>a, <1>c
<1>e. upsets' + NearSlack' \in Nat /\ upsets' + FarSlack' \in Nat
  BY ONLY <1>b, <1>c, <1>d, Zenon
<1>2. \A t \in NearTags' : Recent(generation, t, upsets' + NearSlack')
  BY <1>1, <1>e, CurrentRecent, RecentLonger DEF AgeInv
<1>3. \A t \in NearTags : Recent(generation, t, upsets + FarSlack)
  BY <1>1, RecentLonger DEF AgeInv
<1>4. \A t \in FarTags' : Recent(generation, t, upsets' + FarSlack')
  BY <1>1, <1>e, <1>3, CurrentRecent, RecentLonger DEF AgeInv
<1>5. QED
  BY <1>2, <1>4 DEF AgeInv

(* The frames that name no command are current.                            *)
LEMMA NoneCurrent == None \in Current /\ Ping \in Current /\ None \notin Lifecycle /\ Ping \notin Lifecycle
BY DEF Current, Frames, None, Ping, Lifecycle

(* What the nRF's ring answers, as tags.                                   *)
LEMMA PushedTags ==
  ASSUME NEW ring \in Seq(Records), NEW recs \in Seq(Records)
  PROVE  TagsOf(Pushed(ring, recs)) \subseteq TagsOf(ring) \cup TagsOf(recs)
BY PushedType DEF TagsOf

(* The nRF reports its own state with records that name no command.        *)
LEMMA StatusTags ==
  ASSUME WireInv, StatusWork \/ MeshJoined \/ MeshFounded \/ SyncLost
  PROVE  TagsOf(out') \subseteq TagsOf(out) \cup {None}
<1> DEFINE status_rec == <<StatusRec(nrf_state)>>
           joined  == <<StatusRec("active"), EventRec("ready")>>
           founded == <<StatusRec("active"), EventRec("became_coordinator"), EventRec("ready")>>
           lost    == <<EventRec("sync_lost"), StatusRec("scanning")>>
<1>1. \E recs \in {status_rec, joined, founded, lost} : out' = Pushed(out, recs)
  BY DEF StatusWork, MeshJoined, MeshFounded, SyncLost, Move
<1>2. nrf_state \in MeshStates /\ out \in Seq(Records)
  BY DEF WireInv, NrfInv
<1>3. status_rec \in Seq(Records) /\ TagsOf(status_rec) \subseteq {None}
  BY <1>2, Constants DEF TagsOf
<1>4. joined \in Seq(Records) /\ TagsOf(joined) \subseteq {None}
  BY Constants DEF TagsOf, MeshStates, Kinds
<1>5. founded \in Seq(Records) /\ TagsOf(founded) \subseteq {None}
  BY Constants DEF TagsOf, MeshStates, Kinds
<1>6. lost \in Seq(Records) /\ TagsOf(lost) \subseteq {None}
  BY Constants DEF TagsOf, MeshStates, Kinds
<1> HIDE DEF status_rec, joined, founded, lost
<1>7. PICK recs \in {status_rec, joined, founded, lost} : out' = Pushed(out, recs)
  BY <1>1
<1>8. recs \in Seq(Records) /\ TagsOf(recs) \subseteq {None}
  BY <1>3, <1>4, <1>5, <1>6
<1>9. QED
  BY <1>2, <1>7, <1>8, PushedTags

(* The tags of two rings in one.                                           *)
LEMMA JoinedTags ==
  ASSUME NEW a \in Seq(Records), NEW b \in Seq(Records)
  PROVE  a \o b \in Seq(Records) /\ TagsOf(a \o b) \subseteq TagsOf(a) \cup TagsOf(b)
<1>1. /\ a \o b \in Seq(Records) /\ Len(a \o b) = Len(a) + Len(b)
      /\ Len(a) \in Nat /\ Len(b) \in Nat
      /\ DOMAIN a = 1..Len(a) /\ DOMAIN b = 1..Len(b) /\ DOMAIN (a \o b) = 1..(Len(a) + Len(b))
  OBVIOUS
<1>2. ASSUME NEW i \in DOMAIN (a \o b) PROVE (a \o b)[i].tag \in TagsOf(a) \cup TagsOf(b)
  <2>1. CASE i <= Len(a)
    <3>1. i \in DOMAIN a /\ (a \o b)[i] = a[i]
      BY <1>1, <2>1
    <3>2. QED
      BY <3>1 DEF TagsOf
  <2>2. CASE i > Len(a)
    <3>1. i - Len(a) \in DOMAIN b
      BY <1>1, <2>2
    <3>2. (a \o b)[i] = b[i - Len(a)]
      BY <1>1, <2>2
    <3>3. QED
      BY <3>1, <3>2 DEF TagsOf
  <2>3. QED
    BY <1>1, <2>1, <2>2
<1>3. QED
  BY <1>1, <1>2 DEF TagsOf

(* command_work_handler answers the request it applied and no other.       *)
LEMMA CommandTags ==
  ASSUME WireInv, CommandWork
  PROVE  /\ TagsOf(out') \subseteq TagsOf(out) \cup {None, TagOf(request)}
         /\ TagOf(request) \in Lifecycle
         /\ applied' = (applied \/ cmd = TagOf(request))
<1> DEFINE tag == TagOf(request)
           stop == ~request.enabled /\ nrf_state # "idle"
           next_state == CASE request.enabled /\ nrf_state = "idle" -> "scanning"
                           [] stop -> "idle"
                           [] OTHER -> nrf_state
           stopped == IF stop THEN <<StatusRec("idle"), EventRec("stopped")>> ELSE <<>>
           more == IF status_pending THEN <<StatusRec(next_state)>> ELSE <<>>
           middle == <<AckRec(tag), StatusRec(next_state)>>
           front == stopped \o middle
           answer == front \o more
<1>1. request # NoRequest /\ out' = Pushed(out, answer) /\ out \in Seq(Records)
  BY DEF CommandWork, WireInv, NrfInv, TagOf
<1>2. /\ request.command = Command(request.enabled) /\ request.generation \in Generations
      /\ request.enabled \in BOOLEAN
  BY <1>1 DEF WireInv, NrfInv, Requests
<1>3. tag \in Lifecycle
  BY <1>2 DEF Command, Lifecycle, TagOf
<1>4. next_state \in MeshStates
  BY DEF WireInv, NrfInv, MeshStates
<1>5. applied' = (applied \/ cmd = tag)
  BY <1>2 DEF CommandWork, TagOf
<1> HIDE DEF next_state, tag
<1>6. stopped \in Seq(Records) /\ TagsOf(stopped) \subseteq {None}
  BY Constants DEF MeshStates, Kinds, TagsOf
<1>7. more \in Seq(Records) /\ TagsOf(more) \subseteq {None}
  BY <1>4, Constants DEF TagsOf
<1>8. middle \in Seq(Records) /\ TagsOf(middle) \subseteq {None, tag}
  BY <1>3, <1>4, Constants DEF TagsOf
<1> HIDE DEF stopped, more, middle
<1>9. front \in Seq(Records) /\ TagsOf(front) \subseteq {None, tag}
  BY <1>6, <1>8, JoinedTags
<1> HIDE DEF front
<1>10. answer \in Seq(Records) /\ TagsOf(answer) \subseteq {None, tag}
  BY <1>7, <1>9, JoinedTags
<1> HIDE DEF answer
<1>11. TagsOf(out') \subseteq TagsOf(out) \cup {None, tag}
  BY <1>1, <1>10, PushedTags
<1>12. QED
  BY <1>3, <1>5, <1>11 DEF tag

(* A poll brings no tag the ring did not hold.                             *)
LEMMA PollTags ==
  ASSUME WireInv, AgeInv, Polls
  PROVE  /\ TagsOf(out') \subseteq TagsOf(out) /\ rx'.tag \in TagsOf(out) \cup {None}
         /\ incoming' \in {None, armed} /\ armed' = None /\ spi_pc = "transfer"
         /\ upsets' \in upsets..MaxUpsets /\ UNCHANGED <<espVars, ctrl_pending, request, applied>>
<1>2. out \in Seq(Records)
  BY DEF WireInv, NrfInv
<1>3. /\ out' \in {out, IF out = <<>> THEN out ELSE Tail(out)}
      /\ rx' \in {NoRec} \cup (IF out = <<>> THEN {} ELSE {Head(out)})
  BY PollEffect
<1>4. TagsOf(out') \subseteq TagsOf(out)
  BY <1>2, <1>3 DEF TagsOf
<1>5. rx'.tag \in TagsOf(out) \cup {None}
  BY <1>2, <1>3, Constants DEF TagsOf
<1>6. \E n \in {0, 1, 2} : upsets + n <= MaxUpsets /\ upsets' = upsets + n
  BY PollEffect
<1>7. upsets' \in upsets..MaxUpsets
  BY <1>6, LifecycleAssumption DEF AgeInv
<1>8. /\ incoming' \in {None, armed} /\ armed' = None /\ spi_pc = "transfer"
      /\ UNCHANGED <<espVars, ctrl_pending, request, applied>>
  BY PollEffect
<1>9. QED
  BY <1>4, <1>5, <1>7, <1>8

(* Every step keeps the order of the commands in the ESP.                  *)
LEMMA FlowInduction ==
  ASSUME WireInv, FlowInv, [Next]_vars
  PROVE  FlowInv'
<1> USE LifecycleAssumption DEF espVars, buttonVars, loopVars, cmdVars, statusVars,
    toneVars, spiVars, nrfVars, boundVars, vars
<1>1. CASE (\E ok \in BOOLEAN : ButtonPersist(ok)) \/ ButtonSet \/ ButtonReset \/ ButtonApply
          \/ StatusExpires \/ RequestFlag \/ CommandWork \/ StatusWork \/
          StatusRequest \/ MeshJoined \/ MeshFounded \/ SyncLost \/ NrfReset \/
          UNCHANGED vars
  <2>1. UNCHANGED <<main_pc, cmd, generation, ctrl_pending, armed, fresh_status, ack, spi_pc>>
    BY <1>1 DEF ButtonPersist, ButtonSet, ButtonReset, ButtonApply, StatusExpires,
        RequestFlag, CommandWork, StatusWork, StatusRequest, MeshJoined, Move,
        MeshFounded, SyncLost, NrfReset
  <2>2. QED
    BY <2>1 DEF FlowInv
<1>2. CASE MainProbed \/ MainDisconnected \/ MainTick \/ MainActivate \/ MainMatch \/ MainCount
          \/ MainDrain \/ MainSleep
  <2>1. main_pc' # "wait" /\ UNCHANGED <<spi_pc, armed>>
    BY <1>2 DEF MainProbed, MainDisconnected, MainTick, MainActivate, MainMatch,
        MainCount, MainDrain, MainSleep
  <2>2. QED
    BY <2>1 DEF FlowInv
<1>3. CASE MainAcked \/ MainObserved \/ MainTimeout \/ MainProbe \/ MainSendBusy
  <2>1. main_pc' # "wait" /\ UNCHANGED <<spi_pc, armed>>
    BY <1>3 DEF MainAcked, CommandDone, MainObserved, MainTimeout, Delayed, Upset,
        MainProbe, MainSendBusy
  <2>2. QED
    BY <2>1 DEF FlowInv
<1>4. CASE MainSend
  <2>1. generation' \in Generations
    BY <1>4, NextGeneration DEF MainSend, WireInv, ExchangeInv
  <2>2. cmd' \in Lifecycle /\ cmd'.generation = generation'
    BY <1>4, <2>1 DEF MainSend, Lifecycle, Command
  <2>3. fresh_status' = FALSE /\ ack' = None /\ ctrl_pending' = cmd' /\ UNCHANGED <<spi_pc, armed>>
    BY <1>4 DEF MainSend
  <2>4. QED
    BY <2>2, <2>3, Zenon DEF FlowInv
<1>5. CASE MainRetry
  <2>1. main_pc = "wait" /\ ctrl_pending' = cmd
    BY <1>5 DEF MainRetry
  <2>2. UNCHANGED <<main_pc, cmd, generation, armed, fresh_status, ack, spi_pc>>
    BY <1>5 DEF MainRetry
  <2>3. QED
    BY <2>1, <2>2, Zenon DEF FlowInv
<1>6. CASE RxNothing \/ RxStatusCb \/ RxReady \/ RxStopped
  <2>1. armed' = ctrl_pending /\ ctrl_pending' = None /\ spi_pc' = "transfer"
    BY <1>6 DEF RxNothing, RxStatusCb, RxReady, RxStopped, Rearm
  <2>2. UNCHANGED <<main_pc, cmd, generation, fresh_status, ack>>
    BY <1>6 DEF RxNothing, RxStatusCb, RxReady, RxStopped
  <2>3. QED
    BY <2>1, <2>2, NoneCurrent, Zenon DEF FlowInv
<1>7. CASE RxAck
  <2>1. armed' = ctrl_pending /\ ctrl_pending' = None /\ spi_pc' = "transfer"
    BY <1>7 DEF RxAck, Rearm
  <2>2. UNCHANGED <<main_pc, cmd, generation>>
    BY <1>7 DEF RxAck
  <2>3. QED
    BY <2>1, <2>2, NoneCurrent, Zenon DEF FlowInv
<1>8. CASE RxStatus
  <2>1. spi_pc = "parse" /\ UNCHANGED <<main_pc, cmd, generation, ack, ctrl_pending, armed>>
    BY <1>8 DEF RxStatus
  <2>2. armed = None
    BY <2>1 DEF FlowInv
  <2>3. QED
    BY <2>1, <2>2, NoneCurrent, Zenon DEF FlowInv
<1>9. CASE Polls
  <2>1. armed' = None /\ UNCHANGED <<main_pc, cmd, generation, ctrl_pending, fresh_status, ack>>
    BY <1>9, PollEffect
  <2>2. QED
    BY <2>1, NoneCurrent, Zenon DEF FlowInv
<1>10. CASE EspReset
  <2>1. main_pc' = "probe" /\ spi_pc' = "transfer"
    BY <1>10 DEF EspReset, EspBoot
  <2>2. QED
    BY <2>1 DEF FlowInv
<1>11. QED
  BY <1>1, <1>2, <1>3, <1>4, <1>5, <1>6, <1>7, <1>8, <1>9, <1>10
  DEF Next, ButtonNext, ButtonStep, LoopNext, SpiNext, NrfNext

(* Every step keeps the bound on the age of the commands under way.        *)
LEMMA AgeInduction ==
  ASSUME MaxUpsets + 1 < GenMod, WireInv, FlowInv, AgeInv, [Next]_vars
  PROVE  AgeInv'
<1> USE LifecycleAssumption DEF espVars, buttonVars, loopVars, cmdVars, statusVars,
    toneVars, spiVars, nrfVars, boundVars, vars
<1>a. generation \in Generations /\ upsets \in 0..MaxUpsets
  BY DEF WireInv, ExchangeInv, AgeInv
<1>b. /\ main_pc' = main_pc => NearSlack' = NearSlack /\ FarSlack' = FarSlack
      /\ main_pc # "wait" => NearSlack = 0
      /\ main_pc \notin {"wait", "drain", "sleep"} => FarSlack = 0
      /\ main_pc = "wait" => NearSlack = 1
      /\ main_pc \in {"wait", "drain", "sleep"} => FarSlack = 1
  BY DEF NearSlack, FarSlack
<1>c. /\ main_pc' # "wait" => NearSlack' = 0
      /\ main_pc' \notin {"wait", "drain", "sleep"} => FarSlack' = 0
      /\ main_pc' = "wait" => NearSlack' = 1
      /\ main_pc' \in {"wait", "drain", "sleep"} => FarSlack' = 1
  BY DEF NearSlack, FarSlack
<1>d. ASSUME upsets' \in upsets..MaxUpsets, main_pc' = main_pc
      PROVE  upsets' \in 0..MaxUpsets /\ upsets + NearSlack <= upsets' + NearSlack' /\ upsets + FarSlack <= upsets' + FarSlack'
  <2>1. NearSlack \in Nat /\ FarSlack \in Nat
    BY DEF NearSlack, FarSlack
  <2>2. \A a, b, c \in Nat : a <= b => a + c <= b + c
    OBVIOUS
  <2>3. upsets \in Nat /\ upsets' \in Nat /\ upsets <= upsets' /\ upsets' \in 0..MaxUpsets
    BY <1>a, <1>d
  <2>4. QED
    BY <1>b, <1>d, <2>1, <2>2, <2>3, Zenon
<1>1. CASE (\E ok \in BOOLEAN : ButtonPersist(ok)) \/ ButtonSet \/ ButtonReset \/ ButtonApply
          \/ StatusExpires \/ RxStatus \/ UNCHANGED vars
  <2>1. UNCHANGED <<main_pc, generation, ctrl_pending, armed, incoming, request, rx, out>>
    BY <1>1 DEF ButtonPersist, ButtonSet, ButtonReset, ButtonApply, StatusExpires,
        RxStatus
  <2>2. upsets' \in upsets..MaxUpsets
    BY <1>1, <1>a DEF ButtonPersist, ButtonSet, ButtonReset, ButtonApply, StatusExpires,
        RxStatus, Upset
  <2>3. NearTags' = NearTags /\ FarTags' = FarTags
    BY <2>1 DEF NearTags, FarTags
  <2>4. QED
    BY <1>d, <2>1, <2>2, <2>3, AgesKept
<1>2. CASE MainProbed \/ MainDisconnected \/ MainTick \/ MainActivate \/ MainMatch \/ MainCount
          \/ MainDrain
  <2>1. UNCHANGED <<upsets, generation, ctrl_pending, armed, incoming, request, rx, out>>
    BY <1>2 DEF MainProbed, MainDisconnected, MainTick, MainActivate, MainMatch,
        MainCount, MainDrain
  <2>2. /\ main_pc # "wait" /\ main_pc' # "wait"
        /\ main_pc \in {"drain", "sleep"} => main_pc' \in {"drain", "sleep"}
    BY <1>2 DEF MainProbed, MainDisconnected, MainTick, MainActivate, MainMatch,
        MainCount, MainDrain
  <2>3. NearTags' = NearTags /\ FarTags' = FarTags
    BY <2>1 DEF NearTags, FarTags
  <2>4. upsets + NearSlack <= upsets' + NearSlack'
    BY <1>a, <1>b, <1>c, <2>1, <2>2
  <2>5. upsets + FarSlack <= upsets' + FarSlack'
    BY <1>a, <1>b, <1>c, <2>1, <2>2
  <2>6. QED
    BY <1>a, <2>1, <2>3, <2>4, <2>5, AgesKept
<1>3. CASE MainSleep
  <2>1. UNCHANGED <<generation, ctrl_pending, armed, incoming, request, rx, out>>
    BY <1>3 DEF MainSleep
  <2>2. main_pc = "sleep" /\ main_pc' = "idle"
    BY <1>3 DEF MainSleep
  <2>3. NearTags' = NearTags /\ FarTags' = FarTags
    BY <2>1 DEF NearTags, FarTags
  <2>4. CASE Quiet
    <3>1. upsets' = upsets
      BY <1>3, <1>a, <2>4 DEF MainSleep, Delayed, Upset
    <3>2. upsets + NearSlack <= upsets' + NearSlack'
      BY <1>a, <1>b, <1>c, <2>2, <3>1
    <3>3. TagsOf(out) = {} /\ TagOf(request) = None /\ rx.tag = None /\ incoming = None
      BY <2>4, Constants DEF Quiet, TagsOf, TagOf, NoRequest, None
    <3>4. FarTags' \subseteq Current
      BY <2>3, <3>3, NoneCurrent DEF FarTags
    <3>5. QED
      BY <1>a, <2>1, <2>3, <3>1, <3>2, <3>4, AgesKept
  <2>5. CASE ~Quiet
    <3>1. upsets' = upsets + 1 /\ upsets' \in 0..MaxUpsets
      BY <1>3, <1>a, <2>5 DEF MainSleep, Delayed, Upset
    <3>2. upsets + NearSlack <= upsets' + NearSlack'
      BY <1>a, <1>b, <1>c, <2>2, <3>1
    <3>3. upsets + FarSlack <= upsets' + FarSlack'
      BY <1>a, <1>b, <1>c, <2>2, <3>1
    <3>4. QED
      BY <2>1, <2>3, <3>1, <3>2, <3>3, AgesKept
  <2>6. QED
    BY <2>4, <2>5
<1>4. CASE MainProbe
  <2>1. ctrl_pending' = Ping /\ UNCHANGED <<upsets, generation, armed, incoming, request, rx, out>>
    BY <1>4 DEF MainProbe
  <2>2. main_pc = "probe" /\ main_pc' = "probing"
    BY <1>4 DEF MainProbe
  <2>3. NearTags' \subseteq NearTags \cup Current /\ FarTags' = FarTags
    BY <2>1, NoneCurrent DEF NearTags, FarTags
  <2>4. upsets + NearSlack <= upsets' + NearSlack'
    BY <1>a, <1>b, <1>c, <2>1, <2>2
  <2>5. upsets + FarSlack <= upsets' + FarSlack'
    BY <1>a, <1>b, <1>c, <2>1, <2>2
  <2>6. QED
    BY <1>a, <2>1, <2>3, <2>4, <2>5, AgesKept
<1>5. CASE MainSend
  <2>1. generation' = (generation + 1) % GenMod /\ UNCHANGED <<upsets, armed, incoming, request, rx, out>>
    BY <1>5 DEF MainSend
  <2>2. main_pc = "send" /\ main_pc' = "wait" /\ ctrl_pending' = cmd'
    BY <1>5 DEF MainSend
  <2>3. upsets + NearSlack = upsets /\ upsets + FarSlack = upsets
    BY <1>a, <1>b, <2>2
  <2>4. upsets' + NearSlack' = upsets + 1 /\ upsets' + FarSlack' = upsets + 1
    BY <1>a, <1>c, <2>1, <2>2
  <2>5. upsets \in Nat /\ upsets + 1 < GenMod
    BY <1>a
  <2>6. \A t \in NearTags \cup FarTags : Recent(generation', t, upsets + 1)
    BY <1>a, <2>1, <2>3, <2>5, NextRecent DEF AgeInv
  <2>7. cmd' \in Lifecycle /\ cmd'.generation = generation' /\ generation' \in Generations
    BY <1>5, <1>a, NextGeneration DEF MainSend, Lifecycle, Command
  <2>a. \A g \in Generations : Age(g, g) = 0
    BY DEF Age, Generations
  <2>8. Recent(generation', cmd', upsets + 1)
    BY <2>5, <2>7, <2>a DEF Recent
  <2>9. NearTags' \subseteq NearTags \cup {cmd'} /\ FarTags' = FarTags
    BY <2>1, <2>2 DEF NearTags, FarTags
  <2>10. QED
    BY <1>a, <2>1, <2>4, <2>6, <2>8, <2>9 DEF AgeInv
<1>6. CASE MainSendBusy
  <2>1. /\ generation' = (generation + 1) % GenMod
        /\ UNCHANGED <<ctrl_pending, armed, incoming, request, rx, out>>
    BY <1>6 DEF MainSendBusy
  <2>2. main_pc = "send" /\ main_pc' = "drain"
    BY <1>6 DEF MainSendBusy
  <2>3. upsets' = upsets + 1 /\ upsets' \in 0..MaxUpsets
    BY <1>6, <1>a DEF MainSendBusy, Delayed, Upset
  <2>4. upsets + NearSlack = upsets /\ upsets + FarSlack = upsets
    BY <1>a, <1>b, <2>2
  <2>5. upsets' + NearSlack' = upsets + 1 /\ upsets' + FarSlack' = upsets + 2
    BY <1>a, <1>c, <2>2, <2>3
  <2>6. upsets \in Nat /\ upsets + 1 < GenMod
    BY <1>a
  <2>7. \A t \in NearTags \cup FarTags : Recent(generation', t, upsets + 1)
    BY <1>a, <2>1, <2>4, <2>6, NextRecent DEF AgeInv
  <2>8. generation' \in Generations
    BY <1>a, <2>1, NextGeneration
  <2>9. NearTags' = NearTags /\ FarTags' = FarTags
    BY <2>1 DEF NearTags, FarTags
  <2>10. upsets + 1 \in Nat /\ upsets + 2 \in Nat /\ upsets + 1 <= upsets + 2
    BY <2>6
  <2>11. \A t \in FarTags : Recent(generation', t, upsets + 2)
    BY <2>7, <2>8, <2>10, RecentLonger
  <2>12. QED
    BY <2>3, <2>5, <2>7, <2>9, <2>11 DEF AgeInv
<1>7. CASE MainAcked \/ MainObserved \/ MainTimeout
  <2>1. UNCHANGED <<generation, ctrl_pending, armed, incoming, request, rx, out>>
    BY <1>7 DEF MainAcked, CommandDone, MainObserved, MainTimeout, Delayed, Upset
  <2>2. main_pc = "wait" /\ main_pc' = "drain"
    BY <1>7 DEF MainAcked, CommandDone, MainObserved, MainTimeout, Delayed, Upset
  <2>3. NearTags' = NearTags /\ FarTags' = FarTags
    BY <2>1 DEF NearTags, FarTags
  <2>4. upsets' \in upsets..MaxUpsets
    BY <1>7, <1>a DEF MainAcked, CommandDone, MainObserved, MainTimeout, Delayed, Upset
  <2>a. FarSlack = 1 /\ FarSlack' = 1
    BY <1>b, <1>c, <2>2
  <2>b. upsets \in Nat /\ upsets' \in Nat /\ upsets <= upsets'
    BY <1>a, <2>4
  <2>c. \A a, b \in Nat : a <= b => a + 1 <= b + 1
    OBVIOUS
  <2>5. upsets + FarSlack <= upsets' + FarSlack'
    BY <2>a, <2>b, <2>c, Zenon
  <2>6. cmd \in Lifecycle /\ cmd.generation = generation /\ cmd \in Current
    BY <2>2 DEF FlowInv, Current, Frames
  <2>7. \/ NearTags' \subseteq Current
        \/ upsets + NearSlack <= upsets' + NearSlack'
    <3>1. CASE MainTimeout /\ (UnderWay \/ attempt < CommandAttempts)
      <4>1. upsets' = upsets + 1
        BY <1>a, <3>1 DEF MainTimeout, Delayed, Upset
      <4>2. QED
        BY <1>a, <1>b, <1>c, <2>2, <4>1
    <3>2. CASE ~(MainTimeout /\ (UnderWay \/ attempt < CommandAttempts))
      <4>1. armed \in Lifecycle => armed = cmd
        <5>1. CASE MainAcked
          <6>1. ack # None
            BY <2>6, <5>1, NoneCurrent DEF MainAcked, Matches
          <6>2. QED
            BY <2>2, <6>1 DEF FlowInv
        <5>2. CASE MainObserved
          BY <2>2, <5>2 DEF MainObserved, FlowInv
        <5>3. CASE MainTimeout
          BY <2>2, <3>2, <5>3 DEF UnderWay, FlowInv
        <5>4. QED
          BY <1>7, <5>1, <5>2, <5>3
      <4>2. armed \in Frames /\ ctrl_pending \in {None, cmd}
        BY <2>2 DEF WireInv, ExchangeInv, FlowInv
      <4>3. armed \in Current /\ ctrl_pending \in Current
        BY <2>6, <4>1, <4>2, NoneCurrent DEF Frames, Current
      <4>4. QED
        BY <2>3, <4>3 DEF NearTags
    <3>3. QED
      BY <3>1, <3>2
  <2>8. upsets' \in 0..MaxUpsets
    BY <1>a, <2>4
  <2>9. QED
    BY <2>1, <2>3, <2>5, <2>7, <2>8, AgesKept
<1>8. CASE MainRetry
  <2>1. main_pc = "wait" /\ ctrl_pending' = cmd
    BY <1>8 DEF MainRetry
  <2>2. UNCHANGED <<main_pc, generation, armed, incoming, request, rx, out>>
    BY <1>8 DEF MainRetry
  <2>3. upsets' \in upsets..MaxUpsets
    BY <1>8, <1>a DEF MainRetry, Delayed, Upset
  <2>4. cmd \in Current
    BY <2>1 DEF FlowInv, Current, Frames
  <2>5. NearTags' \subseteq NearTags \cup Current /\ FarTags' = FarTags
    BY <2>1, <2>2, <2>4 DEF NearTags, FarTags
  <2>6. QED
    BY <1>d, <2>2, <2>3, <2>5, AgesKept
<1>9. CASE RxNothing \/ RxStatusCb \/ RxReady \/ RxStopped \/ RxAck
  <2>1. armed' = ctrl_pending /\ ctrl_pending' = None /\ rx' = NoRec
    BY <1>9 DEF RxNothing, RxStatusCb, RxReady, RxStopped, RxAck, Rearm
  <2>2. UNCHANGED <<main_pc, upsets, generation, incoming, request, out>>
    BY <1>9 DEF RxNothing, RxStatusCb, RxReady, RxStopped, RxAck
  <2>3. NearTags' \subseteq NearTags \cup Current /\ FarTags' \subseteq FarTags \cup Current
    BY <2>1, <2>2, NoneCurrent, Constants DEF NearTags, FarTags
  <2>4. upsets' \in upsets..MaxUpsets
    BY <1>a, <2>2
  <2>5. QED
    BY <1>d, <2>2, <2>3, <2>4, AgesKept
<1>10. CASE Polls
  <2>1. /\ TagsOf(out') \subseteq TagsOf(out) /\ rx'.tag \in TagsOf(out) \cup {None}
        /\ incoming' \in {None, armed} /\ armed' = None
        /\ upsets' \in upsets..MaxUpsets /\ UNCHANGED <<main_pc, generation, ctrl_pending, request>>
    BY <1>10, PollTags
  <2>2. NearTags' \subseteq NearTags \cup Current /\ FarTags' \subseteq FarTags \cup NearTags \cup Current
    BY <2>1, NoneCurrent DEF NearTags, FarTags
  <2>3. QED
    BY <1>d, <2>1, <2>2, AgesKept
<1>11. CASE RequestFlag
  <2>1. incoming' = None /\ request' = RequestOf(incoming)
    BY <1>11 DEF RequestFlag
  <2>2. UNCHANGED <<main_pc, upsets, generation, ctrl_pending, armed, rx, out>>
    BY <1>11 DEF RequestFlag
  <2>3. incoming \in Lifecycle
    BY <1>11 DEF RequestFlag, WireInv, ExchangeInv, Frames, None, Ping
  <2>4. TagOf(request') = incoming
    BY <2>1, <2>3 DEF RequestOf, TagOf, Lifecycle
  <2>5. NearTags' = NearTags /\ FarTags' \subseteq FarTags \cup Current
    BY <2>1, <2>2, <2>4, NoneCurrent DEF NearTags, FarTags
  <2>6. upsets' \in upsets..MaxUpsets
    BY <1>a, <2>2
  <2>7. QED
    BY <1>d, <2>2, <2>5, <2>6, AgesKept
<1>12. CASE StatusRequest
  <2>1. incoming' \in {None, incoming}
    BY <1>12 DEF StatusRequest
  <2>2. UNCHANGED <<main_pc, upsets, generation, ctrl_pending, armed, request, rx, out>>
    BY <1>12 DEF StatusRequest
  <2>3. NearTags' = NearTags /\ FarTags' \subseteq FarTags \cup Current
    BY <2>1, <2>2, NoneCurrent DEF NearTags, FarTags
  <2>4. upsets' \in upsets..MaxUpsets
    BY <1>a, <2>2
  <2>5. QED
    BY <1>d, <2>2, <2>3, <2>4, AgesKept
<1>13. CASE CommandWork
  <2>1. TagsOf(out') \subseteq TagsOf(out) \cup {None, TagOf(request)}
    BY <1>13, CommandTags
  <2>2. UNCHANGED <<main_pc, upsets, generation, ctrl_pending, armed, incoming, rx>>
    BY <1>13 DEF CommandWork
  <2>3. TagOf(request') = None
    BY <1>13 DEF CommandWork, NoRequest, TagOf, None
  <2>4. NearTags' = NearTags /\ FarTags' \subseteq FarTags \cup Current
    BY <2>1, <2>2, <2>3, NoneCurrent DEF NearTags, FarTags
  <2>5. upsets' \in upsets..MaxUpsets
    BY <1>a, <2>2
  <2>6. QED
    BY <1>d, <2>2, <2>4, <2>5, AgesKept
<1>14. CASE StatusWork \/ MeshJoined \/ MeshFounded \/ SyncLost
  <2>1. TagsOf(out') \subseteq TagsOf(out) \cup {None}
    BY <1>14, StatusTags
  <2>2. UNCHANGED <<main_pc, generation, ctrl_pending, armed, incoming, request, rx>>
    BY <1>14 DEF StatusWork, MeshJoined, Move, MeshFounded, SyncLost
  <2>3. NearTags' = NearTags /\ FarTags' \subseteq FarTags \cup Current
    BY <2>1, <2>2, NoneCurrent DEF NearTags, FarTags
  <2>4. upsets' \in upsets..MaxUpsets
    BY <1>14, <1>a DEF StatusWork, MeshJoined, Move, MeshFounded, SyncLost, Upset
  <2>5. QED
    BY <1>d, <2>2, <2>3, <2>4, AgesKept
<1>15. CASE NrfReset
  <2>1. incoming' = None /\ request' = NoRequest /\ out' = <<StatusRec("idle")>>
    BY <1>15 DEF NrfReset
  <2>2. UNCHANGED <<main_pc, generation, ctrl_pending, armed, rx>>
    BY <1>15 DEF NrfReset
  <2>3. TagOf(request') = None /\ TagsOf(out') = {None}
    BY <2>1, Constants DEF NoRequest, TagOf, TagsOf, None, MeshStates
  <2>4. NearTags' = NearTags /\ FarTags' \subseteq FarTags \cup Current
    BY <2>1, <2>2, <2>3, NoneCurrent DEF NearTags, FarTags
  <2>5. upsets' \in upsets..MaxUpsets
    BY <1>15, <1>a DEF NrfReset, Upset
  <2>6. QED
    BY <1>d, <2>2, <2>4, <2>5, AgesKept
<1>16. CASE EspReset
  <2>1. /\ incoming = None /\ request = NoRequest /\ out' = <<>> /\ UNCHANGED <<incoming, request>>
        /\ ctrl_pending' = None /\ armed' = None /\ rx' = NoRec
    BY <1>16 DEF EspReset, EspBoot
  <2>2. TagOf(request') = None /\ TagsOf(out') = {}
    BY <2>1 DEF NoRequest, TagOf, TagsOf, None
  <2>3. NearTags' = {None} /\ FarTags' = {None}
    BY <2>1, <2>2, Constants DEF NearTags, FarTags
  <2>4. upsets' \in 0..MaxUpsets
    BY <1>16, <1>a DEF EspReset, Upset
  <2>5. QED
    BY <2>3, <2>4, NoneCurrent DEF AgeInv, Recent
<1>17. QED
  BY <1>1, <1>2, <1>3, <1>4, <1>5, <1>6, <1>7, <1>8, <1>9, <1>10, <1>11, <1>12,
     <1>13, <1>14, <1>15, <1>16
  DEF Next, ButtonNext, ButtonStep, LoopNext, SpiNext, NrfNext

(* Every step keeps AppliedInv: what MainSend finds under way has another  *)
(* generation, and later only command_work_handler adds answers.           *)
LEMMA AppliedInduction ==
  ASSUME MaxUpsets + 1 < GenMod, WireInv, FlowInv, AgeInv, AppliedInv, [Next]_vars
  PROVE  AppliedInv'
<1> USE LifecycleAssumption DEF espVars, buttonVars, loopVars, cmdVars, statusVars,
    toneVars, spiVars, nrfVars, boundVars, vars
<1>a. ASSUME UNCHANGED <<main_pc, cmd>>, AnswerTags' \subseteq AnswerTags \cup {None}, applied => applied'
      PROVE  AppliedInv'
  BY <1>a, NoneCurrent DEF FlowInv, AppliedInv
<1>1. CASE (\E ok \in BOOLEAN : ButtonPersist(ok)) \/ ButtonSet \/ ButtonReset \/ ButtonApply
          \/ MainRetry \/ StatusExpires \/ RxStatus \/ RequestFlag \/ StatusRequest
          \/ UNCHANGED vars
  <2>1. UNCHANGED <<main_pc, cmd, ack, rx, out, applied>>
    BY <1>1 DEF ButtonPersist, ButtonSet, ButtonReset, ButtonApply, MainRetry,
        StatusExpires, RxStatus, RequestFlag, StatusRequest
  <2>2. AnswerTags' = AnswerTags
    BY <2>1 DEF AnswerTags
  <2>3. QED
    BY <1>a, <2>1, <2>2
<1>2. CASE MainProbed \/ MainDisconnected \/ MainTick \/ MainActivate \/ MainMatch \/ MainCount
          \/ MainDrain \/ MainSleep \/ MainProbe \/ MainSendBusy \/ EspReset
  <2>1. main_pc' # "wait"
    BY <1>2 DEF MainProbed, MainDisconnected, MainTick, MainActivate, MainMatch,
        MainCount, MainDrain, MainSleep, MainProbe, MainSendBusy, EspReset, EspBoot
  <2>2. QED
    BY <2>1 DEF AppliedInv
<1>3. CASE MainAcked \/ MainObserved \/ MainTimeout
  <2>1. main_pc' # "wait"
    BY <1>3 DEF MainAcked, CommandDone, MainObserved, MainTimeout, Delayed, Upset
  <2>2. QED
    BY <2>1 DEF AppliedInv
<1>4. CASE MainSend
  <2>1. generation' = (generation + 1) % GenMod /\ ack' = None /\ UNCHANGED <<rx, out>>
    BY <1>4 DEF MainSend
  <2>2. cmd' \in Lifecycle /\ cmd'.generation = generation'
    <3>1. generation \in Generations
      BY DEF WireInv, ExchangeInv
    <3>2. QED
      BY <1>4, <3>1, NextGeneration DEF MainSend, Lifecycle, Command
  <2>3. upsets + FarSlack = upsets /\ upsets \in Nat /\ upsets + 1 < GenMod
    BY <1>4 DEF MainSend, FarSlack, AgeInv
  <2>4. generation \in Generations /\ \A t \in FarTags : Recent(generation, t, upsets)
    BY <2>3 DEF WireInv, ExchangeInv, AgeInv
  <2>5. \A t \in FarTags : t \in Lifecycle => t.generation # generation'
    BY <2>1, <2>3, <2>4, NextRecent
  <2>6. AnswerTags' \subseteq FarTags \cup {None}
    BY <2>1 DEF AnswerTags, FarTags
  <2>7. cmd' \notin AnswerTags'
    BY <2>2, <2>5, <2>6, NoneCurrent
  <2>8. QED
    BY <2>7 DEF AppliedInv
<1>5. CASE RxNothing \/ RxStatusCb \/ RxReady \/ RxStopped
  <2>1. rx' = NoRec /\ UNCHANGED <<main_pc, cmd, ack, out, applied>>
    BY <1>5 DEF RxNothing, RxStatusCb, RxReady, RxStopped, Rearm
  <2>2. AnswerTags' \subseteq AnswerTags \cup {None}
    BY <2>1, Constants DEF AnswerTags
  <2>3. QED
    BY <1>a, <2>1, <2>2
<1>6. CASE RxAck
  <2>1. rx' = NoRec /\ ack' \in {ack, rx.tag} /\ UNCHANGED <<main_pc, cmd, out, applied>>
    BY <1>6 DEF RxAck, Rearm
  <2>2. AnswerTags' \subseteq AnswerTags \cup {None}
    BY <2>1, Constants DEF AnswerTags
  <2>3. QED
    BY <1>a, <2>1, <2>2
<1>7. CASE Polls
  <2>1. TagsOf(out') \subseteq TagsOf(out) /\ rx'.tag \in TagsOf(out) \cup {None} /\ UNCHANGED <<main_pc, cmd, ack, applied>>
    BY <1>7, PollTags
  <2>2. AnswerTags' \subseteq AnswerTags \cup {None}
    BY <2>1 DEF AnswerTags
  <2>3. QED
    BY <1>a, <2>1, <2>2
<1>8. CASE CommandWork
  <2>1. /\ TagsOf(out') \subseteq TagsOf(out) \cup {None, TagOf(request)}
        /\ applied' = (applied \/ cmd = TagOf(request))
    BY <1>8, CommandTags
  <2>2. UNCHANGED <<main_pc, cmd, ack, rx>>
    BY <1>8 DEF CommandWork
  <2>3. CASE cmd = TagOf(request)
    BY <2>1, <2>3 DEF AppliedInv
  <2>4. CASE cmd # TagOf(request)
    <3>1. cmd \in AnswerTags' => cmd \in AnswerTags \cup {None}
      BY <2>1, <2>2, <2>4 DEF AnswerTags
    <3>2. QED
      BY <2>1, <2>2, <3>1, NoneCurrent DEF FlowInv, AppliedInv
  <2>5. QED
    BY <2>3, <2>4
<1>9. CASE StatusWork \/ MeshJoined \/ MeshFounded \/ SyncLost
  <2>1. TagsOf(out') \subseteq TagsOf(out) \cup {None}
    BY <1>9, StatusTags
  <2>2. UNCHANGED <<main_pc, cmd, ack, rx, applied>>
    BY <1>9 DEF StatusWork, MeshJoined, Move, MeshFounded, SyncLost
  <2>3. AnswerTags' \subseteq AnswerTags \cup {None}
    BY <2>1, <2>2 DEF AnswerTags
  <2>4. QED
    BY <1>a, <2>2, <2>3
<1>10. CASE NrfReset
  <2>1. out' = <<StatusRec("idle")>> /\ UNCHANGED <<main_pc, cmd, ack, rx, applied>>
    BY <1>10 DEF NrfReset
  <2>2. TagsOf(out') = {None}
    BY <2>1, Constants DEF TagsOf, MeshStates
  <2>3. AnswerTags' \subseteq AnswerTags \cup {None}
    BY <2>1, <2>2 DEF AnswerTags
  <2>4. QED
    BY <1>a, <2>1, <2>3
<1>11. QED
  BY <1>1, <1>2, <1>3, <1>4, <1>5, <1>6, <1>7, <1>8, <1>9, <1>10
  DEF Next, ButtonNext, ButtonStep, LoopNext, SpiNext, NrfNext

(* The initial states: nothing is under way.                               *)
LEMMA InitFlow == Init => FlowInv /\ AgeInv /\ AppliedInv
<1> SUFFICES ASSUME Init PROVE FlowInv /\ AgeInv /\ AppliedInv
  OBVIOUS
<1>1. FlowInv /\ AppliedInv
  BY DEF Init, FlowInv, AppliedInv
<1>2. TagsOf(out) = {None} /\ TagOf(request) = None /\ rx.tag = None
  BY Constants DEF Init, TagsOf, TagOf, NoRequest, None, MeshStates
<1>3. NearTags = {None} /\ FarTags = {None}
  BY <1>2 DEF Init, NearTags, FarTags
<1>4. upsets \in 0..MaxUpsets
  BY LifecycleAssumption DEF Init
<1>5. QED
  BY <1>1, <1>3, <1>4, NoneCurrent DEF AgeInv, Recent

(* A command that ends with an ACK was applied by the nRF, that very       *)
(* command and generation.  Without the hypothesis it is false: losses,    *)
(* early timeouts and busy transmit mutexes can keep an answer under way   *)
(* until the generation counter has gone once around.                      *)
THEOREM AckedAppliedCorrect ==
  ASSUME MaxUpsets + 1 < GenMod
  PROVE  Spec => []AckedApplied
<1> DEFINE Inv == WireInv /\ LoopInv /\ ToneInv /\ FlowInv /\ AgeInv /\ AppliedInv
<1>1. Init => Inv
  BY InitHolds, InitFlow
<1>2. Inv /\ [Next]_vars => Inv'
  <2> SUFFICES ASSUME Inv, [Next]_vars PROVE Inv'
    OBVIOUS
  <2>1. WireInv' /\ LoopInv' /\ ToneInv'
    BY ToneInduction, LoopInduction, ExchangeInduction, NrfInduction DEF WireInv
  <2>2. FlowInv'
    BY FlowInduction
  <2>3. AgeInv'
    BY AgeInduction
  <2>4. AppliedInv'
    BY AppliedInduction
  <2>5. QED
    BY <2>1, <2>2, <2>3, <2>4
<1>3. Inv => AckedApplied
  BY DEF AppliedInv, AnswerTags, AckedApplied, Matches
<1>4. QED
  BY <1>1, <1>2, <1>3, PTL DEF Spec
=============================================================================
