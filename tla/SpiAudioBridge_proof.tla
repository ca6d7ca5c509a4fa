------------------------ MODULE SpiAudioBridge_proof ------------------------
(***************************************************************************)
(* Proofs about SpiAudioBridge, for every ring size, sequence space and    *)
(* bound: its types, the conservation of ring slots, that the audio path   *)
(* implements AudioChannel, and how far the nRF's duplicate check reaches. *)
(***************************************************************************)
EXTENDS SpiAudioBridge, TLAPS

(* The next wire sequence number is one. *)
LEMMA NextSeqType == \A x \in 0..(SeqMod - 1) : NextSeq(x) \in 0..(SeqMod - 1)
BY SpiAssumption DEF NextSeq

(* The idle frame is a frame. *)
LEMMA NoFrameType == NoFrame \in Frames
BY SpiAssumption DEF NoFrame, Frame, Frames

(* An encoded frame is a frame. *)
LEMMA NewFrameType ==
  ASSUME NEW k \in {"audio", "control"}, NEW n \in Nat, NEW x \in 0..(SeqMod - 1)
  PROVE  Frame(k, n, x) \in Frames
BY DEF Frame, Frames

(* Types are preserved by every step: DmaDequeue needs the used semaphore  *)
(* to count the ring's entries.                                            *)
LEMMA TypeInduction == TypeOK /\ SlotsConserved /\ [Next]_vars => TypeOK'
<1> SUFFICES ASSUME TypeOK, SlotsConserved, [Next]_vars PROVE TypeOK'
  OBVIOUS
<1> USE SpiAssumption, NoFrameType
<1>1. QED
  <2>1. CASE SendAudioTakeSlot
    BY <2>1 DEF SendAudioTakeSlot, TypeOK,
        ringVars, ackVars, statusVars, spiVars,
        taskVars, nrfVars, histVars
  <2>2. CASE SendAudioBusy
    BY <2>2 DEF SendAudioBusy, TypeOK,
        ringVars, ackVars, statusVars, spiVars,
        taskVars, nrfVars, histVars
  <2>3. CASE SendAudioLock
    BY <2>3 DEF SendAudioLock, TypeOK,
        ringVars, ackVars, statusVars, spiVars,
        taskVars, nrfVars, histVars
  <2>4. CASE SendAudioEnqueue
    BY <2>4, NextSeqType, NewFrameType DEF SendAudioEnqueue, TypeOK,
        ringVars, ackVars, statusVars, spiVars,
        taskVars, nrfVars, histVars
  <2>5. CASE QueueControlLock
    BY <2>5 DEF QueueControlLock, TypeOK,
        ringVars, ackVars, statusVars, spiVars,
        taskVars, nrfVars, histVars
  <2>6. CASE QueueControlEncode
    BY <2>6, NextSeqType, NewFrameType DEF QueueControlEncode, TypeOK,
        ringVars, ackVars, statusVars, spiVars,
        taskVars, nrfVars, histVars
  <2>7. CASE DmaDeadline
    BY <2>7 DEF DmaDeadline, TypeOK,
        ringVars, ackVars, statusVars, spiVars,
        taskVars, nrfVars, histVars
  <2>8. CASE DmaControl
    BY <2>8 DEF DmaControl, TypeOK,
        ringVars, ackVars, statusVars, spiVars,
        taskVars, nrfVars, histVars
  <2>9. CASE DmaResend
    BY <2>9 DEF DmaResend, TypeOK,
        ringVars, ackVars, statusVars, spiVars,
        taskVars, nrfVars, histVars
  <2>10. CASE DmaIdle
    BY <2>10 DEF DmaIdle, TypeOK,
        ringVars, ackVars, statusVars, spiVars,
        taskVars, nrfVars, histVars
  <2>11. CASE DmaDequeue
    BY <2>11 DEF DmaDequeue, SlotsConserved, TypeOK,
        ringVars, ackVars, statusVars, spiVars,
        taskVars, nrfVars, histVars
  <2>12. CASE DmaDrop
    BY <2>12 DEF DmaDrop, TypeOK,
        ringVars, ackVars, statusVars, spiVars,
        taskVars, nrfVars, histVars
  <2>13. CASE DmaCommit
    BY <2>13 DEF DmaCommit, TypeOK,
        ringVars, ackVars, statusVars, spiVars,
        taskVars, nrfVars, histVars
  <2>14. CASE RxNothing
    BY <2>14 DEF RxNothing, TypeOK,
        ringVars, ackVars, statusVars, spiVars,
        taskVars, nrfVars, histVars
  <2>15. CASE RxStatus
    BY <2>15 DEF RxStatus, TypeOK,
        ringVars, ackVars, statusVars, spiVars,
        taskVars, nrfVars, histVars
  <2>16. CASE DiscardPendingLock
    BY <2>16 DEF DiscardPendingLock, TypeOK,
        ringVars, ackVars, statusVars, spiVars,
        taskVars, nrfVars, histVars
  <2>17. CASE DiscardPending
    BY <2>17 DEF DiscardPending, DrainAudioRing, Held, TypeOK,
        ringVars, ackVars, statusVars, spiVars,
        taskVars, nrfVars, histVars
  <2>18. CASE StatusExpired
    BY <2>18 DEF StatusExpired, TypeOK,
        ringVars, ackVars, statusVars, spiVars,
        taskVars, nrfVars, histVars
  <2>19. CASE DiscardExpiredLock
    BY <2>19 DEF DiscardExpiredLock, TypeOK,
        ringVars, ackVars, statusVars, spiVars,
        taskVars, nrfVars, histVars
  <2>20. CASE DiscardExpired
    <3>1. CASE link = "down" /\ generation = reader_gen
      BY <2>20, <3>1 DEF DiscardExpired, DrainAudioRing, Held, TypeOK,
        ringVars, ackVars, statusVars, spiVars,
        taskVars, nrfVars, histVars
    <3>2. CASE ~(link = "down" /\ generation = reader_gen)
      BY <2>20, <3>2 DEF DiscardExpired, DrainAudioRing, Held, TypeOK,
        ringVars, ackVars, statusVars, spiVars,
        taskVars, nrfVars, histVars
    <3>3. QED
      BY <3>1, <3>2
  <2>21. CASE AckIsr
    BY <2>21 DEF AckIsr, TypeOK,
        ringVars, ackVars, statusVars, spiVars,
        taskVars, nrfVars, histVars
  <2>22. CASE Transfer
    BY <2>22 DEF Transfer, TypeOK,
        ringVars, ackVars, statusVars, spiVars,
        taskVars, nrfVars, histVars
  <2>23. CASE NrfNotAudio
    BY <2>23 DEF NrfNotAudio, TypeOK,
        ringVars, ackVars, statusVars, spiVars,
        taskVars, nrfVars, histVars
  <2>24. CASE NrfDuplicate
    BY <2>24 DEF NrfDuplicate, PulseAck, TypeOK,
        ringVars, ackVars, statusVars, spiVars,
        taskVars, nrfVars, histVars
  <2>25. CASE NrfAdmit
    BY <2>25 DEF NrfAdmit, PulseAck, Frames, TypeOK,
        ringVars, ackVars, statusVars, spiVars,
        taskVars, nrfVars, histVars
  <2>26. CASE NrfReject
    BY <2>26 DEF NrfReject, TypeOK,
        ringVars, ackVars, statusVars, spiVars,
        taskVars, nrfVars, histVars
  <2>27. CASE AckDeadline
    BY <2>27 DEF AckDeadline, TypeOK,
        ringVars, ackVars, statusVars, spiVars,
        taskVars, nrfVars, histVars
  <2>28. CASE StatusAges
    BY <2>28 DEF StatusAges, TypeOK,
        ringVars, ackVars, statusVars, spiVars,
        taskVars, nrfVars, histVars
  <2>29. CASE SetIngressEnabled
    BY <2>29 DEF SetIngressEnabled, TypeOK,
        ringVars, ackVars, statusVars, spiVars,
        taskVars, nrfVars, histVars
  <2>30. CASE EspReboot
    BY <2>30 DEF EspReboot, TypeOK,
        ringVars, ackVars, statusVars, spiVars,
        taskVars, nrfVars, histVars
  <2>31. CASE UNCHANGED vars
    BY <2>31 DEF vars, TypeOK,
        ringVars, ackVars, statusVars, spiVars,
        taskVars, nrfVars, histVars
  <2>32. QED
    BY <2>1, <2>2, <2>3, <2>4, <2>5, <2>6, <2>7, <2>8, <2>9, <2>10,
       <2>11, <2>12, <2>13, <2>14, <2>15, <2>16, <2>17, <2>18, <2>19, <2>20,
       <2>21, <2>22, <2>23, <2>24, <2>25, <2>26, <2>27, <2>28, <2>29, <2>30,
       <2>31
    DEF Next, Producer, Control, SpiTask, Reader, NrfParse, Clock

(* The slot count is preserved by every step. *)
LEMMA SlotInduction == TypeOK /\ SlotsConserved /\ [Next]_vars => SlotsConserved'
<1> SUFFICES ASSUME TypeOK, SlotsConserved, [Next]_vars PROVE SlotsConserved'
  OBVIOUS
<1> USE SpiAssumption DEF Held, waiting_ack
<1>1. QED
  <2>1. CASE SendAudioTakeSlot
    BY <2>1 DEF SendAudioTakeSlot, TypeOK, SlotsConserved,
        ringVars, ackVars, statusVars, spiVars,
        taskVars, nrfVars, histVars
  <2>2. CASE SendAudioBusy
    BY <2>2 DEF SendAudioBusy, TypeOK, SlotsConserved,
        ringVars, ackVars, statusVars, spiVars,
        taskVars, nrfVars, histVars
  <2>3. CASE SendAudioLock
    BY <2>3 DEF SendAudioLock, TypeOK, SlotsConserved,
        ringVars, ackVars, statusVars, spiVars,
        taskVars, nrfVars, histVars
  <2>4. CASE SendAudioEnqueue
    BY <2>4 DEF SendAudioEnqueue, TypeOK, SlotsConserved,
        ringVars, ackVars, statusVars, spiVars,
        taskVars, nrfVars, histVars
  <2>5. CASE QueueControlLock
    BY <2>5 DEF QueueControlLock, TypeOK, SlotsConserved,
        ringVars, ackVars, statusVars, spiVars,
        taskVars, nrfVars, histVars
  <2>6. CASE QueueControlEncode
    BY <2>6 DEF QueueControlEncode, TypeOK, SlotsConserved,
        ringVars, ackVars, statusVars, spiVars,
        taskVars, nrfVars, histVars
  <2>7. CASE DmaDeadline
    <3>1. CASE ack_wait = "expired"
      BY <2>7, <3>1 DEF DmaDeadline, TypeOK, SlotsConserved,
        ringVars, ackVars, statusVars, spiVars,
        taskVars, nrfVars, histVars
    <3>2. CASE ~(ack_wait = "expired")
      BY <2>7, <3>2 DEF DmaDeadline, TypeOK, SlotsConserved,
        ringVars, ackVars, statusVars, spiVars,
        taskVars, nrfVars, histVars
    <3>3. QED
      BY <3>1, <3>2
  <2>8. CASE DmaControl
    BY <2>8 DEF DmaControl, TypeOK, SlotsConserved,
        ringVars, ackVars, statusVars, spiVars,
        taskVars, nrfVars, histVars
  <2>9. CASE DmaResend
    BY <2>9 DEF DmaResend, TypeOK, SlotsConserved,
        ringVars, ackVars, statusVars, spiVars,
        taskVars, nrfVars, histVars
  <2>10. CASE DmaIdle
    BY <2>10 DEF DmaIdle, TypeOK, SlotsConserved,
        ringVars, ackVars, statusVars, spiVars,
        taskVars, nrfVars, histVars
  <2>11. CASE DmaDequeue
    BY <2>11 DEF DmaDequeue, TypeOK, SlotsConserved,
        ringVars, ackVars, statusVars, spiVars,
        taskVars, nrfVars, histVars
  <2>12. CASE DmaDrop
    BY <2>12 DEF DmaDrop, TypeOK, SlotsConserved,
        ringVars, ackVars, statusVars, spiVars,
        taskVars, nrfVars, histVars
  <2>13. CASE DmaCommit
    BY <2>13 DEF DmaCommit, TypeOK, SlotsConserved,
        ringVars, ackVars, statusVars, spiVars,
        taskVars, nrfVars, histVars
  <2>14. CASE RxNothing
    BY <2>14 DEF RxNothing, TypeOK, SlotsConserved,
        ringVars, ackVars, statusVars, spiVars,
        taskVars, nrfVars, histVars
  <2>15. CASE RxStatus
    BY <2>15 DEF RxStatus, TypeOK, SlotsConserved,
        ringVars, ackVars, statusVars, spiVars,
        taskVars, nrfVars, histVars
  <2>16. CASE DiscardPendingLock
    BY <2>16 DEF DiscardPendingLock, TypeOK, SlotsConserved,
        ringVars, ackVars, statusVars, spiVars,
        taskVars, nrfVars, histVars
  <2>17. CASE DiscardPending
    BY <2>17 DEF DiscardPending, DrainAudioRing, TypeOK, SlotsConserved,
        ringVars, ackVars, statusVars, spiVars,
        taskVars, nrfVars, histVars
  <2>18. CASE StatusExpired
    BY <2>18 DEF StatusExpired, TypeOK, SlotsConserved,
        ringVars, ackVars, statusVars, spiVars,
        taskVars, nrfVars, histVars
  <2>19. CASE DiscardExpiredLock
    BY <2>19 DEF DiscardExpiredLock, TypeOK, SlotsConserved,
        ringVars, ackVars, statusVars, spiVars,
        taskVars, nrfVars, histVars
  <2>20. CASE DiscardExpired
    <3>1. CASE link = "down" /\ generation = reader_gen
      BY <2>20, <3>1 DEF DiscardExpired, DrainAudioRing, TypeOK, SlotsConserved,
        ringVars, ackVars, statusVars, spiVars,
        taskVars, nrfVars, histVars
    <3>2. CASE ~(link = "down" /\ generation = reader_gen)
      BY <2>20, <3>2 DEF DiscardExpired, DrainAudioRing, TypeOK, SlotsConserved,
        ringVars, ackVars, statusVars, spiVars,
        taskVars, nrfVars, histVars
    <3>3. QED
      BY <3>1, <3>2
  <2>21. CASE AckIsr
    <3>1. CASE ack_wait # "none"
      BY <2>21, <3>1 DEF AckIsr, TypeOK, SlotsConserved,
        ringVars, ackVars, statusVars, spiVars,
        taskVars, nrfVars, histVars
    <3>2. CASE ~(ack_wait # "none")
      BY <2>21, <3>2 DEF AckIsr, TypeOK, SlotsConserved,
        ringVars, ackVars, statusVars, spiVars,
        taskVars, nrfVars, histVars
    <3>3. QED
      BY <3>1, <3>2
  <2>22. CASE Transfer
    BY <2>22 DEF Transfer, TypeOK, SlotsConserved,
        ringVars, ackVars, statusVars, spiVars,
        taskVars, nrfVars, histVars
  <2>23. CASE NrfNotAudio
    BY <2>23 DEF NrfNotAudio, TypeOK, SlotsConserved,
        ringVars, ackVars, statusVars, spiVars,
        taskVars, nrfVars, histVars
  <2>24. CASE NrfDuplicate
    BY <2>24 DEF NrfDuplicate, TypeOK, SlotsConserved,
        ringVars, ackVars, statusVars, spiVars,
        taskVars, nrfVars, histVars
  <2>25. CASE NrfAdmit
    BY <2>25 DEF NrfAdmit, TypeOK, SlotsConserved,
        ringVars, ackVars, statusVars, spiVars,
        taskVars, nrfVars, histVars
  <2>26. CASE NrfReject
    BY <2>26 DEF NrfReject, TypeOK, SlotsConserved,
        ringVars, ackVars, statusVars, spiVars,
        taskVars, nrfVars, histVars
  <2>27. CASE AckDeadline
    BY <2>27 DEF AckDeadline, TypeOK, SlotsConserved,
        ringVars, ackVars, statusVars, spiVars,
        taskVars, nrfVars, histVars
  <2>28. CASE StatusAges
    BY <2>28 DEF StatusAges, TypeOK, SlotsConserved,
        ringVars, ackVars, statusVars, spiVars,
        taskVars, nrfVars, histVars
  <2>29. CASE SetIngressEnabled
    BY <2>29 DEF SetIngressEnabled, TypeOK, SlotsConserved,
        ringVars, ackVars, statusVars, spiVars,
        taskVars, nrfVars, histVars
  <2>30. CASE EspReboot
    BY <2>30 DEF EspReboot, TypeOK, SlotsConserved,
        ringVars, ackVars, statusVars, spiVars,
        taskVars, nrfVars, histVars
  <2>31. CASE UNCHANGED vars
    BY <2>31 DEF vars, TypeOK, SlotsConserved,
        ringVars, ackVars, statusVars, spiVars,
        taskVars, nrfVars, histVars
  <2>32. QED
    BY <2>1, <2>2, <2>3, <2>4, <2>5, <2>6, <2>7, <2>8, <2>9, <2>10,
       <2>11, <2>12, <2>13, <2>14, <2>15, <2>16, <2>17, <2>18, <2>19, <2>20,
       <2>21, <2>22, <2>23, <2>24, <2>25, <2>26, <2>27, <2>28, <2>29, <2>30,
       <2>31
    DEF Next, Producer, Control, SpiTask, Reader, NrfParse, Clock

(* Every variable of the bridge model stays in its domain, and no ring     *)
(* slot is lost or handed out twice by the producer, the ISR, the ACK      *)
(* timeout and the two purges, for every ring size.                        *)
THEOREM SlotsCorrect == Spec => [](TypeOK /\ SlotsConserved)
<1>1. Init => TypeOK /\ SlotsConserved
  BY SpiAssumption, NoFrameType
  DEF Init, TypeOK, NoSeq, SlotsConserved, Held, waiting_ack
<1>2. QED
  BY <1>1, TypeInduction, SlotInduction, PTL DEF Spec

(* Every index, slot number, sequence number and counter of the bridge     *)
(* stays in its domain: an index of spi_bridge_send_audio or of the        *)
(* release never leaves the ring.                                          *)
THEOREM TypeCorrect == Spec => []TypeOK
<1>1. TypeOK /\ SlotsConserved => TypeOK
  OBVIOUS
<1>2. QED
  BY <1>1, SlotsCorrect, PTL
-----------------------------------------------------------------------------
(* The newest admitted frame is a number. *)
LEMMA NewestType == TypeOK => Newest \in Nat
BY DEF TypeOK, Newest, Ch!Newest

(* The newest admitted frame after one more admission. *)
LEMMA NewestAppend ==
  ASSUME TypeOK, NEW n \in Nat, admitted' = Append(admitted, n)
  PROVE  Newest' = n
BY DEF TypeOK, Newest, Ch!Newest

(* Frames stay in order along the pipe, so that the nRF's comparison with  *)
(* the last admitted sequence number is enough to recognise a duplicate.   *)
LEMMA OrderInduction ==
  TypeOK /\ SlotsConserved /\ PipeInOrder /\ [Next]_vars => PipeInOrder'
<1> SUFFICES ASSUME TypeOK, SlotsConserved, PipeInOrder, [Next]_vars
             PROVE  PipeInOrder'
  OBVIOUS
<1> USE SpiAssumption, NewestType
    DEF PipeInOrder, Recognised, NotAhead, AllBefore, IsAudio, waiting_ack
<1>0. ~IsAudio(NoFrame)
  BY DEF NoFrame, Frame
<1>1. (UNCHANGED admitted) => (UNCHANGED Newest)
  BY DEF Newest
<1>2. QED
  <2>1. CASE SendAudioTakeSlot
    BY <2>1, <1>0, <1>1 DEF SendAudioTakeSlot, TypeOK,
        ringVars, ackVars, statusVars, spiVars,
        taskVars, nrfVars, histVars
  <2>2. CASE SendAudioBusy
    BY <2>2, <1>0, <1>1 DEF SendAudioBusy, TypeOK,
        ringVars, ackVars, statusVars, spiVars,
        taskVars, nrfVars, histVars
  <2>3. CASE SendAudioLock
    BY <2>3, <1>0, <1>1 DEF SendAudioLock, TypeOK,
        ringVars, ackVars, statusVars, spiVars,
        taskVars, nrfVars, histVars
  <2>4. CASE SendAudioEnqueue
    <3> DEFINE f == Frame("audio", encoded + 1, tx_seq)
    <3>1. f.kind = "audio" /\ f.n = encoded + 1
      BY DEF Frame
    <3>2. /\ audio_q' = Append(audio_q, f) /\ Len(audio_q') = Len(audio_q) + 1
          /\ \A i \in DOMAIN audio_q : audio_q'[i] = audio_q[i]
          /\ audio_q'[Len(audio_q) + 1] = f
          /\ DOMAIN audio_q' = 1..(Len(audio_q) + 1)
          /\ DOMAIN audio_q = 1..Len(audio_q) /\ Len(audio_q) \in Nat
      BY <2>4, NewFrameType DEF SendAudioEnqueue, TypeOK
    <3>3. /\ \A n \in accepted : n \in Nat /\ n < encoded + 1
          /\ Newest < encoded + 1
          /\ accepted' = accepted \cup {encoded + 1} /\ encoded' = encoded + 1
          /\ encoded \in Nat
      BY <2>4 DEF SendAudioEnqueue, TypeOK
    <3>4. /\ UNCHANGED <<nrf_rx, tx_dma, inflight, ack_wait, last_seq, entry, ctrl_pending>>
          /\ UNCHANGED Newest /\ UNCHANGED spi_pc
      BY <2>4, <1>1 DEF SendAudioEnqueue, ackVars, nrfVars, spiVars
    <3> HIDE DEF f
    <3>a. \A n \in accepted : n \in Nat /\ n <= encoded
      BY <3>3
    <3>b. /\ IsAudio(nrf_rx) => nrf_rx.n < encoded + 1
          /\ IsAudio(tx_dma) => tx_dma.n < encoded + 1
          /\ waiting_ack => inflight.n < encoded + 1
          /\ spi_pc = "commit" => entry.n < encoded + 1
      BY <3>3
    <3>c. \A i \in DOMAIN audio_q : audio_q[i].n \in accepted /\ audio_q[i].n < encoded + 1
      BY <3>3
    <3>5. \A i \in DOMAIN audio_q' :
            /\ IsAudio(audio_q'[i]) /\ audio_q'[i].n \in accepted'
            /\ Newest < audio_q'[i].n
            /\ IsAudio(nrf_rx) => nrf_rx.n < audio_q'[i].n
            /\ IsAudio(tx_dma) => tx_dma.n < audio_q'[i].n
            /\ waiting_ack => inflight.n < audio_q'[i].n
            /\ spi_pc = "commit" => entry.n < audio_q'[i].n
      <4> SUFFICES ASSUME NEW i \in DOMAIN audio_q'
                   PROVE  /\ IsAudio(audio_q'[i]) /\ audio_q'[i].n \in accepted'
                          /\ Newest < audio_q'[i].n
                          /\ IsAudio(nrf_rx) => nrf_rx.n < audio_q'[i].n
                          /\ IsAudio(tx_dma) => tx_dma.n < audio_q'[i].n
                          /\ waiting_ack => inflight.n < audio_q'[i].n
                          /\ spi_pc = "commit" => entry.n < audio_q'[i].n
        OBVIOUS
      <4>1. CASE i \in DOMAIN audio_q
        <5>1. audio_q'[i] = audio_q[i]
          BY <3>2, <4>1
        <5>2. AllBefore(audio_q[i].n) /\ IsAudio(audio_q[i]) /\ audio_q[i].n \in accepted
              /\ (spi_pc = "commit" => entry.n < audio_q[i].n)
          BY <4>1
        <5>3. QED
          BY <5>1, <5>2, <3>3
      <4>2. CASE i = Len(audio_q) + 1
        <5>1. audio_q'[i] = f
          BY <3>2, <4>2
        <5>2. audio_q'[i].n = encoded + 1 /\ IsAudio(audio_q'[i])
          BY <5>1, <3>1
        <5>3. QED
          BY <5>2, <3>b, <3>3
      <4>3. QED
        BY <3>2, <4>1, <4>2
    <3>6. \A i, j \in DOMAIN audio_q' : i < j => audio_q'[i].n < audio_q'[j].n
      <4> SUFFICES ASSUME NEW i \in DOMAIN audio_q', NEW j \in DOMAIN audio_q', i < j
                   PROVE  audio_q'[i].n < audio_q'[j].n
        OBVIOUS
      <4>1. CASE j \in DOMAIN audio_q
        <5>1. i \in DOMAIN audio_q
          BY <3>2, <4>1
        <5>2. QED
          BY <5>1, <3>2, <4>1
      <4>2. CASE j = Len(audio_q) + 1
        <5>1. i \in DOMAIN audio_q
          BY <3>2, <4>2
        <5>2. audio_q'[i] = audio_q[i] /\ audio_q'[j] = f
          BY <3>2, <4>2, <5>1
        <5>3. QED
          BY <5>1, <5>2, <3>1, <3>c
      <4>3. QED
        BY <3>2, <4>1, <4>2
    <3>7. accepted' \subseteq 1..encoded' /\ Newest' <= encoded'
      BY <3>3, <3>4
    <3>8. /\ Recognised(nrf_rx)' /\ Recognised(tx_dma)' /\ NotAhead(nrf_rx, tx_dma)'
          /\ ~IsAudio(ctrl_pending)'
      BY <3>3, <3>4
    <3>9. waiting_ack' => /\ IsAudio(inflight)' /\ Recognised(inflight)'
                          /\ NotAhead(nrf_rx, inflight)' /\ NotAhead(tx_dma, inflight)'
      BY <3>3, <3>4
    <3>10. spi_pc' = "commit" => /\ IsAudio(entry)' /\ (entry.n \in accepted)'
                                 /\ AllBefore(entry.n)'
      BY <3>3, <3>4
    <3>11. \A i \in DOMAIN audio_q' :
             /\ IsAudio(audio_q[i])' /\ (audio_q[i].n \in accepted)'
             /\ AllBefore(audio_q[i].n)'
             /\ spi_pc' = "commit" => (entry.n < audio_q[i].n)'
      BY <3>5, <3>4
    <3>12. QED
      BY <3>6, <3>7, <3>8, <3>9, <3>10, <3>11
  <2>5. CASE QueueControlLock
    BY <2>5, <1>0, <1>1 DEF QueueControlLock, TypeOK,
        ringVars, ackVars, statusVars, spiVars,
        taskVars, nrfVars, histVars
  <2>6. CASE QueueControlEncode
    BY <2>6, <1>0, <1>1 DEF QueueControlEncode, Frame, Frames, TypeOK,
        ringVars, ackVars, statusVars, spiVars,
        taskVars, nrfVars, histVars
  <2>7. CASE DmaDeadline
    <3>1. CASE ack_wait = "expired"
      BY <2>7, <3>1, <1>0, <1>1 DEF DmaDeadline, TypeOK,
        ringVars, ackVars, statusVars, spiVars,
        taskVars, nrfVars, histVars
    <3>2. CASE ~(ack_wait = "expired")
      BY <2>7, <3>2, <1>0, <1>1 DEF DmaDeadline, TypeOK,
        ringVars, ackVars, statusVars, spiVars,
        taskVars, nrfVars, histVars
    <3>3. QED
      BY <3>1, <3>2
  <2>8. CASE DmaControl
    <3>1. CASE ctrl_pending # NoFrame /\ tx_mutex = "none"
      BY <2>8, <3>1, <1>0, <1>1 DEF DmaControl, TypeOK,
        ringVars, ackVars, statusVars, spiVars,
        taskVars, nrfVars, histVars
    <3>2. CASE ~(ctrl_pending # NoFrame /\ tx_mutex = "none")
      BY <2>8, <3>2, <1>0, <1>1 DEF DmaControl, TypeOK,
        ringVars, ackVars, statusVars, spiVars,
        taskVars, nrfVars, histVars
    <3>3. QED
      BY <3>1, <3>2
  <2>9. CASE DmaResend
    <3>1. CASE ack_wait # "none"
      BY <2>9, <3>1, <1>0, <1>1 DEF DmaResend, Frames, TypeOK,
        ringVars, ackVars, statusVars, spiVars,
        taskVars, nrfVars, histVars
    <3>2. CASE ~(ack_wait # "none")
      BY <2>9, <3>2, <1>0, <1>1 DEF DmaResend, Frames, TypeOK,
        ringVars, ackVars, statusVars, spiVars,
        taskVars, nrfVars, histVars
    <3>3. QED
      BY <3>1, <3>2
  <2>10. CASE DmaIdle
    BY <2>10, <1>0, <1>1 DEF DmaIdle, TypeOK,
        ringVars, ackVars, statusVars, spiVars,
        taskVars, nrfVars, histVars
  <2>11. CASE DmaDequeue
    <3>1. /\ Len(audio_q) \in Nat /\ Len(audio_q) > 0 /\ DOMAIN audio_q = 1..Len(audio_q)
          /\ entry' = audio_q[1]
          /\ DOMAIN audio_q' = 1..(Len(audio_q) - 1)
          /\ \A i \in DOMAIN audio_q' : audio_q'[i] = audio_q[i + 1]
      BY <2>11 DEF DmaDequeue, SlotsConserved, TypeOK
    <3>2. /\ UNCHANGED <<nrf_rx, tx_dma, inflight, ack_wait, last_seq, ctrl_pending,
                         accepted, encoded>>
          /\ UNCHANGED Newest
      BY <2>11, <1>1 DEF DmaDequeue, ackVars, nrfVars, histVars
    <3>3. QED
      BY <3>1, <3>2
  <2>12. CASE DmaDrop
    BY <2>12, <1>0, <1>1 DEF DmaDrop, TypeOK,
        ringVars, ackVars, statusVars, spiVars,
        taskVars, nrfVars, histVars
  <2>13. CASE DmaCommit
    BY <2>13, <1>0, <1>1 DEF DmaCommit, Frames, TypeOK,
        ringVars, ackVars, statusVars, spiVars,
        taskVars, nrfVars, histVars
  <2>14. CASE RxNothing
    BY <2>14, <1>0, <1>1 DEF RxNothing, TypeOK,
        ringVars, ackVars, statusVars, spiVars,
        taskVars, nrfVars, histVars
  <2>15. CASE RxStatus
    BY <2>15, <1>0, <1>1 DEF RxStatus, TypeOK,
        ringVars, ackVars, statusVars, spiVars,
        taskVars, nrfVars, histVars
  <2>16. CASE DiscardPendingLock
    BY <2>16, <1>0, <1>1 DEF DiscardPendingLock, TypeOK,
        ringVars, ackVars, statusVars, spiVars,
        taskVars, nrfVars, histVars
  <2>17. CASE DiscardPending
    BY <2>17, <1>0, <1>1 DEF DiscardPending, DrainAudioRing, TypeOK,
        ringVars, ackVars, statusVars, spiVars,
        taskVars, nrfVars, histVars
  <2>18. CASE StatusExpired
    BY <2>18, <1>0, <1>1 DEF StatusExpired, TypeOK,
        ringVars, ackVars, statusVars, spiVars,
        taskVars, nrfVars, histVars
  <2>19. CASE DiscardExpiredLock
    BY <2>19, <1>0, <1>1 DEF DiscardExpiredLock, TypeOK,
        ringVars, ackVars, statusVars, spiVars,
        taskVars, nrfVars, histVars
  <2>20. CASE DiscardExpired
    <3>1. CASE link = "down" /\ generation = reader_gen
      BY <2>20, <3>1, <1>0, <1>1 DEF DiscardExpired, DrainAudioRing, TypeOK,
        ringVars, ackVars, statusVars, spiVars,
        taskVars, nrfVars, histVars
    <3>2. CASE ~(link = "down" /\ generation = reader_gen)
      BY <2>20, <3>2, <1>0, <1>1 DEF DiscardExpired, DrainAudioRing, TypeOK,
        ringVars, ackVars, statusVars, spiVars,
        taskVars, nrfVars, histVars
    <3>3. QED
      BY <3>1, <3>2
  <2>21. CASE AckIsr
    <3>1. CASE ack_wait # "none"
      BY <2>21, <3>1, <1>0, <1>1 DEF AckIsr, TypeOK,
        ringVars, ackVars, statusVars, spiVars,
        taskVars, nrfVars, histVars
    <3>2. CASE ~(ack_wait # "none")
      BY <2>21, <3>2, <1>0, <1>1 DEF AckIsr, TypeOK,
        ringVars, ackVars, statusVars, spiVars,
        taskVars, nrfVars, histVars
    <3>3. QED
      BY <3>1, <3>2
  <2>22. CASE Transfer
    <3>1. CASE nrf_rx' = tx_dma
      BY <2>22, <3>1, <1>0, <1>1 DEF Transfer, Frames, TypeOK,
        ringVars, ackVars, statusVars, spiVars,
        taskVars, nrfVars, histVars
    <3>2. CASE ~(nrf_rx' = tx_dma)
      BY <2>22, <3>2, <1>0, <1>1 DEF Transfer, Frames, TypeOK,
        ringVars, ackVars, statusVars, spiVars,
        taskVars, nrfVars, histVars
    <3>3. QED
      BY <3>1, <3>2
  <2>23. CASE NrfNotAudio
    BY <2>23, <1>0, <1>1 DEF NrfNotAudio, TypeOK,
        ringVars, ackVars, statusVars, spiVars,
        taskVars, nrfVars, histVars
  <2>24. CASE NrfDuplicate
    BY <2>24, <1>0, <1>1 DEF NrfDuplicate, PulseAck, TypeOK,
        ringVars, ackVars, statusVars, spiVars,
        taskVars, nrfVars, histVars
  <2>25. CASE NrfAdmit
    <3>1. nrf_rx.n \in Nat /\ nrf_rx.n \in accepted /\ Newest <= nrf_rx.n
      BY <2>25 DEF NrfAdmit, TypeOK, Frames
    <3>2. Newest' = nrf_rx.n /\ last_seq' = nrf_rx.seq /\ nrf_rx' = NoFrame
      BY <2>25, <3>1, NewestAppend DEF NrfAdmit
    <3>3. UNCHANGED <<audio_q, tx_dma, inflight, ack_wait, entry, spi_pc, ctrl_pending,
                      accepted, encoded>>
      BY <2>25 DEF NrfAdmit, ackVars, ringVars, spiVars
    <3>6. Newest' <= encoded' /\ accepted' \subseteq 1..encoded'
      BY <3>1, <3>2, <3>3 DEF TypeOK
    <3>7. Recognised(nrf_rx)' /\ NotAhead(nrf_rx, tx_dma)' /\ ~IsAudio(ctrl_pending)'
      BY <1>0, <3>2, <3>3
    <3>8. Recognised(tx_dma)'
      <4>1. CASE IsAudio(tx_dma)
        <5>1. NotAhead(nrf_rx, tx_dma) /\ tx_dma.n \in accepted
          BY <4>1
        <5>2. QED
          BY <5>1, <4>1, <2>25, <3>1, <3>2, <3>3 DEF NrfAdmit
      <4>2. CASE ~IsAudio(tx_dma)
        BY <4>2, <3>3
      <4>3. QED
        BY <4>1, <4>2
    <3>9. waiting_ack' => /\ IsAudio(inflight)' /\ Recognised(inflight)'
                          /\ NotAhead(nrf_rx, inflight)' /\ NotAhead(tx_dma, inflight)'
      <4> SUFFICES ASSUME waiting_ack
                   PROVE  /\ IsAudio(inflight)' /\ Recognised(inflight)'
                          /\ NotAhead(nrf_rx, inflight)' /\ NotAhead(tx_dma, inflight)'
        BY <3>3
      <4>1. NotAhead(nrf_rx, inflight) /\ inflight.n \in accepted /\ IsAudio(inflight)
            /\ NotAhead(tx_dma, inflight)
        OBVIOUS
      <4>2. Recognised(inflight)'
        BY <4>1, <2>25, <3>1, <3>2, <3>3 DEF NrfAdmit
      <4>3. QED
        BY <1>0, <4>1, <4>2, <3>2, <3>3
    <3>10. spi_pc' = "commit" => /\ IsAudio(entry)' /\ (entry.n \in accepted)'
                                 /\ AllBefore(entry.n)'
      <4> SUFFICES ASSUME spi_pc = "commit"
                   PROVE  /\ IsAudio(entry)' /\ (entry.n \in accepted)'
                          /\ AllBefore(entry.n)'
        BY <3>3
      <4>1. IsAudio(entry) /\ entry.n \in accepted /\ AllBefore(entry.n) /\ entry.n \in Nat
        BY DEF TypeOK
      <4>2. QED
        BY <4>1, <1>0, <2>25, <3>1, <3>2, <3>3 DEF NrfAdmit
    <3>11. \A i \in DOMAIN audio_q' :
             /\ IsAudio(audio_q[i])' /\ (audio_q[i].n \in accepted)'
             /\ AllBefore(audio_q[i].n)'
             /\ spi_pc' = "commit" => (entry.n < audio_q[i].n)'
      <4> SUFFICES ASSUME NEW i \in DOMAIN audio_q
                   PROVE  /\ IsAudio(audio_q[i])' /\ (audio_q[i].n \in accepted)'
                          /\ AllBefore(audio_q[i].n)'
                          /\ spi_pc' = "commit" => (entry.n < audio_q[i].n)'
        BY <3>3
      <4>1. IsAudio(audio_q[i]) /\ audio_q[i].n \in accepted /\ AllBefore(audio_q[i].n)
            /\ (spi_pc = "commit" => entry.n < audio_q[i].n)
        OBVIOUS
      <4>2. QED
        BY <4>1, <1>0, <2>25, <3>1, <3>2, <3>3 DEF NrfAdmit
    <3>12. \A i, j \in DOMAIN audio_q' : i < j => (audio_q[i].n < audio_q[j].n)'
      BY <3>3
    <3>13. QED
      BY <3>6, <3>7, <3>8, <3>9, <3>10, <3>11, <3>12
  <2>26. CASE NrfReject
    BY <2>26, <1>0, <1>1 DEF NrfReject, TypeOK,
        ringVars, ackVars, statusVars, spiVars,
        taskVars, nrfVars, histVars
  <2>27. CASE AckDeadline
    BY <2>27, <1>0, <1>1 DEF AckDeadline, TypeOK,
        ringVars, ackVars, statusVars, spiVars,
        taskVars, nrfVars, histVars
  <2>28. CASE StatusAges
    BY <2>28, <1>0, <1>1 DEF StatusAges, TypeOK,
        ringVars, ackVars, statusVars, spiVars,
        taskVars, nrfVars, histVars
  <2>29. CASE SetIngressEnabled
    BY <2>29, <1>0, <1>1 DEF SetIngressEnabled, TypeOK,
        ringVars, ackVars, statusVars, spiVars,
        taskVars, nrfVars, histVars
  <2>30. CASE EspReboot
    BY <2>30, <1>0, <1>1 DEF EspReboot, TypeOK,
        ringVars, ackVars, statusVars, spiVars,
        taskVars, nrfVars, histVars
  <2>31. CASE UNCHANGED vars
    BY <2>31, <1>0, <1>1 DEF vars, TypeOK,
        ringVars, ackVars, statusVars, spiVars,
        taskVars, nrfVars, histVars
  <2>32. QED
    BY <2>1, <2>2, <2>3, <2>4, <2>5, <2>6, <2>7, <2>8, <2>9, <2>10,
       <2>11, <2>12, <2>13, <2>14, <2>15, <2>16, <2>17, <2>18, <2>19, <2>20,
       <2>21, <2>22, <2>23, <2>24, <2>25, <2>26, <2>27, <2>28, <2>29, <2>30,
       <2>31
    DEF Next, Producer, Control, SpiTask, Reader, NrfParse, Clock

(* In every reachable state the copies of audio frames are in order from   *)
(* the ring to the nRF, for every ring size and sequence space.            *)
THEOREM OrderCorrect == Spec => []PipeInOrder
<1>1. Init => PipeInOrder
  BY DEF Init, PipeInOrder, Recognised, NotAhead, AllBefore, IsAudio, NoFrame,
         Frame, waiting_ack, Newest, Ch!Newest
<1>2. QED
  BY <1>1, SlotsCorrect, OrderInduction, PTL DEF Spec

(* The bridge implements the ordered channel that loses but never          *)
(* duplicates, reorders or invents a frame.                                *)
THEOREM ImplementsChannel == Spec => ChannelSpec
<1>1. Init => Ch!ChInit
  BY DEF Init, Ch!ChInit
<1>2. TypeOK /\ PipeInOrder /\ [Next]_vars => [Ch!ChNext]_(Ch!chVars)
  <2> SUFFICES ASSUME TypeOK, PipeInOrder, [Next]_vars
               PROVE  [Ch!ChNext]_(Ch!chVars)
    OBVIOUS
  <2>1. CASE SendAudioEnqueue
    <3>1. \A g \in accepted : g < encoded + 1
      BY DEF PipeInOrder, TypeOK
    <3>2. QED
      BY <2>1, <3>1 DEF SendAudioEnqueue, Ch!ChNext, Ch!ChAccept
  <2>2. CASE NrfAdmit
    <3>1. nrf_rx.n \in accepted /\ nrf_rx.n > Newest
      BY <2>2, NewestType DEF NrfAdmit, PipeInOrder, Recognised, IsAudio, TypeOK, Frames
    <3>2. QED
      BY <2>2, <3>1 DEF NrfAdmit, Newest, Ch!ChNext, Ch!ChDeliver
  <2>3. CASE ~SendAudioEnqueue /\ ~NrfAdmit
    <3>1. UNCHANGED <<accepted, admitted>>
      BY <2>3 DEF Next, Producer, Control, SpiTask, Reader, NrfParse, Clock, vars, histVars,
           SendAudioTakeSlot, SendAudioBusy, SendAudioLock, QueueControlLock,
           QueueControlEncode, DmaDeadline, DmaControl, DmaResend, DmaIdle, DmaDequeue,
           DmaDrop, DmaCommit, RxNothing, RxStatus, DiscardPendingLock, DiscardPending,
           StatusExpired, DiscardExpiredLock, DiscardExpired, AckIsr, Transfer,
           NrfNotAudio, NrfDuplicate, NrfReject, AckDeadline, StatusAges,
           SetIngressEnabled, EspReboot
    <3>2. QED
      BY <3>1 DEF Ch!chVars
  <2>4. QED
    BY <2>1, <2>2, <2>3
<1>3. QED
  BY <1>1, <1>2, SlotsCorrect, OrderCorrect, PTL DEF Spec, ChannelSpec, Ch!ChSpec
-----------------------------------------------------------------------------
(* seq is the wire sequence number of the n-th frame since power-up.       *)
WireSeq(seq, n) == \E k \in Nat : n = seq + 1 + k * SeqMod

(* Until the ESP restarts, every audio frame carries the sequence number   *)
(* of its number, as does the last one the nRF admitted.                   *)
SeqInv ==
    reboots = 0 =>
      /\ WireSeq(tx_seq, encoded + 1)
      /\ \A f \in {entry, tx_dma, inflight, nrf_rx} : IsAudio(f) => WireSeq(f.seq, f.n)
      /\ \A i \in DOMAIN audio_q : IsAudio(audio_q[i]) => WireSeq(audio_q[i].seq, audio_q[i].n)
      /\ IF admitted = <<>> THEN last_seq = NoSeq ELSE WireSeq(last_seq, Newest)

(* Frames with one sequence number are a whole sequence space apart.       *)
LEMMA SeqDistinct ==
  ASSUME NEW seq \in Nat, NEW a \in Nat, NEW b \in Nat, a <= b, WireSeq(seq, a), WireSeq(seq, b)
  PROVE  a = b \/ b - a >= SeqMod
<1>1. PICK k \in Nat : a = seq + 1 + k * SeqMod
  BY DEF WireSeq
<1>2. PICK l \in Nat : b = seq + 1 + l * SeqMod
  BY DEF WireSeq
<1>3. SeqMod \in Nat /\ SeqMod > 0
  BY SpiAssumption
<1>4. CASE l <= k
  <2>1. PICK d \in Nat : k = l + d
    <3>1. k - l \in Nat /\ k = l + (k - l)
      BY <1>4
    <3>2. QED
      BY <3>1
  <2>2. k * SeqMod = l * SeqMod + d * SeqMod /\ d * SeqMod >= 0
    BY <1>3, <2>1
  <2>3. k * SeqMod \in Nat /\ l * SeqMod \in Nat /\ d * SeqMod \in Nat
    BY <1>3
  <2>4. \A x, y, z \in Nat : a = seq + 1 + x /\ b = seq + 1 + y /\ x = y + z => a = b
    OBVIOUS
  <2>5. QED
    BY <1>1, <1>2, <2>2, <2>3, <2>4, Zenon
<1>5. CASE l > k
  <2>1. PICK d \in Nat : l = k + 1 + d
    <3>1. l - k - 1 \in Nat /\ l = k + 1 + (l - k - 1)
      BY <1>5
    <3>2. QED
      BY <3>1
  <2>2. l * SeqMod = k * SeqMod + SeqMod + d * SeqMod /\ d * SeqMod >= 0
    BY <1>3, <2>1
  <2>3. k * SeqMod \in Nat /\ l * SeqMod \in Nat /\ d * SeqMod \in Nat
    BY <1>3
  <2>4. QED
    BY <1>1, <1>2, <1>3, <2>2, <2>3
<1>6. QED
  BY <1>4, <1>5

(* NextSeq counts on, and starts over after the last sequence number.      *)
LEMMA SeqCounts ==
  ASSUME NEW seq \in 0..(SeqMod - 1), NEW n \in Nat, WireSeq(seq, n)
  PROVE  WireSeq(NextSeq(seq), n + 1)
<1>1. PICK k \in Nat : n = seq + 1 + k * SeqMod
  BY DEF WireSeq
<1>2. SeqMod \in Nat /\ SeqMod > 0 /\ k * SeqMod \in Nat
  BY SpiAssumption
<1>3. CASE seq + 1 = SeqMod
  <2>1. NextSeq(seq) = 0
    BY <1>2, <1>3 DEF NextSeq
  <2>2. (k + 1) * SeqMod = k * SeqMod + SeqMod
    BY <1>2
  <2>3. n + 1 = 0 + 1 + (k + 1) * SeqMod
    BY <1>1, <1>2, <1>3, <2>2
  <2>4. QED
    BY <2>1, <2>3 DEF WireSeq
<1>4. CASE seq + 1 # SeqMod
  <2>1. NextSeq(seq) = seq + 1
    BY <1>2, <1>4 DEF NextSeq
  <2>2. n + 1 = (seq + 1) + 1 + k * SeqMod
    BY <1>1, <1>2
  <2>3. QED
    BY <2>1, <2>2 DEF WireSeq
<1>5. QED
  BY <1>3, <1>4

(* Every step keeps the numbering.                                         *)
LEMMA SeqInduction ==
  TypeOK /\ SlotsConserved /\ PipeInOrder /\ SeqInv /\ [Next]_vars => SeqInv'
<1> SUFFICES ASSUME TypeOK, SlotsConserved, PipeInOrder, SeqInv, [Next]_vars, reboots' = 0
             PROVE  SeqInv'
  BY DEF SeqInv
<1> USE DEF IsAudio
<1>0. ~IsAudio(NoFrame)
  BY DEF NoFrame, Frame
<1>1. CASE EspReboot
  BY <1>1 DEF EspReboot, TypeOK
<1>2. CASE ~EspReboot
  <2>1. reboots = 0
    BY <1>2 DEF Next, vars, histVars, Producer, Control, SpiTask, Reader, NrfParse, Clock,
       SendAudioTakeSlot, SendAudioBusy, SendAudioLock, SendAudioEnqueue, QueueControlLock,
       QueueControlEncode, DmaDeadline, DmaControl, DmaResend, DmaIdle, DmaDequeue, DmaDrop,
       DmaCommit, RxNothing, RxStatus, DiscardPendingLock, DiscardPending, StatusExpired,
       DiscardExpiredLock, DiscardExpired, AckIsr, Transfer, NrfNotAudio, NrfDuplicate,
       NrfAdmit, NrfReject, AckDeadline, StatusAges, SetIngressEnabled
  <2>2. /\ WireSeq(tx_seq, encoded + 1)
        /\ IsAudio(entry) => WireSeq(entry.seq, entry.n)
        /\ IsAudio(tx_dma) => WireSeq(tx_dma.seq, tx_dma.n)
        /\ IsAudio(inflight) => WireSeq(inflight.seq, inflight.n)
        /\ IsAudio(nrf_rx) => WireSeq(nrf_rx.seq, nrf_rx.n)
        /\ \A i \in DOMAIN audio_q : IsAudio(audio_q[i]) => WireSeq(audio_q[i].seq, audio_q[i].n)
        /\ IF admitted = <<>> THEN last_seq = NoSeq ELSE WireSeq(last_seq, Newest)
    BY <2>1 DEF SeqInv
  <2> DEFINE Sender == <<tx_seq, encoded>>
             Frms == <<entry, tx_dma, inflight, nrf_rx>>
             Last == <<admitted, last_seq>>
  <2>3. UNCHANGED admitted => UNCHANGED Newest
    BY DEF Newest
  <2>4. ASSUME WireSeq(tx_seq, encoded + 1)',
               \A f \in {entry', tx_dma', inflight', nrf_rx'} :
                  f = NoFrame \/ f \in {entry, tx_dma, inflight, nrf_rx}
                              \/ (IsAudio(f) => WireSeq(f.seq, f.n)),
               \A i \in DOMAIN audio_q' : IsAudio(audio_q'[i]) => WireSeq(audio_q'[i].seq, audio_q'[i].n),
               UNCHANGED Last \/ (admitted' # <<>> /\ WireSeq(last_seq, Newest)')
        PROVE  SeqInv'
    <3>1. \A f \in {entry', tx_dma', inflight', nrf_rx'} : IsAudio(f) => WireSeq(f.seq, f.n)
      BY <1>0, <2>2, <2>4
    <3>2. IF admitted' = <<>> THEN last_seq' = NoSeq ELSE WireSeq(last_seq', Newest')
      BY <2>2, <2>3, <2>4 DEF WireSeq
    <3>3. QED
      BY <2>4, <3>1, <3>2 DEF SeqInv, WireSeq
  <2>5. ASSUME UNCHANGED Sender PROVE WireSeq(tx_seq, encoded + 1)'
    BY <2>2, <2>5 DEF WireSeq
  <2>6. ASSUME UNCHANGED audio_q \/ audio_q' = <<>>
        PROVE  \A i \in DOMAIN audio_q' : IsAudio(audio_q'[i]) => WireSeq(audio_q'[i].seq, audio_q'[i].n)
    BY <2>2, <2>6
  <2>7. CASE \/ UNCHANGED vars \/ SendAudioTakeSlot \/ SendAudioBusy \/ SendAudioLock \/ QueueControlLock
             \/ DmaDeadline \/ DmaResend \/ DmaIdle \/ DmaDrop \/ DmaCommit \/ RxNothing \/ RxStatus
             \/ DiscardPendingLock \/ DiscardPending \/ StatusExpired \/ DiscardExpiredLock
             \/ DiscardExpired \/ AckIsr \/ Transfer \/ NrfNotAudio \/ NrfDuplicate \/ NrfReject
             \/ AckDeadline \/ StatusAges \/ SetIngressEnabled
    <3>1. UNCHANGED Sender /\ UNCHANGED Last
      BY <2>7 DEF vars, ringVars, ackVars, statusVars, spiVars, taskVars, nrfVars, histVars,
         SendAudioTakeSlot, SendAudioBusy, SendAudioLock, QueueControlLock, DmaDeadline, DmaResend,
         DmaIdle, DmaDrop, DmaCommit, RxNothing, RxStatus, DiscardPendingLock, DiscardPending,
         StatusExpired, DiscardExpiredLock, DiscardExpired, AckIsr, Transfer, NrfNotAudio,
         NrfDuplicate, NrfReject, AckDeadline, StatusAges, SetIngressEnabled
    <3>2. UNCHANGED audio_q \/ audio_q' = <<>>
      BY <2>7 DEF vars, ringVars, DrainAudioRing,
         SendAudioTakeSlot, SendAudioBusy, SendAudioLock, QueueControlLock, DmaDeadline, DmaResend,
         DmaIdle, DmaDrop, DmaCommit, RxNothing, RxStatus, DiscardPendingLock, DiscardPending,
         StatusExpired, DiscardExpiredLock, DiscardExpired, AckIsr, Transfer, NrfNotAudio,
         NrfDuplicate, NrfReject, AckDeadline, StatusAges, SetIngressEnabled
    <3>3. \A f \in {entry', tx_dma', inflight', nrf_rx'} :
             f = NoFrame \/ f \in {entry, tx_dma, inflight, nrf_rx}
      BY <2>7 DEF vars, ackVars, spiVars, nrfVars,
         SendAudioTakeSlot, SendAudioBusy, SendAudioLock, QueueControlLock, DmaDeadline, DmaResend,
         DmaIdle, DmaDrop, DmaCommit, RxNothing, RxStatus, DiscardPendingLock, DiscardPending,
         StatusExpired, DiscardExpiredLock, DiscardExpired, AckIsr, Transfer, NrfNotAudio,
         NrfDuplicate, NrfReject, AckDeadline, StatusAges, SetIngressEnabled
    <3>4. QED
      BY <2>4, <2>5, <2>6, <3>1, <3>2, <3>3
  <2>8. ASSUME tx_seq' = NextSeq(tx_seq), encoded' = encoded + 1
        PROVE  WireSeq(tx_seq, encoded + 1)'
    <3>1. WireSeq(NextSeq(tx_seq), (encoded + 1) + 1)
      BY <2>2, SeqCounts DEF TypeOK
    <3>2. QED
      BY <2>8, <3>1 DEF WireSeq
  <2>9. CASE SendAudioEnqueue
    <3> DEFINE f == Frame("audio", encoded + 1, tx_seq)
    <3>1. f.n = encoded + 1 /\ f.seq = tx_seq
      BY DEF Frame
    <3>2. /\ audio_q' = Append(audio_q, f) /\ Len(audio_q) \in Nat
          /\ \A i \in DOMAIN audio_q : audio_q'[i] = audio_q[i]
          /\ audio_q'[Len(audio_q) + 1] = f
          /\ DOMAIN audio_q' = 1..(Len(audio_q) + 1) /\ DOMAIN audio_q = 1..Len(audio_q)
      BY <2>9, NewFrameType DEF SendAudioEnqueue, TypeOK
    <3> HIDE DEF f
    <3>3. \A i \in DOMAIN audio_q' : i \in DOMAIN audio_q \/ i = Len(audio_q) + 1
      BY <3>2
    <3>4. \A i \in DOMAIN audio_q' : IsAudio(audio_q'[i]) => WireSeq(audio_q'[i].seq, audio_q'[i].n)
      BY <2>2, <3>1, <3>2, <3>3
    <3>5. UNCHANGED Frms /\ UNCHANGED Last /\ tx_seq' = NextSeq(tx_seq) /\ encoded' = encoded + 1
      BY <2>9 DEF SendAudioEnqueue, ackVars, spiVars, nrfVars
    <3>6. QED
      BY <2>4, <2>8, <3>4, <3>5
  <2>10. CASE QueueControlEncode
    <3>1. /\ UNCHANGED Frms /\ UNCHANGED Last /\ tx_seq' = NextSeq(tx_seq) /\ encoded' = encoded + 1
          /\ UNCHANGED audio_q
      BY <2>10 DEF QueueControlEncode, ackVars, spiVars, nrfVars, ringVars
    <3>2. QED
      BY <2>4, <2>6, <2>8, <3>1
  <2>11. CASE DmaControl
    <3>1. UNCHANGED Sender /\ UNCHANGED Last /\ UNCHANGED audio_q /\ UNCHANGED <<entry, inflight, nrf_rx>>
      BY <2>11 DEF DmaControl, ringVars, ackVars, nrfVars, histVars
    <3>2. tx_dma' \in {tx_dma, ctrl_pending}
      BY <2>11 DEF DmaControl
    <3>4. ~IsAudio(ctrl_pending)
      BY DEF PipeInOrder
    <3>5. QED
      BY <2>4, <2>5, <2>6, <3>1, <3>2, <3>4
  <2>12. CASE DmaDequeue
    <3>1. audio_q \in Seq(Frames) /\ audio_q # <<>>
      BY <2>12 DEF DmaDequeue, TypeOK, SlotsConserved
    <3>2. /\ entry' = Head(audio_q) /\ audio_q' = Tail(audio_q)
          /\ UNCHANGED Sender /\ UNCHANGED Last /\ UNCHANGED <<tx_dma, inflight, nrf_rx>>
      BY <2>12 DEF DmaDequeue, ackVars, nrfVars, histVars
    <3>3. /\ 1 \in DOMAIN audio_q /\ Head(audio_q) = audio_q[1]
          /\ \A i \in DOMAIN Tail(audio_q) : i + 1 \in DOMAIN audio_q /\ Tail(audio_q)[i] = audio_q[i + 1]
      BY <3>1
    <3>4. \A i \in DOMAIN audio_q' : IsAudio(audio_q'[i]) => WireSeq(audio_q'[i].seq, audio_q'[i].n)
      BY <2>2, <3>2, <3>3
    <3>5. IsAudio(entry') => WireSeq(entry'.seq, entry'.n)
      BY <2>2, <3>2, <3>3
    <3>6. QED
      BY <2>4, <2>5, <3>2, <3>4, <3>5
  <2>13. CASE NrfAdmit
    <3>1. /\ last_seq' = nrf_rx.seq /\ admitted' = Append(admitted, nrf_rx.n) /\ IsAudio(nrf_rx)
          /\ UNCHANGED Sender /\ UNCHANGED audio_q /\ UNCHANGED <<entry, tx_dma, inflight>>
          /\ nrf_rx' = NoFrame
      BY <2>13 DEF NrfAdmit, ringVars, spiVars, ackVars
    <3>2. nrf_rx.n \in Nat /\ admitted \in Seq(Nat)
      BY DEF TypeOK, Frames
    <3>3. Newest' = nrf_rx.n
      BY <3>1, <3>2, NewestAppend
    <3>4. admitted' # <<>>
      BY <3>1, <3>2
    <3>5. WireSeq(last_seq, Newest)'
      BY <2>2, <3>1, <3>3 DEF WireSeq
    <3>6. QED
      BY <2>4, <2>5, <2>6, <3>1, <3>4, <3>5
  <2>14. QED
    BY <1>2, <2>7, <2>9, <2>10, <2>11, <2>12, <2>13
       DEF Next, Producer, Control, SpiTask, Reader, NrfParse, Clock
<1>3. QED
  BY <1>1, <1>2

(* The numbering holds in every reachable state.                           *)
LEMMA SeqInvariant == Spec => [](TypeOK /\ PipeInOrder /\ SeqInv)
<1>1. Init => SeqInv
  <2> SUFFICES ASSUME Init PROVE SeqInv
    OBVIOUS
  <2>1. 0 + 1 = 0 + 1 + 0 * SeqMod
    BY SpiAssumption
  <2>2. WireSeq(tx_seq, encoded + 1)
    BY <2>1 DEF Init, WireSeq
  <2>3. QED
    BY <2>2 DEF Init, SeqInv, IsAudio, NoFrame, Frame
<1>2. Spec => [](TypeOK /\ SlotsConserved)
  BY SlotsCorrect
<1>3. Spec => []PipeInOrder
  BY OrderCorrect
<1>4. QED
  BY <1>1, <1>2, <1>3, SeqInduction, PTL DEF Spec

(* The nRF's duplicate check, which remembers one 8-bit number, takes a    *)
(* new frame for an old one only when a whole sequence space of frames was *)
(* encoded since the last admission, or the ESP restarted.                 *)
THEOREM FalseDuplicateCorrect == Spec => []FalseDuplicateOnlyAfterWrap
<1>1. TypeOK /\ PipeInOrder /\ SeqInv => FalseDuplicateOnlyAfterWrap
  <2> SUFFICES ASSUME TypeOK, PipeInOrder, SeqInv, IsAudio(nrf_rx), nrf_rx.seq = last_seq,
                      reboots = 0
               PROVE  nrf_rx.n = Newest \/ nrf_rx.n - Newest >= SeqMod
    BY DEF FalseDuplicateOnlyAfterWrap, IsAudio, TypeOK
  <2>1. /\ nrf_rx.n \in Nat /\ nrf_rx.seq \in 0..(SeqMod - 1) /\ Newest \in Nat
        /\ Newest <= nrf_rx.n
    BY NewestType DEF TypeOK, Frames, PipeInOrder, Recognised
  <2>2. last_seq # NoSeq /\ nrf_rx.seq \in Nat
    BY <2>1, SpiAssumption DEF NoSeq
  <2>3. WireSeq(nrf_rx.seq, nrf_rx.n) /\ WireSeq(nrf_rx.seq, Newest)
    BY <2>2 DEF SeqInv
  <2>4. QED
    BY <2>1, <2>2, <2>3, SeqDistinct
<1>2. QED
  BY <1>1, SeqInvariant, PTL
=============================================================================
