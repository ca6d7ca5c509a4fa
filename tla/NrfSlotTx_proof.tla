-------------------------- MODULE NrfSlotTx_proof --------------------------
(***************************************************************************)
(* The schedule of NrfSlotTx, for queues of every size and any number of   *)
(* sessions: a running node keeps its frame timer, and opens a window only *)
(* when it is synchronised, although timer interrupts come between the     *)
(* locked sections of acquire_sync and tdma_stop.                          *)
(***************************************************************************)
EXTENDS NrfSlotTx, TLAPS

(* The part of the state that tdma.c owns has its types.                   *)
ScheduleType ==
    /\ running \in BOOLEAN /\ synchronized \in BOOLEAN /\ quiesced \in BOOLEAN
    /\ handler \in {"none", "acquire", "stop"} /\ timer \in BOOLEAN
    /\ due \in [Windows -> SUBSET {"timer", "work"}] /\ current \in [Windows -> BOOLEAN]

(* Between its two sections a handler has the timers quiesced and no       *)
(* window of the current generation, so that no interrupt renews either.   *)
Quiesced ==
    /\ handler # "none" => quiesced /\ \A w \in Windows : ~current[w]
    /\ handler = "stop" => ~running
    /\ handler = "acquire" => running

(* Without SYNC nothing is armed, once a handler has returned.             *)
NothingArmed ==
    /\ synchronized => running
    /\ handler = "none" /\ ~synchronized => \A w \in Windows : due[w] = {}

ScheduleInv == ScheduleType /\ Quiesced /\ NothingArmed /\ KeepsRunning /\ OnlySynchronized

(* The initial state satisfies the invariant.                              *)
LEMMA ScheduleInit == Init => ScheduleInv
  BY DEF Init, ScheduleInv, ScheduleType, Quiesced, NothingArmed, KeepsRunning,
         OnlySynchronized, Windows

(* Most actions leave the schedule alone.                                  *)
LEMMA ScheduleSame == ASSUME ScheduleInv, UNCHANGED schedule PROVE ScheduleInv'
  BY DEF ScheduleInv, ScheduleType, Quiesced, NothingArmed, KeepsRunning,
         OnlySynchronized, Valid, schedule

(* slot_tx_handler, and a work item that comes too late, only give up      *)
(* submitted work.                                                         *)
LEMMA ScheduleTakes ==
    ASSUME ScheduleInv, NEW w \in Windows,
           due' = [due EXCEPT ![w] = @ \ {"work"}],
           UNCHANGED <<running, synchronized, quiesced, handler, timer, current>>
    PROVE  ScheduleInv'
  <1>1. due' \in [Windows -> SUBSET {"timer", "work"}]
        /\ \A v \in Windows : due'[v] \subseteq due[v]
    BY DEF ScheduleInv, ScheduleType
  <1>2. QED
    BY <1>1 DEF ScheduleInv, ScheduleType, Quiesced, NothingArmed, KeepsRunning,
                OnlySynchronized, Valid

(* Every step preserves the invariant.                                     *)
LEMMA ScheduleNext == ASSUME ScheduleInv, [Next]_vars PROVE ScheduleInv'
  <1> USE DEF ScheduleInv, ScheduleType, Quiesced, NothingArmed, KeepsRunning,
              OnlySynchronized, Valid, Windows
  <1>1. ASSUME NEW sync \in BOOLEAN, Start(sync) PROVE ScheduleInv'
    BY <1>1 DEF Start, NoneCurrent
  <1>2. ASSUME NEW late \in SUBSET Windows, FrameTimer(late) PROVE ScheduleInv'
    <2>1. CASE running /\ ~quiesced
      <3>1. /\ timer' = TRUE /\ current' = [w \in Windows |-> TRUE]
            /\ due' = [w \in Windows |->
                         IF synchronized /\ w \notin late THEN due[w] \cup {"timer"} ELSE due[w]]
            /\ handler = "none"
        BY <1>2, <2>1 DEF FrameTimer, Opens
      <3>2. ~synchronized => due' = due
        BY <3>1
      <3>3. QED
        BY <1>2, <2>1, <3>1, <3>2 DEF FrameTimer
    <2>2. CASE ~(running /\ ~quiesced)
      BY <1>2, <2>2 DEF FrameTimer
    <2>3. QED
      BY <2>1, <2>2
  <1>3. ASSUME NEW w \in Windows, WindowTimer(w) PROVE ScheduleInv'
    <2>1. /\ due' \in [Windows -> SUBSET {"timer", "work"}] /\ due[w] # {}
          /\ \A v \in Windows : due'[v] # {} => due[v] # {}
      BY <1>3 DEF WindowTimer
    <2>2. QED
      BY <1>3, <2>1 DEF WindowTimer
  <1>4. ASSUME NEW w \in Windows, WorkMissed(w) PROVE ScheduleInv'
    BY <1>4, ScheduleTakes DEF WorkMissed
  <1>5. CASE AcquireBegin
    BY <1>5 DEF AcquireBegin, NoneCurrent
  <1>6. CASE AcquireEnd
    BY <1>6 DEF AcquireEnd, NoneDue
  <1>7. CASE StopBegin
    BY <1>7 DEF StopBegin, NoneCurrent
  <1>8. CASE StopEnd
    BY <1>8 DEF StopEnd, NoneDue
  <1>9. CASE SlotTx
    <2>1. Slot
      BY <1>9 DEF SlotTx, SlotDefer, SlotSuccessor, SlotSuccessorFailed, SlotLocal,
                  SlotLocalFailed, Local, SlotRelay, SlotIdle
    <2>2. QED
      BY <2>1, ScheduleTakes DEF Slot
  <1>10. CASE \/ \E kind \in {"active", "comfort"}, lost \in BOOLEAN : SendFrame(kind, lost)
              \/ SendProbe \/ IngressWork \/ RelayReceived
    BY <1>10, ScheduleSame DEF SendFrame, SendProbe, IngressWork, RelayReceived
  <1>11. CASE UNCHANGED vars
    BY <1>11, ScheduleSame DEF vars
  <1>12. QED
    BY <1>1, <1>2, <1>3, <1>4, <1>5, <1>6, <1>7, <1>8, <1>9, <1>10, <1>11 DEF Next

(* A running node's frame timer is armed and will be served, outside of a  *)
(* resynchronisation: tdma.c never stops a schedule by itself.             *)
THEOREM KeepsRunningCorrect == Spec => []KeepsRunning
  <1>1. ScheduleInv => KeepsRunning
    BY DEF ScheduleInv
  <1>2. QED
    BY <1>1, ScheduleInit, ScheduleNext, PTL DEF Spec

(* No slot or control window is open in a node without SYNC, whichever     *)
(* timer or work item is late.                                             *)
THEOREM OnlySynchronizedCorrect == Spec => []OnlySynchronized
  <1>1. ScheduleInv => OnlySynchronized
    BY DEF ScheduleInv
  <1>2. QED
    BY <1>1, ScheduleInit, ScheduleNext, PTL DEF Spec
-----------------------------------------------------------------------------
(* The frames in the queues: sequence numbers rise from the tail of the    *)
(* ring to the head of the ingress queue, above the last frame on the air  *)
(* and below the next one of the ESP.  Probes have no number.              *)
Entries == [seq : 0..MaxFrames, kind : {"active", "comfort", "probe"}, prev1 : BOOLEAN]
Rising(q) == \A i, j \in DOMAIN q : i < j /\ q[i].seq # 0 /\ q[j].seq # 0 => q[i].seq < q[j].seq
Good(q, low, high) ==
    /\ q \in Seq(Entries) /\ Rising(q)
    /\ \A i \in DOMAIN q : q[i].seq < high /\ (q[i].seq # 0 => low < q[i].seq)
Before(p, q) == \A i \in DOMAIN p, j \in DOMAIN q :
                  p[i].seq # 0 /\ q[j].seq # 0 => p[i].seq < q[j].seq
QueueInv ==
    /\ Good(ring, last, next) /\ Len(ring) <= Ring
    /\ Good(ingress, last, next) /\ Len(ingress) <= Queue
    /\ Before(ring, ingress)
    /\ next \in 1..(MaxFrames + 1) /\ prev_active \in BOOLEAN
    /\ last \in Nat /\ last < next
    /\ deferred \in 0..MaxFrames
    /\ open \subseteq Waiting

(* s is q without its first n entries.                                     *)
IsRest(s, q, n) ==
    /\ n \in 0..Len(q) /\ s \in Seq(Entries) /\ Len(s) = Len(q) - n
    /\ \A i \in 1..(Len(q) - n) : s[i] = q[i + n]

(* What the sequence operators give.                                       *)
LEMMA RestOf ==
  ASSUME NEW q \in Seq(Entries), NEW n \in 0..Len(q)
  PROVE  IsRest(SubSeq(q, n + 1, Len(q)), q, n)
<1>1. Len(q) \in Nat
  OBVIOUS
<1>2. SubSeq(q, n + 1, Len(q)) \in Seq(Entries) /\ Len(SubSeq(q, n + 1, Len(q))) = Len(q) - n
  BY <1>1
<1>3. \A i \in 1..(Len(q) - n) : SubSeq(q, n + 1, Len(q))[i] = q[i + n]
  BY <1>1
<1>4. QED
  BY <1>2, <1>3 DEF IsRest

(* The rest of a good queue is good, above everything that was taken, and  *)
(* nothing else is missing.                                                *)
LEMMA RestGood ==
  ASSUME NEW low \in Nat, NEW high \in Nat, NEW q, Good(q, low, high),
         NEW s, NEW n, IsRest(s, q, n)
  PROVE  /\ Good(s, low, high)
         /\ \A i \in 1..n : q[i].seq # 0 => \A j \in DOMAIN s : s[j].seq # 0 => q[i].seq < s[j].seq
         /\ Seqs(q) \subseteq Seqs(s) \cup {q[i].seq : i \in 1..n}
<1>1. /\ q \in Seq(Entries) /\ DOMAIN q = 1..Len(q) /\ Len(q) \in Nat /\ n \in 0..Len(q)
      /\ s \in Seq(Entries) /\ DOMAIN s = 1..(Len(q) - n)
      /\ \A i \in 1..(Len(q) - n) : s[i] = q[i + n]
  BY DEF Good, IsRest
<1>2. \A i \in DOMAIN s : i + n \in DOMAIN q /\ s[i] = q[i + n]
  BY <1>1
<1>3. \A i \in DOMAIN s : s[i].seq < high /\ (s[i].seq # 0 => low < s[i].seq)
  BY <1>2 DEF Good
<1>4. Rising(s)
  <2> SUFFICES ASSUME NEW i \in DOMAIN s, NEW j \in DOMAIN s, i < j, s[i].seq # 0, s[j].seq # 0
               PROVE  s[i].seq < s[j].seq
    BY DEF Rising
  <2>1. i + n < j + n
    BY <1>1
  <2>2. QED
    BY <1>2, <2>1 DEF Good, Rising
<1>5. ASSUME NEW i \in 1..n, q[i].seq # 0, NEW j \in DOMAIN s, s[j].seq # 0
      PROVE  q[i].seq < s[j].seq
  <2>1. i \in DOMAIN q /\ i < j + n
    BY <1>1
  <2>2. QED
    BY <1>2, <1>5, <2>1 DEF Good, Rising
<1>6. Seqs(q) \subseteq Seqs(s) \cup {q[i].seq : i \in 1..n}
  <2> SUFFICES ASSUME NEW k \in DOMAIN q, q[k].seq # 0, k \notin 1..n
               PROVE  \E i \in DOMAIN s : q[k].seq = s[i].seq
    BY DEF Seqs
  <2>1. k - n \in DOMAIN s /\ (k - n) + n = k
    BY <1>1
  <2>2. s[k - n] = q[k]
    BY <1>2, <2>1
  <2>3. QED
    BY <2>1, <2>2
<1>7. QED
  BY <1>1, <1>3, <1>4, <1>5, <1>6 DEF Good

(* drain_audio_ingress moves the ingress queue behind the ring.            *)
LEMMA JoinedGood ==
  ASSUME NEW low \in Nat, NEW high \in Nat, NEW p, Good(p, low, high),
         NEW q, Good(q, low, high), Before(p, q)
  PROVE  /\ Good(p \o q, low, high) /\ Len(p \o q) = Len(p) + Len(q)
         /\ Seqs(p \o q) = Seqs(p) \cup Seqs(q)
<1> DEFINE r == p \o q
<1>1. /\ p \in Seq(Entries) /\ DOMAIN p = 1..Len(p) /\ Len(p) \in Nat
      /\ q \in Seq(Entries) /\ DOMAIN q = 1..Len(q) /\ Len(q) \in Nat
  BY DEF Good
<1>2. r \in Seq(Entries) /\ Len(r) = Len(p) + Len(q)
  BY <1>1
<1>3. /\ \A i \in 1..Len(p) : r[i] = p[i]
      /\ \A i \in 1..Len(q) : r[Len(p) + i] = q[i]
  BY <1>1
<1> HIDE DEF r
<1>4. DOMAIN r = 1..(Len(p) + Len(q))
  BY <1>1, <1>2
<1>5. \A i \in DOMAIN r : \/ i \in DOMAIN p /\ r[i] = p[i]
                          \/ i - Len(p) \in DOMAIN q /\ r[i] = q[i - Len(p)] /\ i > Len(p)
  <2> SUFFICES ASSUME NEW i \in DOMAIN r, ~(i \in DOMAIN p)
               PROVE  i - Len(p) \in DOMAIN q /\ r[i] = q[i - Len(p)] /\ i > Len(p)
    BY <1>1, <1>3
  <2>1. i - Len(p) \in 1..Len(q) /\ Len(p) + (i - Len(p)) = i
    BY <1>1, <1>4
  <2>2. QED
    BY <1>1, <1>3, <1>4, <2>1
<1>6. \A i \in DOMAIN r : r[i].seq < high /\ (r[i].seq # 0 => low < r[i].seq)
  BY <1>5 DEF Good
<1>7. Rising(r)
  <2> SUFFICES ASSUME NEW i \in DOMAIN r, NEW j \in DOMAIN r, i < j, r[i].seq # 0, r[j].seq # 0
               PROVE  r[i].seq < r[j].seq
    BY DEF Rising
  <2>1. CASE j \in DOMAIN p
    <3>1. i \in DOMAIN p
      BY <1>1, <1>4, <2>1
    <3>2. QED
      BY <1>1, <1>3, <2>1, <3>1 DEF Good, Rising
  <2>2. CASE i \in DOMAIN p /\ j \notin DOMAIN p
    BY <1>1, <1>3, <1>5, <2>2 DEF Before
  <2>3. CASE i \notin DOMAIN p
    <3>1. j \notin DOMAIN p
      BY <1>1, <1>4, <2>3
    <3>2. /\ i - Len(p) \in DOMAIN q /\ j - Len(p) \in DOMAIN q
          /\ r[i] = q[i - Len(p)] /\ r[j] = q[j - Len(p)]
      BY <1>5, <2>3, <3>1
    <3>3. i - Len(p) < j - Len(p)
      BY <1>1, <1>4
    <3>4. QED
      BY <3>2, <3>3 DEF Good, Rising
  <2>4. QED
    BY <2>1, <2>2, <2>3
<1>8. Seqs(r) = Seqs(p) \cup Seqs(q)
  <2>1. Seqs(r) \subseteq Seqs(p) \cup Seqs(q)
    BY <1>5 DEF Seqs
  <2>2. Seqs(p) \subseteq Seqs(r)
    BY <1>1, <1>3, <1>4 DEF Seqs
  <2>3. \A i \in DOMAIN q : Len(p) + i \in DOMAIN r /\ r[Len(p) + i] = q[i]
    BY <1>1, <1>3, <1>4
  <2>4. Seqs(q) \subseteq Seqs(r)
    BY <2>3 DEF Seqs
  <2>5. QED
    BY <2>1, <2>2, <2>4
<1>9. QED
  BY <1>2, <1>6, <1>7, <1>8 DEF Good, r

(* The greatest of two numbers.                                            *)
LEMMA GreatestOfTwo ==
  ASSUME NEW a \in Int, NEW b \in Int
  PROVE  Max({a, b}) \in {a, b} /\ Max({a, b}) >= a /\ Max({a, b}) >= b
<1>1. \E x \in {a, b} : \A y \in {a, b} : x >= y
  OBVIOUS
<1>2. QED
  BY <1>1 DEF Max

(* The drained ring: good, within its size, without the entries that it    *)
(* dropped and no others.                                                  *)
LEMMA DrainedGood ==
  ASSUME QueueInv
  PROVE  /\ Good(Drained, last, next) /\ Len(Drained) \in Nat /\ Len(Drained) <= Ring
         /\ Waiting \subseteq Dropped \cup Seqs(Drained)
         /\ Pending \in 0..MaxFrames
<1> DEFINE p == ring \o ingress
<1>1. last \in Nat /\ next \in Nat
  BY SlotTxAssumption DEF QueueInv
<1>2. Good(p, last, next) /\ Seqs(p) = Waiting
  BY <1>1, JoinedGood DEF QueueInv, Waiting
<1>3. /\ Excess = Max({0, Len(p) - Ring})
      /\ Drained = SubSeq(p, Excess + 1, Len(p))
      /\ Dropped = Seqs(SubSeq(p, 1, Excess))
  BY DEF Excess, Drained, Dropped
<1> HIDE DEF p
<1>4. p \in Seq(Entries) /\ Len(p) \in Nat
  BY <1>2 DEF Good
<1>5. Excess \in 0..Len(p) /\ Len(p) - Excess <= Ring
  <2>0. 0 \in Int /\ Len(p) - Ring \in Int
    BY <1>4, SlotTxAssumption
  <2>1. Excess \in {0, Len(p) - Ring} /\ Excess >= 0 /\ Excess >= Len(p) - Ring
    BY ONLY <1>3, <2>0, GreatestOfTwo
  <2>2. QED
    BY <1>4, <2>1, SlotTxAssumption
<1>6. IsRest(Drained, p, Excess)
  BY <1>3, <1>4, <1>5, RestOf
<1>7. /\ Good(Drained, last, next)
      /\ Waiting \subseteq Seqs(Drained) \cup {p[i].seq : i \in 1..Excess}
  BY <1>1, <1>2, <1>6, RestGood
<1>8. Len(Drained) \in Nat /\ Len(Drained) <= Ring
  BY <1>4, <1>5, <1>6 DEF IsRest
<1>9. {p[i].seq : i \in 1..Excess} \subseteq Dropped \cup {0}
  <2> DEFINE d == SubSeq(p, 1, Excess)
  <2>1. DOMAIN d = 1..Excess /\ \A i \in 1..Excess : d[i] = p[i]
    BY <1>4, <1>5
  <2> HIDE DEF d
  <2>2. {p[i].seq : i \in 1..Excess} \subseteq Seqs(d) \cup {0}
    BY <2>1 DEF Seqs
  <2>3. QED
    BY <1>3, <2>2 DEF d
<1>10. 0 \notin Waiting
  BY DEF Waiting, Seqs
<1>11. Pending \in 0..MaxFrames
  BY SlotTxAssumption DEF Pending, QueueInv
<1>12. QED
  BY <1>7, <1>8, <1>9, <1>10, <1>11

(* A new entry at the head of a good queue, with the next number or none.  *)
LEMMA AppendGood ==
  ASSUME NEW low \in Nat, NEW high \in Nat, NEW above \in Nat, NEW q, Good(q, low, high),
         NEW e \in Entries, high <= above, low < high,
         e.seq = 0 \/ e.seq = high, e.seq < above
  PROVE  /\ Good(Append(q, e), low, above) /\ Len(Append(q, e)) = Len(q) + 1
         /\ \A i \in DOMAIN Append(q, e) : Append(q, e)[i] = e \/
              \E j \in DOMAIN q : Append(q, e)[i] = q[j]
         /\ Seqs(q) \cup ({e.seq} \ {0}) \subseteq Seqs(Append(q, e))
<1> DEFINE r == Append(q, e)
<1>1. q \in Seq(Entries) /\ DOMAIN q = 1..Len(q) /\ Len(q) \in Nat
  BY DEF Good
<1>2. /\ r \in Seq(Entries) /\ Len(r) = Len(q) + 1
      /\ \A i \in 1..Len(q) : r[i] = q[i]
      /\ r[Len(q) + 1] = e
  BY <1>1
<1> HIDE DEF r
<1>3. DOMAIN r = 1..(Len(q) + 1)
  BY <1>1, <1>2
<1>4. \A i \in DOMAIN r : (i \in DOMAIN q /\ r[i] = q[i]) \/ (i = Len(q) + 1 /\ r[i] = e)
  <2> SUFFICES ASSUME NEW i \in 1..(Len(q) + 1)
               PROVE  (i \in DOMAIN q /\ r[i] = q[i]) \/ (i = Len(q) + 1 /\ r[i] = e)
    BY <1>3
  <2>1. i \in 1..Len(q) \/ i = Len(q) + 1
    BY <1>1
  <2>2. QED
    BY <1>1, <1>2, <2>1
<1>5. e.seq \in Nat /\ \A i \in DOMAIN q : q[i].seq \in Nat
  <2>1. \A i \in DOMAIN q : q[i] \in Entries
    BY <1>1
  <2>2. QED
    BY <2>1 DEF Entries
<1>6. \A i \in DOMAIN r : r[i].seq < above /\ (r[i].seq # 0 => low < r[i].seq)
  <2>1. \A i \in DOMAIN q : q[i].seq < high /\ (q[i].seq # 0 => low < q[i].seq)
    BY DEF Good
  <2>2. QED
    BY <1>4, <1>5, <2>1
<1>7. Rising(r)
  <2> SUFFICES ASSUME NEW i \in DOMAIN r, NEW j \in DOMAIN r, i < j, r[i].seq # 0, r[j].seq # 0
               PROVE  r[i].seq < r[j].seq
    BY DEF Rising
  <2>1. i \in DOMAIN q /\ r[i] = q[i]
    BY <1>1, <1>3, <1>4
  <2>2. CASE j \in DOMAIN q /\ r[j] = q[j]
    BY <2>1, <2>2 DEF Good, Rising
  <2>3. CASE r[j] = e
    BY <2>1, <2>3 DEF Good
  <2>4. QED
    BY <1>4, <2>2, <2>3
<1>8. Seqs(q) \cup ({e.seq} \ {0}) \subseteq Seqs(r)
  <2>1. Seqs(q) \subseteq Seqs(r)
    BY <1>1, <1>2, <1>3 DEF Seqs
  <2>2. Len(q) + 1 \in DOMAIN r
    BY <1>1, <1>3
  <2>3. {e.seq} \ {0} \subseteq Seqs(r)
    BY <1>2, <2>2 DEF Seqs
  <2>4. QED
    BY <2>1, <2>3
<1>9. \A i \in DOMAIN r : r[i] = e \/ \E j \in DOMAIN q : r[i] = q[j]
  BY <1>4
<1>10. QED
  BY <1>2, <1>6, <1>7, <1>8, <1>9 DEF Good, r

(* queue_audio_ingress: a new entry, and the oldest one is lost when the   *)
(* queue is full.                                                          *)
LEMMA PutKeeps ==
  ASSUME QueueInv, NEW e \in Entries, Put(e), UNCHANGED <<ring, last, deferred>>,
         next' \in 1..(MaxFrames + 1), prev_active' \in BOOLEAN,
         (e.seq = 0 /\ next' = next) \/ (e.seq = next /\ next' = next + 1)
  PROVE  QueueInv'
<1> DEFINE full == Len(ingress) = Queue
           base == IF full THEN Tail(ingress) ELSE ingress
           n    == IF full THEN 1 ELSE 0
<1>1. /\ last \in Nat /\ next \in Nat /\ last < next /\ next' \in Nat /\ next <= next' /\ e.seq < next'
      /\ ingress \in Seq(Entries) /\ Len(ingress) \in Nat /\ Len(ingress) <= Queue
  BY SlotTxAssumption DEF QueueInv, Good
<1>2. IsRest(base, ingress, n)
  <2>1. CASE full
    <3>1. Len(ingress) >= 1 /\ ingress # <<>>
      BY <1>1, <2>1, SlotTxAssumption
    <3>2. /\ Tail(ingress) \in Seq(Entries) /\ Len(Tail(ingress)) = Len(ingress) - 1
          /\ \A i \in 1..(Len(ingress) - 1) : Tail(ingress)[i] = ingress[i + 1]
      BY <1>1, <3>1
    <3>3. QED
      BY <1>1, <2>1, <3>1, <3>2 DEF IsRest
  <2>2. CASE ~full
    <3>1. IsRest(ingress, ingress, 0)
      BY <1>1 DEF IsRest
    <3>2. base = ingress /\ n = 0
      BY <2>2
    <3>3. QED
      BY <3>1, <3>2
  <2>3. QED
    BY <2>1, <2>2
<1>3. Len(base) \in Nat /\ Len(base) < Queue
  BY <1>1, <1>2, SlotTxAssumption DEF IsRest
<1>4. /\ ingress' = Append(base, e)
      /\ open' = (open \ (IF full THEN {Head(ingress).seq} ELSE {})) \cup ({e.seq} \ {0})
  BY DEF Put
<1>5. full => Head(ingress) = ingress[1]
  BY <1>1, SlotTxAssumption
<1>6. {ingress[i].seq : i \in 1..n} = IF full THEN {Head(ingress).seq} ELSE {}
  <2>1. CASE full
    BY <1>5, <2>1
  <2>2. CASE ~full
    BY <2>2
  <2>3. QED
    BY <2>1, <2>2
<1>7. \A i \in DOMAIN base : i + n \in DOMAIN ingress /\ base[i] = ingress[i + n]
  BY <1>1, <1>2 DEF IsRest
<1> HIDE DEF base, n
<1>8. Good(ingress, last, next) /\ Good(ring, last, next)
  BY DEF QueueInv
<1>9. Good(base, last, next) /\ Seqs(ingress) \subseteq Seqs(base) \cup {ingress[i].seq : i \in 1..n}
  BY <1>1, <1>2, <1>8, RestGood
<1>10. /\ Good(ingress', last, next') /\ Len(ingress') = Len(base) + 1
       /\ \A i \in DOMAIN ingress' : ingress'[i] = e \/ \E j \in DOMAIN base : ingress'[i] = base[j]
       /\ Seqs(base) \cup ({e.seq} \ {0}) \subseteq Seqs(ingress')
  BY <1>1, <1>4, <1>9, AppendGood
<1>11. Len(ingress') <= Queue
  BY <1>3, <1>10, SlotTxAssumption
<1>12. Good(ring, last, next')
  <2>1. \A i \in DOMAIN ring : ring[i].seq \in Nat
    <3>1. \A i \in DOMAIN ring : ring[i] \in Entries
      BY <1>8 DEF Good
    <3>2. QED
      BY <3>1 DEF Entries
  <2>2. QED
    BY <1>1, <1>8, <2>1 DEF Good
<1>13. Before(ring, ingress')
  <2> SUFFICES ASSUME NEW i \in DOMAIN ring, NEW j \in DOMAIN ingress',
                      ring[i].seq # 0, ingress'[j].seq # 0
               PROVE  ring[i].seq < ingress'[j].seq
    BY DEF Before
  <2>1. CASE ingress'[j] = e
    BY <1>8, <2>1 DEF Good
  <2>2. CASE \E k \in DOMAIN base : ingress'[j] = base[k]
    BY <1>7, <2>2 DEF QueueInv, Before
  <2>3. QED
    BY <1>10, <2>1, <2>2
<1>14. open' \subseteq Seqs(ring) \cup Seqs(ingress')
  BY <1>4, <1>6, <1>9, <1>10 DEF QueueInv, Waiting
<1>15. Good(ring', last', next') /\ Good(ingress', last', next') /\ Before(ring', ingress')
       /\ open' \subseteq Seqs(ring') \cup Seqs(ingress')
  BY <1>10, <1>12, <1>13, <1>14
<1>16. Len(ring') <= Ring /\ last' \in Nat /\ last' < next' /\ deferred' \in 0..MaxFrames
  BY <1>1 DEF QueueInv
<1>17. QED
  BY <1>11, <1>15, <1>16 DEF QueueInv, Good, Rising, Before, Waiting, Seqs

(* slot_tx_handler and ingress_work_handler take n entries off the drained *)
(* ring; what they leave open is still in it.                              *)
LEMMA TakeKeeps ==
  ASSUME QueueInv, ingress' = <<>>, UNCHANGED esp, NEW n, IsRest(ring', Drained, n),
         last' \in Nat, last' < next,
         \A j \in DOMAIN ring' : ring'[j].seq # 0 => last' < ring'[j].seq,
         open' \subseteq open \ Dropped,
         \A i \in 1..n : Drained[i].seq \notin open',
         deferred' \in 0..MaxFrames
  PROVE  QueueInv'
<1>1. last \in Nat /\ next \in Nat
  BY SlotTxAssumption DEF QueueInv
<1>2. /\ Good(Drained, last, next) /\ Len(Drained) \in Nat /\ Len(Drained) <= Ring
      /\ Waiting \subseteq Dropped \cup Seqs(Drained)
  BY DrainedGood
<1>3. /\ Good(ring', last, next)
      /\ Seqs(Drained) \subseteq Seqs(ring') \cup {Drained[i].seq : i \in 1..n}
  BY <1>1, <1>2, RestGood
<1>4. Good(ring', last', next)
  BY <1>3 DEF Good
<1>5. Len(ring') <= Ring
  BY <1>2, SlotTxAssumption DEF IsRest
<1>6. open' \subseteq Seqs(ring')
  <2> SUFFICES ASSUME NEW x \in open' PROVE x \in Seqs(ring')
    OBVIOUS
  <2>1. x \in Waiting /\ x \notin Dropped
    BY DEF QueueInv
  <2>2. x \in Seqs(Drained)
    BY <1>2, <2>1
  <2>3. QED
    BY <1>3, <2>2
<1>7. Good(<<>>, last', next) /\ Before(ring', <<>>) /\ Len(<<>>) <= Queue
  BY SlotTxAssumption DEF Good, Rising, Before
<1>8. next' = next /\ prev_active' = prev_active
  BY DEF esp
<1>9. /\ Good(ring', last', next') /\ Good(ingress', last', next') /\ Before(ring', ingress')
      /\ Len(ingress') <= Queue /\ open' \subseteq Seqs(ring') \cup Seqs(ingress')
  BY <1>4, <1>6, <1>7, <1>8
<1>10. next' \in 1..(MaxFrames + 1) /\ prev_active' \in BOOLEAN /\ last' < next'
  BY <1>8 DEF QueueInv
<1>11. QED
  BY <1>5, <1>9, <1>10 DEF QueueInv, Good, Rising, Before, Waiting, Seqs

(* Entries are numbered, and entry 1 of a nonempty ring is its tail.       *)
LEMMA DrainedEntries ==
  ASSUME QueueInv
  PROVE  /\ \A i \in 1..Len(Drained) : /\ Drained[i] \in Entries /\ Drained[i].seq \in 0..MaxFrames
                                       /\ Drained[i].seq \in Nat /\ Drained[i].seq < next
         /\ LocalPending => Len(Drained) >= 1
<1>1. Good(Drained, last, next) /\ Len(Drained) \in Nat
  BY DrainedGood
<1>2. \A i \in 1..Len(Drained) : Drained[i] \in Entries /\ Drained[i].seq < next
  BY <1>1 DEF Good
<1>3. \A i \in 1..Len(Drained) : Drained[i].seq \in 0..MaxFrames /\ Drained[i].seq \in Nat
  BY <1>2, SlotTxAssumption DEF Entries
<1>4. LocalPending => Len(Drained) >= 1
  BY <1>1 DEF LocalPending, Good
<1>5. QED
  BY <1>2, <1>3, <1>4

(* The drained ring as it is.                                              *)
LEMMA AllKeeps ==
  ASSUME QueueInv, ingress' = <<>>, UNCHANGED <<esp, last>>, ring' = Drained,
         open' = open \ Dropped, deferred' \in 0..MaxFrames
  PROVE  QueueInv'
<1>1. Good(Drained, last, next) /\ Len(Drained) \in Nat /\ Drained \in Seq(Entries)
  BY DrainedGood DEF Good
<1>2. IsRest(ring', Drained, 0)
  BY <1>1 DEF IsRest
<1>3. \A j \in DOMAIN ring' : ring'[j].seq # 0 => last' < ring'[j].seq
  BY <1>1 DEF Good
<1>4. last' \in Nat /\ last' < next
  BY DEF QueueInv
<1>5. QED
  BY <1>2, <1>3, <1>4, TakeKeeps

(* A transmission of entry n takes the first n entries, when the others go *)
(* on the air with it.                                                     *)
LEMMA AirKeeps ==
  ASSUME QueueInv, ingress' = <<>>, UNCHANGED esp, NEW n \in 1..Len(Drained), Consume(n),
         NEW stripped \in BOOLEAN, OnAir(Drained[n], stripped), deferred' \in 0..MaxFrames,
         \A i \in 1..n : Drained[i].seq = 0 \/ Drained[i].seq \in Carries(Drained[n], stripped)
  PROVE  QueueInv'
<1> DEFINE sent == Drained[n].seq
<1>1. /\ Good(Drained, last, next) /\ Len(Drained) \in Nat /\ Drained \in Seq(Entries)
      /\ last \in Nat /\ next \in Nat /\ last < next
  BY DrainedGood, SlotTxAssumption DEF Good, QueueInv
<1>2. IsRest(ring', Drained, n)
  BY <1>1, RestOf DEF Consume
<1>3. /\ Good(ring', last, next)
      /\ \A i \in 1..n : Drained[i].seq # 0 =>
           \A j \in DOMAIN ring' : ring'[j].seq # 0 => Drained[i].seq < ring'[j].seq
  BY <1>1, <1>2, RestGood
<1>4. sent \in Nat /\ sent < next
  BY DrainedEntries
<1>5. last' \in {last, sent} /\ last' >= last /\ last' >= sent
  <2>1. last' = Max({last, sent}) /\ last \in Int /\ sent \in Int
    BY <1>1, <1>4 DEF OnAir
  <2>2. QED
    BY ONLY <2>1, GreatestOfTwo
<1>6. last' \in Nat /\ last' < next
  BY <1>1, <1>4, <1>5
<1>7. ASSUME NEW j \in DOMAIN ring', ring'[j].seq # 0 PROVE last' < ring'[j].seq
  <2>1. last < ring'[j].seq
    BY <1>3, <1>7 DEF Good
  <2>2. CASE sent = 0
    BY <1>1, <1>4, <1>5, <2>1, <2>2
  <2>3. CASE sent # 0
    <3>1. sent < ring'[j].seq
      BY <1>3, <1>7, <2>3
    <3>2. QED
      BY <1>5, <2>1, <3>1
  <2>4. QED
    BY <2>2, <2>3
<1>8. open' = open \ (Dropped \cup Carries(Drained[n], stripped))
  BY DEF OnAir
<1>9. 0 \notin open
  BY DEF QueueInv, Waiting, Seqs
<1>10. \A i \in 1..n : Drained[i].seq \notin open'
  BY <1>8, <1>9
<1>11. QED
  BY <1>2, <1>6, <1>7, <1>8, <1>10, TakeKeeps

(* The sent entry is carried.                                              *)
LEMMA CarriesItself ==
  ASSUME NEW e, NEW stripped \in BOOLEAN
  PROVE  e.seq = 0 \/ e.seq \in Carries(e, stripped)
BY DEF Carries

(* Every step keeps the queues in order and every open frame in them.      *)
LEMMA QueueInduction == QueueInv /\ [Next]_vars => QueueInv'
<1> SUFFICES ASSUME QueueInv, [Next]_vars PROVE QueueInv'
  OBVIOUS
<1> DEFINE Same == UNCHANGED <<queues, deferred, esp, history>>
<1>1. ASSUME Same PROVE QueueInv'
  BY <1>1 DEF QueueInv, Good, Rising, Before, Waiting, Seqs, queues, esp, history
<1>2. CASE \/ \E sync \in BOOLEAN : Start(sync)
           \/ \E late \in SUBSET Windows : FrameTimer(late)
           \/ \E w \in Windows : WindowTimer(w) \/ WorkMissed(w)
           \/ AcquireBegin \/ AcquireEnd \/ StopBegin \/ RelayReceived \/ UNCHANGED vars
  <2>1. Same
    BY <1>2 DEF Start, FrameTimer, WindowTimer, WorkMissed, AcquireBegin, AcquireEnd, StopBegin,
                RelayReceived, vars, contest
  <2>2. QED
    BY <1>1, <2>1
<1>3. CASE StopEnd
  <2>1. /\ ring' = <<>> /\ ingress' = <<>> /\ open' = {} /\ deferred' = 0
        /\ next' = next /\ prev_active' = prev_active /\ last' = last
    BY <1>3 DEF StopEnd, esp
  <2>2. Good(<<>>, last, next) /\ Before(<<>>, <<>>) /\ Len(<<>>) <= Queue /\ Len(<<>>) <= Ring
    BY SlotTxAssumption DEF Good, Rising, Before
  <2>3. /\ Good(ring', last', next') /\ Good(ingress', last', next') /\ Before(ring', ingress')
        /\ Len(ring') <= Ring /\ Len(ingress') <= Queue
    BY <2>1, <2>2
  <2>4. QED
    BY <2>1, <2>3, SlotTxAssumption DEF QueueInv, Good, Rising, Before, Waiting, Seqs
<1>4. ASSUME NEW kind \in {"active", "comfort"}, NEW lost \in BOOLEAN, SendFrame(kind, lost)
      PROVE  QueueInv'
  <2> DEFINE e == Entry(next, kind, prev_active)
  <2>1. /\ next \in 1..MaxFrames /\ next' = next + 1 /\ next' \in 1..(MaxFrames + 1)
        /\ UNCHANGED <<ring, last, deferred>>
    BY <1>4, SlotTxAssumption DEF SendFrame, QueueInv, contest
  <2>2. prev_active' \in BOOLEAN
    BY <1>4 DEF SendFrame
  <2>3. CASE running /\ ~lost
    <3>1. Put(e)
      BY <1>4, <2>3 DEF SendFrame
    <3>2. e \in Entries /\ e.seq = next
      BY <2>1, SlotTxAssumption DEF Entry, Entries, QueueInv
    <3>3. QED
      BY <2>1, <2>2, <3>1, <3>2, PutKeeps
  <2>4. CASE ~(running /\ ~lost)
    <3>1. ingress' = ingress /\ open' = open /\ ring' = ring /\ last' = last
      BY <1>4, <2>1, <2>4 DEF SendFrame
    <3>2. /\ \A i \in DOMAIN ring : ring[i].seq \in Nat
          /\ \A i \in DOMAIN ingress : ingress[i].seq \in Nat
      <4>1. /\ \A i \in DOMAIN ring : ring[i] \in Entries
            /\ \A i \in DOMAIN ingress : ingress[i] \in Entries
        BY DEF QueueInv, Good
      <4>2. QED
        BY <4>1 DEF Entries
    <3>3. Good(ring, last, next') /\ Good(ingress, last, next')
      BY <2>1, <3>2 DEF QueueInv, Good
    <3>4. Good(ring', last', next') /\ Good(ingress', last', next')
      BY <3>1, <3>3
    <3>5. last' \in Nat /\ last' < next'
      BY <2>1, <3>1 DEF QueueInv
    <3>6. QED
      BY <2>1, <2>2, <3>1, <3>4, <3>5 DEF QueueInv, Good, Rising, Before, Waiting, Seqs
  <2>5. QED
    BY <2>3, <2>4
<1>5. CASE SendProbe
  <2> DEFINE e == Entry(0, "probe", FALSE)
  <2>1. Put(e) /\ UNCHANGED <<ring, last, deferred, next, prev_active>>
    BY <1>5 DEF SendProbe, contest, esp
  <2>2. e \in Entries /\ e.seq = 0
    BY SlotTxAssumption DEF Entry, Entries
  <2>3. next' \in 1..(MaxFrames + 1) /\ prev_active' \in BOOLEAN
    BY <2>1 DEF QueueInv
  <2> HIDE DEF e
  <2>4. UNCHANGED <<ring, last, deferred>> /\ next' = next
    BY <2>1
  <2>5. QED
    BY <2>1, <2>2, <2>3, <2>4, PutKeeps
<1>6. CASE IngressWork
  BY <1>6, AllKeeps, DrainedGood DEF IngressWork
<1>7. CASE SlotTx
  <2>0. 0 \in 0..MaxFrames
    BY SlotTxAssumption
  <2>1. Slot => ingress' = <<>> /\ UNCHANGED esp
    BY DEF Slot
  <2>2. CASE SlotDefer
    <3>1. Drained[1].seq \in 0..MaxFrames
      BY <2>2, DrainedEntries DEF SlotDefer, Defers
    <3>2. QED
      BY <2>1, <2>2, <3>1, AllKeeps DEF SlotDefer
  <2>3. CASE SlotSuccessorFailed
    BY <2>0, <2>1, <2>3, AllKeeps DEF SlotSuccessorFailed
  <2>4. ASSUME NEW stripped \in BOOLEAN, SlotSuccessor(stripped) PROVE QueueInv'
    <3>1. /\ Slot /\ Proven /\ OnAir(Drained[2], stripped) /\ Consume(2) /\ deferred' = 0
          /\ ~stripped
      BY <2>4 DEF SlotSuccessor, MayStrip
    <3>2. /\ 2 \in 1..Len(Drained) /\ Drained[1].seq = Pending /\ Pending # 0
          /\ Drained[2].seq = Pending + 1 /\ Drained[2].prev1 /\ Pending \in Nat
      BY <3>1, DrainedGood DEF Proven
    <3>3. Carries(Drained[2], stripped) = {Pending, Pending + 1}
      BY <3>1, <3>2 DEF Carries
    <3>4. \A i \in 1..2 : Drained[i].seq = 0 \/ Drained[i].seq \in Carries(Drained[2], stripped)
      BY <3>2, <3>3
    <3>5. QED
      BY <2>0, <2>1, <3>1, <3>2, <3>4, AirKeeps
  <2>5. ASSUME NEW stripped \in BOOLEAN, SlotLocal(stripped) PROVE QueueInv'
    <3>1. /\ Slot /\ OnAir(Drained[1], stripped) /\ Consume(1) /\ deferred' = 0 /\ LocalPending
      BY <2>5 DEF SlotLocal, Local
    <3>2. 1 \in 1..Len(Drained)
      BY <3>1, DrainedEntries, DrainedGood
    <3>3. \A i \in 1..1 : Drained[i].seq = 0 \/ Drained[i].seq \in Carries(Drained[1], stripped)
      BY CarriesItself
    <3>4. QED
      BY <2>0, <2>1, <3>1, <3>2, <3>3, AirKeeps
  <2>6. CASE SlotLocalFailed
    <3>1. /\ Slot /\ Consume(1) /\ deferred' = 0 /\ LocalPending /\ last' = last
          /\ open' = open \ (Dropped \cup {Drained[1].seq})
      BY <2>6 DEF SlotLocalFailed, Local
    <3>2. 1 \in 0..Len(Drained) /\ Good(Drained, last, next) /\ Drained \in Seq(Entries)
      BY <3>1, DrainedEntries, DrainedGood DEF Good
    <3>3. IsRest(ring', Drained, 1)
      BY <3>1, <3>2, RestOf DEF Consume
    <3>4. last \in Nat /\ next \in Nat /\ last < next
      BY SlotTxAssumption DEF QueueInv
    <3>5. Good(ring', last, next)
      BY <3>2, <3>3, <3>4, RestGood
    <3>6. \A j \in DOMAIN ring' : ring'[j].seq # 0 => last' < ring'[j].seq
      BY <3>1, <3>5 DEF Good
    <3>7. \A i \in 1..1 : Drained[i].seq \notin open'
      BY <3>1
    <3>8. QED
      BY <2>0, <2>1, <3>1, <3>3, <3>4, <3>6, <3>7, TakeKeeps
  <2>7. CASE SlotRelay \/ SlotIdle
    <3>1. /\ Slot /\ ~LocalPending /\ ring' = ring /\ open' = open /\ last' = last
          /\ deferred' = deferred
      BY <2>7 DEF SlotRelay, SlotIdle, contest, history
    <3>2. Drained = <<>> /\ Good(Drained, last, next) /\ Waiting \subseteq Dropped \cup Seqs(Drained)
      BY <3>1, DrainedGood DEF LocalPending
    <3>3. ring = <<>> /\ ingress = <<>>
      <4> DEFINE p == ring \o ingress
      <4>1. /\ p \in Seq(Entries) /\ Len(p) = Len(ring) + Len(ingress)
            /\ ring \in Seq(Entries) /\ ingress \in Seq(Entries)
        BY DEF QueueInv, Good
      <4>2. Drained = SubSeq(p, Excess + 1, Len(p)) /\ Excess = Max({0, Len(p) - Ring})
        BY DEF Drained, Excess
      <4> HIDE DEF p
      <4>3. 0 \in Int /\ Len(p) - Ring \in Int /\ Len(p) \in Nat
        BY <4>1, SlotTxAssumption
      <4>4. Excess \in {0, Len(p) - Ring} /\ Excess >= 0
        BY ONLY <4>2, <4>3, GreatestOfTwo
      <4>5. Excess \in 0..Len(p)
        BY <4>3, <4>4, SlotTxAssumption
      <4>6. IsRest(Drained, p, Excess)
        BY <4>1, <4>2, <4>5, RestOf
      <4>7. Len(p) - Excess = 0
        BY <3>2, <4>6 DEF IsRest
      <4>8. Len(p) = 0
        BY <4>3, <4>4, <4>7, SlotTxAssumption
      <4>9. Len(ring) = 0 /\ Len(ingress) = 0
        <5>1. Len(ring) \in Nat /\ Len(ingress) \in Nat
          BY <4>1
        <5>2. Len(ring) + Len(ingress) = 0
          BY <4>1, <4>8
        <5>3. QED
          BY ONLY <5>1, <5>2
      <4>10. QED
        BY <4>1, <4>9
    <3>4. ingress' = ingress
      BY <2>1, <3>1, <3>3
    <3>5. QED
      BY <1>1, <2>1, <3>1, <3>4 DEF queues, history
  <2>8. QED
    BY <1>7, <2>2, <2>3, <2>4, <2>5, <2>6, <2>7 DEF SlotTx
<1>8. QED
  BY <1>2, <1>3, <1>4, <1>5, <1>6, <1>7 DEF Next
-----------------------------------------------------------------------------
(* The turn of a relay: a slot that passes it over gives it the turn,      *)
(* unless a successor failed, which takes a deferred frame.                *)
TurnInv ==
    /\ relays \in 0..RelayRing /\ turn \in BOOLEAN /\ passed \in Nat
    /\ passed <= 2 /\ (~turn => passed <= 1)
    /\ deferred # 0 => passed = 0 /\ ~turn

(* What a slot with local traffic does to the turn.                        *)
LEMMA PassesTurn ==
  ASSUME TurnInv, Passes, ~Defers, LocalPending, UNCHANGED relays, deferred' = 0,
         \/ turn' = (RelayPending \/ turn)
         \/ turn' = FALSE /\ deferred # 0
  PROVE  TurnInv'
<1>1. RelayPending /\ Drained[1].kind = "active" => ~turn
  BY DEF Defers
<1>2. RelayPending \in BOOLEAN
  BY DEF RelayPending
<1>3. turn' \in BOOLEAN
  BY <1>2 DEF TurnInv
<1>4. CASE ~RelayPending
  BY <1>3, <1>4 DEF TurnInv, Passes
<1>5. CASE RelayPending /\ Drained[1].kind = "active"
  <2>1. passed' = passed + 1 /\ ~turn
    BY <1>1, <1>5 DEF Passes
  <2>2. passed' \in Nat /\ passed' <= 2
    BY <2>1 DEF TurnInv
  <2>3. CASE turn' = (RelayPending \/ turn)
    <3>1. turn'
      BY <1>5, <2>3
    <3>2. QED
      BY <1>3, <2>2, <3>1 DEF TurnInv
  <2>4. CASE turn' = FALSE /\ deferred # 0
    <3>1. passed' = 1
      BY <2>1, <2>4 DEF TurnInv
    <3>2. QED
      BY <1>3, <2>4, <3>1 DEF TurnInv
  <2>5. QED
    BY <2>3, <2>4
<1>6. CASE RelayPending /\ Drained[1].kind # "active"
  <2>1. passed' = passed
    BY <1>6 DEF Passes
  <2>2. CASE turn' = (RelayPending \/ turn)
    <3>1. turn'
      BY <1>6, <2>2
    <3>2. QED
      BY <1>3, <2>1, <3>1 DEF TurnInv
  <2>3. CASE turn' = FALSE /\ deferred # 0
    <3>1. passed' = 0
      BY <2>1, <2>3 DEF TurnInv
    <3>2. QED
      BY <1>3, <2>3, <3>1 DEF TurnInv
  <2>4. QED
    BY <2>2, <2>3
<1>7. QED
  BY <1>4, <1>5, <1>6

(* A relay that was sent, or a session that ended.                         *)
LEMMA TurnCleared ==
  ASSUME relays' \in 0..RelayRing, turn' = FALSE, passed' = 0
  PROVE  TurnInv'
<1>1. turn' \in BOOLEAN /\ ~turn'
  OBVIOUS
<1>2. passed' \in Nat /\ passed' <= 2 /\ passed' <= 1
  OBVIOUS
<1>3. QED
  BY <1>1, <1>2, Zenon DEF TurnInv

(* Every step keeps the turn.                                              *)
LEMMA TurnInduction == TurnInv /\ [Next]_vars => TurnInv'
<1> SUFFICES ASSUME TurnInv, [Next]_vars PROVE TurnInv'
  OBVIOUS
<1>1. ASSUME UNCHANGED contest PROVE TurnInv'
  BY <1>1 DEF TurnInv, contest
<1>2. CASE \/ \E sync \in BOOLEAN : Start(sync)
           \/ \E late \in SUBSET Windows : FrameTimer(late)
           \/ \E w \in Windows : WindowTimer(w) \/ WorkMissed(w)
           \/ AcquireBegin \/ AcquireEnd \/ StopBegin \/ SendProbe \/ UNCHANGED vars
           \/ \E kind \in {"active", "comfort"}, lost \in BOOLEAN : SendFrame(kind, lost)
  BY <1>1, <1>2 DEF Start, FrameTimer, WindowTimer, WorkMissed, AcquireBegin, AcquireEnd, StopBegin,
                    SendFrame, SendProbe, vars
<1>3. CASE StopEnd
  <2>1. relays' \in 0..RelayRing
    BY <1>3, SlotTxAssumption DEF StopEnd
  <2>2. QED
    BY <1>3, <2>1, TurnCleared DEF StopEnd
<1>4. CASE IngressWork
  BY <1>4 DEF IngressWork, Pending, TurnInv
<1>5. CASE RelayReceived
  <2>1. relays + 1 \in Nat /\ RelayRing \in Nat
    BY SlotTxAssumption DEF TurnInv
  <2>2. \E x \in {relays + 1, RelayRing} : \A y \in {relays + 1, RelayRing} : x <= y
    BY <2>1
  <2>3. Min({relays + 1, RelayRing}) \in 0..RelayRing
    BY <2>1, <2>2 DEF Min
  <2>4. QED
    BY <1>5, <2>3 DEF RelayReceived, TurnInv
<1>6. CASE SlotTx
  <2>1. CASE SlotDefer
    <3>1. relays' \in 0..RelayRing
      BY <2>1, SlotTxAssumption DEF SlotDefer, Defers, RelayPending, TurnInv
    <3>2. QED
      BY <2>1, <3>1, TurnCleared DEF SlotDefer
  <2>2. CASE SlotSuccessorFailed
    <3>1. deferred # 0
      BY <2>2 DEF SlotSuccessorFailed, Proven, Pending
    <3>2. QED
      BY <2>2, <3>1, PassesTurn DEF SlotSuccessorFailed
  <2>3. ASSUME NEW stripped \in BOOLEAN, SlotSuccessor(stripped) \/ SlotLocal(stripped)
        PROVE  TurnInv'
    BY <2>3, PassesTurn DEF SlotSuccessor, SlotLocal, Local, LocalTurn
  <2>4. CASE SlotLocalFailed
    BY <2>4, PassesTurn DEF SlotLocalFailed, Local, LocalTurn
  <2>5. CASE SlotRelay
    <3>1. relays' \in 0..RelayRing
      BY <2>5, SlotTxAssumption DEF SlotRelay, RelayPending, TurnInv
    <3>2. QED
      BY <2>5, <3>1, TurnCleared DEF SlotRelay
  <2>6. CASE SlotIdle
    BY <1>1, <2>6 DEF SlotIdle
  <2>7. QED
    BY <1>6, <2>1, <2>2, <2>3, <2>4, <2>5, <2>6 DEF SlotTx
<1>7. QED
  BY <1>2, <1>3, <1>4, <1>5, <1>6 DEF Next
-----------------------------------------------------------------------------
(* All of it, with the count of what the bound limits.                     *)
SlotInv == ScheduleInv /\ QueueInv /\ TurnInv /\ upsets \in 0..MaxUpsets

(* It holds in every reachable state.                                      *)
LEMMA SlotAlways == Spec => []SlotInv
<1>1. Init => SlotInv
  <2> SUFFICES ASSUME Init PROVE SlotInv
    OBVIOUS
  <2>1. QueueInv
    <3>1. Good(<<>>, 0, 1) /\ Before(<<>>, <<>>) /\ Len(<<>>) <= Queue /\ Len(<<>>) <= Ring
      BY SlotTxAssumption DEF Good, Rising, Before
    <3>2. Good(ring, last, next) /\ Good(ingress, last, next) /\ Before(ring, ingress)
          /\ Len(ring) <= Ring /\ Len(ingress) <= Queue
      BY <3>1 DEF Init
    <3>3. next \in 1..(MaxFrames + 1) /\ last \in Nat /\ last < next /\ deferred \in 0..MaxFrames
      BY SlotTxAssumption DEF Init
    <3>4. QED
      BY <3>2, <3>3 DEF Init, QueueInv
  <2>2. TurnInv /\ upsets \in 0..MaxUpsets
    <3>1. relays \in 0..RelayRing /\ upsets \in 0..MaxUpsets
      BY SlotTxAssumption DEF Init
    <3>2. passed \in Nat /\ passed <= 2 /\ passed <= 1 /\ deferred = 0
      BY DEF Init
    <3>3. turn \in BOOLEAN
      BY DEF Init
    <3>4. QED
      BY <3>1, <3>2, <3>3, Zenon DEF TurnInv
  <2>3. QED
    BY <2>1, <2>2, ScheduleInit DEF SlotInv
<1>2. upsets \in 0..MaxUpsets /\ [Next]_vars => upsets' \in 0..MaxUpsets
  <2>1. Upset /\ upsets \in 0..MaxUpsets => upsets' \in 0..MaxUpsets
    BY SlotTxAssumption DEF Upset
  <2>2. [Next]_vars => Upset \/ upsets' = upsets
    BY DEF Next, vars, Start, FrameTimer, WindowTimer, WorkMissed, AcquireBegin, AcquireEnd,
           StopBegin, StopEnd, SendFrame, SendProbe, IngressWork, RelayReceived, SlotTx, SlotDefer,
           SlotSuccessor, SlotSuccessorFailed, SlotLocal, SlotLocalFailed, Local, SlotRelay,
           SlotIdle, Slot
  <2>3. QED
    BY <2>1, <2>2
<1>3. SlotInv /\ [Next]_vars => SlotInv'
  BY <1>2, ScheduleNext, QueueInduction, TurnInduction DEF SlotInv
<1>4. QED
  BY <1>1, <1>3, PTL DEF Spec

(* A queue with the length it may have is a bounded sequence.              *)
LEMMA BoundedQueue ==
  ASSUME NEW n \in Nat, NEW q \in Seq(Entries), Len(q) <= n
  PROVE  q \in BoundedSeq(Entries, n)
<1>1. Len(q) \in 0..n /\ q \in [1..Len(q) -> Entries]
  OBVIOUS
<1>2. QED
  BY <1>1 DEF BoundedSeq, SeqOf

(* The timers, windows, queues and counters of the slot stay in their      *)
(* domains: s_audio_ingress_queue and s_tx_audio_ring never hold more than *)
(* their entries.                                                          *)
THEOREM TypeCorrect == Spec => []TypeOK
<1>1. SlotInv => TypeOK
  <2> SUFFICES ASSUME SlotInv PROVE TypeOK
    OBVIOUS
  <2>1. ingress \in BoundedSeq(Entries, Queue) /\ ring \in BoundedSeq(Entries, Ring)
    BY BoundedQueue, SlotTxAssumption DEF SlotInv, QueueInv, Good
  <2>2. last \in 0..MaxFrames
    BY SlotTxAssumption DEF SlotInv, QueueInv
  <2>3. Waiting \subseteq 1..MaxFrames
    <3>1. \A i \in DOMAIN ring : ring[i] \in Entries
      BY DEF SlotInv, QueueInv, Good
    <3>2. \A i \in DOMAIN ingress : ingress[i] \in Entries
      BY DEF SlotInv, QueueInv, Good
    <3>3. \A e \in Entries : e.seq # 0 => e.seq \in 1..MaxFrames
      BY SlotTxAssumption DEF Entries
    <3>4. QED
      BY <3>1, <3>2, <3>3 DEF Waiting, Seqs
  <2>4. open \subseteq 1..MaxFrames
    BY <2>3 DEF SlotInv, QueueInv
  <2>5. ScheduleType /\ TurnInv /\ QueueInv
    BY DEF SlotInv, ScheduleInv
  <2>6. QED
    BY <2>1, <2>2, <2>4, <2>5, Zenon
    DEF TypeOK, SlotInv, ScheduleType, TurnInv, QueueInv, Entries
<1>2. QED
  BY <1>1, SlotAlways, PTL

(* For queues of every size and any mix of speech, probes, relays and      *)
(* failed transmissions, deferring never loses a frame.                    *)
THEOREM FrameAccountedCorrect == Spec => []FrameAccounted
<1>1. SlotInv => FrameAccounted
  BY DEF SlotInv, QueueInv, FrameAccounted
<1>2. QED
  BY <1>1, SlotAlways, PTL

(* Frames go on the air once and in order, although a deferred frame may   *)
(* be replaced by its successor, and queues overflow.                      *)
THEOREM SentInOrderCorrect == Spec => []SentInOrder
<1>1. SlotInv => SentInOrder
  BY DEF SlotInv, QueueInv, SentInOrder, Good, Waiting, Seqs
<1>2. QED
  BY <1>1, SlotAlways, PTL

(* A waiting relay is passed over by active speech twice at the most.      *)
THEOREM RelayGetsTurnCorrect == Spec => []RelayGetsTurn
<1>1. SlotInv => RelayGetsTurn
  BY DEF SlotInv, TurnInv, RelayGetsTurn
<1>2. QED
  BY <1>1, SlotAlways, PTL
=============================================================================
