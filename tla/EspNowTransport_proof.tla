----------------------- MODULE EspNowTransport_proof -----------------------
(***************************************************************************)
(* The control queue, the bitmaps and the orderly stop of an ESP-NOW node, *)
(* proved for every queue capacity, relay ring and set of bits.            *)
(***************************************************************************)
EXTENDS EspNowTransport, WellFoundedInduction, TLAPS

Items       == [kind : Kinds, bits : SUBSET Bits]
OneOfAKind(q) == \A i, j \in DOMAIN q :
                   (i < j /\ q[i].kind = q[j].kind) => q[i].kind = "RELEASE"
(* A control queue as the handlers leave it.                               *)
Orderly(q)  == q \in Seq(Items) /\ Len(q) <= Capacity /\ OneOfAKind(q)
(* The bits that a queue's packets carry.                                  *)
Carried(q)  == UNION {q[i].bits : i \in DOMAIN q}
-----------------------------------------------------------------------------
(* A nonempty set of indices has a least element, and Min is it.           *)
LEMMA LeastIndex ==
  ASSUME NEW T \in SUBSET Nat, T # {}
  PROVE  Min(T) \in T /\ \A y \in T : Min(T) <= y
<1> DEFINE R == {ss \in Nat \X Nat : ss[1] < ss[2]}
<1>1. IsWellFoundedOn(R, Nat)
  BY NatLessThanWellFounded, Zenon DEF OpToRel
<1>2. \A x, y \in T : y < x => <<y, x>> \in R
  OBVIOUS
<1> HIDE DEF R
<1>3. PICK x \in T : \A y \in T : ~ (<<y, x>> \in R)
  BY <1>1, WFMin
<1>4. \A y \in T : ~(y < x)
  BY <1>2, <1>3, Zenon
<1>5. \A y \in T : x <= y
  BY <1>4
<1>6. QED
  BY <1>5 DEF Min

(* The least of two numbers.                                               *)
LEMMA LeastOfTwo ==
  ASSUME NEW a \in Nat, NEW b \in Nat
  PROVE  Min({a, b}) \in {a, b} /\ Min({a, b}) <= a /\ Min({a, b}) <= b
BY LeastIndex

(* A bounded sequence is a sequence that is not longer than the bound.     *)
LEMMA Bounded ==
  ASSUME NEW S, NEW n \in Nat, NEW q
  PROVE  q \in BoundedSeq(S, n) <=> q \in Seq(S) /\ Len(q) <= n
<1>1. ASSUME q \in BoundedSeq(S, n) PROVE q \in Seq(S) /\ Len(q) <= n
  <2>1. PICK k \in 0..n : q \in [1..k -> S]
    BY <1>1 DEF BoundedSeq, SeqOf
  <2>2. q \in Seq(S) /\ Len(q) = k
    BY <2>1
  <2>3. QED
    BY <2>2
<1>2. ASSUME q \in Seq(S), Len(q) <= n PROVE q \in BoundedSeq(S, n)
  <2>1. Len(q) \in 0..n /\ q \in [1..Len(q) -> S]
    BY <1>2
  <2>2. QED
    BY <2>1 DEF BoundedSeq, SeqOf
<1>3. QED
  BY <1>1, <1>2

(* Taking one packet out of a queue leaves the others in order.            *)
LEMMA Removed ==
  ASSUME NEW S, NEW q \in Seq(S), NEW i \in 1..Len(q)
  PROVE  /\ RemoveAt(q, i) \in Seq(S)
         /\ Len(RemoveAt(q, i)) = Len(q) - 1
         /\ \A j \in 1..(Len(q) - 1) : RemoveAt(q, i)[j] = IF j < i THEN q[j] ELSE q[j + 1]
<1> DEFINE front == SubSeq(q, 1, i - 1)
           back  == SubSeq(q, i + 1, Len(q))
<1>1. /\ front \in Seq(S) /\ Len(front) = i - 1
      /\ \A j \in 1..(i - 1) : front[j] = q[j]
  OBVIOUS
<1>2. /\ back \in Seq(S) /\ Len(back) = Len(q) - i
      /\ \A j \in 1..(Len(q) - i) : back[j] = q[i + j]
  OBVIOUS
<1>3. RemoveAt(q, i) = front \o back
  BY DEF RemoveAt
<1> HIDE DEF front, back
<1>4. /\ front \o back \in Seq(S) /\ Len(front \o back) = Len(q) - 1
  BY <1>1, <1>2
<1>5. ASSUME NEW j \in 1..(Len(q) - 1)
      PROVE  (front \o back)[j] = IF j < i THEN q[j] ELSE q[j + 1]
  <2>1. CASE j < i
    BY <1>1, <1>2, <2>1
  <2>2. CASE ~(j < i)
    <3>1. (front \o back)[j] = back[j - (i - 1)]
      BY <1>1, <1>2, <2>2
    <3>2. j - (i - 1) \in 1..(Len(q) - i) /\ i + (j - (i - 1)) = j + 1
      BY <2>2
    <3>3. QED
      BY <1>2, <2>2, <3>1, <3>2
  <2>3. QED
    BY <2>1, <2>2
<1>6. QED
  BY <1>3, <1>4, <1>5

(* What removing a packet does to an orderly queue: it has room, stays     *)
(* orderly, holds no kind it did not hold, and loses that packet's bits    *)
(* only.                                                                   *)
LEMMA RemovedOrderly ==
  ASSUME NEW q, Orderly(q), NEW i \in DOMAIN q
  PROVE  /\ Orderly(RemoveAt(q, i)) /\ Len(RemoveAt(q, i)) = Len(q) - 1
         /\ \A j \in DOMAIN RemoveAt(q, i) : \E k \in DOMAIN q : RemoveAt(q, i)[j] = q[k]
         /\ Carried(q) \subseteq Carried(RemoveAt(q, i)) \cup q[i].bits
<1> DEFINE r == RemoveAt(q, i)
<1>1. q \in Seq(Items) /\ i \in 1..Len(q) /\ DOMAIN q = 1..Len(q)
  BY DEF Orderly
<1>0. /\ r \in Seq(Items) /\ Len(r) = Len(q) - 1
      /\ \A j \in 1..(Len(q) - 1) : r[j] = IF j < i THEN q[j] ELSE q[j + 1]
  BY <1>1, Removed
<1> HIDE DEF r
<1>2. /\ r \in Seq(Items) /\ Len(r) = Len(q) - 1 /\ DOMAIN r = 1..(Len(q) - 1)
      /\ \A j \in 1..(Len(q) - 1) : r[j] = IF j < i THEN q[j] ELSE q[j + 1]
  BY <1>0
<1>3. OneOfAKind(r)
  <2> SUFFICES ASSUME NEW j \in DOMAIN r, NEW k \in DOMAIN r, j < k, r[j].kind = r[k].kind
               PROVE  r[j].kind = "RELEASE"
    BY DEF OneOfAKind
  <2> DEFINE old(n) == IF n < i THEN n ELSE n + 1
  <2>1. /\ old(j) \in DOMAIN q /\ old(k) \in DOMAIN q /\ old(j) < old(k)
        /\ r[j] = q[old(j)] /\ r[k] = q[old(k)]
    BY <1>1, <1>2
  <2> HIDE DEF old
  <2>2. QED
    BY <2>1 DEF Orderly, OneOfAKind
<1>4. \A j \in DOMAIN r : \E k \in DOMAIN q : r[j] = q[k]
  BY <1>1, <1>2
<1>5. Carried(q) \subseteq Carried(r) \cup q[i].bits
  <2> SUFFICES ASSUME NEW k \in DOMAIN q, NEW b \in q[k].bits, k # i
               PROVE  \E j \in DOMAIN r : b \in r[j].bits
    BY DEF Carried
  <2>1. CASE k < i
    <3>1. k \in DOMAIN r /\ r[k] = q[k]
      BY <1>1, <1>2, <2>1
    <3>2. QED
      BY <3>1
  <2>2. CASE k > i
    <3>1. k - 1 \in DOMAIN r /\ r[k - 1] = q[k]
      BY <1>1, <1>2, <2>2
    <3>2. QED
      BY <3>1
  <2>3. QED
    BY <1>1, <2>1, <2>2
<1>6. QED
  <2>1. Len(r) <= Capacity
    BY <1>1, <1>2, TransportAssumption DEF Orderly
  <2>2. QED
    BY <1>2, <1>3, <1>4, <1>5, <2>1 DEF Orderly, r

(* Priorities are 0, 1 and 2.                                              *)
LEMMA PriorityType == \A kind \in Kinds : Priority(kind) \in 0..2
BY DEF Priority, Kinds

(* enqueue_control_packet finds a victim in a queue that is not empty, and *)
(* dequeue_control_packet something to send.                               *)
LEMMA Found ==
  ASSUME NEW q \in Seq(Items), q # <<>>
  PROVE  Victim(q) \in DOMAIN q /\ Selectable(q) \subseteq DOMAIN q
<1> DEFINE P(i) == Priority(q[i].kind)
           low  == {i \in DOMAIN q : \A j \in DOMAIN q : P(i) <= P(j)}
           high == {i \in DOMAIN q : \A j \in DOMAIN q : P(i) >= P(j)}
<1>1. DOMAIN q \subseteq Nat /\ DOMAIN q # {} /\ 1 \in DOMAIN q
  OBVIOUS
<1>2. \A i \in DOMAIN q : q[i].kind \in Kinds
  <2>1. \A i \in DOMAIN q : q[i] \in Items
    OBVIOUS
  <2>2. QED
    BY <2>1 DEF Items
<1>3. \A i \in DOMAIN q : P(i) \in {0, 1, 2}
  BY <1>2, PriorityType
<1> HIDE DEF P
<1>4. low # {} /\ high # {}
  <2>1. \E i \in DOMAIN q : \A j \in DOMAIN q : P(i) <= P(j)
    <3>1. CASE \E i \in DOMAIN q : P(i) = 0
      BY <1>3, <3>1
    <3>2. CASE ~(\E i \in DOMAIN q : P(i) = 0) /\ \E i \in DOMAIN q : P(i) = 1
      BY <1>3, <3>2
    <3>3. CASE \A i \in DOMAIN q : P(i) = 2
      BY <1>1, <3>3
    <3>4. QED
      BY <1>3, <3>1, <3>2, <3>3
  <2>2. \E i \in DOMAIN q : \A j \in DOMAIN q : P(i) >= P(j)
    <3>1. CASE \E i \in DOMAIN q : P(i) = 2
      BY <1>3, <3>1
    <3>2. CASE ~(\E i \in DOMAIN q : P(i) = 2) /\ \E i \in DOMAIN q : P(i) = 1
      BY <1>3, <3>2
    <3>3. CASE \A i \in DOMAIN q : P(i) = 0
      BY <1>1, <3>3
    <3>4. QED
      BY <1>3, <3>1, <3>2, <3>3
  <2>3. QED
    BY <2>1, <2>2
<1>5. low \in SUBSET Nat /\ high \in SUBSET Nat
  BY <1>1
<1>6. Min(low) \in low /\ Min(high) \in high
  BY <1>4, <1>5, LeastIndex
<1>7. Victim(q) = Min(low) /\ Selectable(q) = {1, Min(high)}
  BY DEF Victim, Selectable, P
<1> HIDE DEF low, high
<1>8. low \subseteq DOMAIN q /\ high \subseteq DOMAIN q
  BY DEF low, high
<1>9. QED
  BY <1>1, <1>6, <1>7, <1>8

(* A packet joins a queue with room as the last one.                       *)
LEMMA Appended ==
  ASSUME NEW q, Orderly(q), Len(q) < Capacity, NEW item \in Items,
         item.kind = "RELEASE" \/ \A i \in DOMAIN q : q[i].kind # item.kind
  PROVE  /\ Orderly(Append(q, item))
         /\ Carried(q) \cup item.bits \subseteq Carried(Append(q, item))
<1> DEFINE r == Append(q, item)
<1>1. q \in Seq(Items) /\ Len(q) \in Nat /\ DOMAIN q = 1..Len(q)
  BY DEF Orderly
<1>2. /\ r \in Seq(Items) /\ Len(r) = Len(q) + 1
      /\ \A i \in 1..Len(q) : r[i] = q[i]
      /\ r[Len(q) + 1] = item
  BY <1>1
<1> HIDE DEF r
<1>3. DOMAIN r = 1..(Len(q) + 1)
  BY <1>1, <1>2
<1>4. OneOfAKind(r)
  <2> SUFFICES ASSUME NEW i \in DOMAIN r, NEW j \in DOMAIN r, i < j, r[i].kind = r[j].kind
               PROVE  r[i].kind = "RELEASE"
    BY DEF OneOfAKind
  <2>1. CASE j <= Len(q)
    <3>1. i \in DOMAIN q /\ j \in DOMAIN q /\ r[i] = q[i] /\ r[j] = q[j]
      BY <1>1, <1>2, <1>3, <2>1
    <3>2. QED
      BY <3>1 DEF Orderly, OneOfAKind
  <2>2. CASE j = Len(q) + 1
    <3>1. i \in DOMAIN q /\ r[i] = q[i] /\ r[j] = item
      BY <1>1, <1>2, <1>3, <2>2
    <3>2. QED
      BY <3>1
  <2>3. QED
    BY <1>1, <1>3, <2>1, <2>2
<1>5. Carried(q) \cup item.bits \subseteq Carried(r)
  <2>1. ASSUME NEW k \in DOMAIN q, NEW b \in q[k].bits PROVE \E j \in DOMAIN r : b \in r[j].bits
    <3>1. k \in DOMAIN r /\ r[k] = q[k]
      BY <1>1, <1>2, <1>3
    <3>2. QED
      BY <2>1, <3>1
  <2>2. ASSUME NEW b \in item.bits PROVE \E j \in DOMAIN r : b \in r[j].bits
    <3>1. Len(q) + 1 \in DOMAIN r /\ r[Len(q) + 1] = item
      BY <1>1, <1>2, <1>3
    <3>2. QED
      BY <2>2, <3>1
  <2>3. QED
    BY <2>1, <2>2 DEF Carried
<1>6. Len(r) <= Capacity
  BY <1>1, <1>2, TransportAssumption
<1>7. QED
  BY <1>2, <1>4, <1>5, <1>6 DEF Orderly, r

(* Replacing a packet merges its bits with the new ones.                   *)
LEMMA Replaced ==
  ASSUME NEW q, Orderly(q), NEW i \in DOMAIN q, NEW item \in Items
  PROVE  /\ Orderly(Replace(q, i, item).queue) /\ Replace(q, i, item).back = {}
         /\ Carried(q) \cup item.bits \subseteq Carried(Replace(q, i, item).queue)
<1> DEFINE r == Replace(q, i, item).queue
<1>1. q \in Seq(Items) /\ Len(q) \in Nat /\ DOMAIN q = 1..Len(q) /\ \A j \in DOMAIN q : q[j] \in Items
  BY DEF Orderly
<1>2. r = [q EXCEPT ![i].bits = @ \cup item.bits]
  BY DEF Replace
<1>3. [q[i] EXCEPT !.bits = @ \cup item.bits] \in Items
  BY <1>1 DEF Items
<1> DEFINE e == [q[i] EXCEPT !.bits = @ \cup item.bits]
<1>4. e.kind = q[i].kind /\ e.bits = q[i].bits \cup item.bits /\ e \in Items
  BY <1>1, <1>3 DEF Items
<1>5. r = [q EXCEPT ![i] = e]
  BY <1>2
<1> HIDE DEF r, e
<1>6. /\ r \in Seq(Items) /\ Len(r) = Len(q) /\ DOMAIN r = 1..Len(q)
      /\ \A j \in 1..Len(q) : r[j] = IF j = i THEN e ELSE q[j]
  BY <1>1, <1>4, <1>5
<1>7. \A j \in DOMAIN q : r[j].kind = q[j].kind /\ q[j].bits \subseteq r[j].bits
  BY <1>1, <1>4, <1>6
<1>8. OneOfAKind(r)
  BY <1>1, <1>6, <1>7 DEF Orderly, OneOfAKind
<1>9. item.bits \subseteq r[i].bits
  BY <1>1, <1>4, <1>6
<1>10. Carried(q) \cup item.bits \subseteq Carried(r)
  BY <1>1, <1>6, <1>7, <1>9 DEF Carried
<1>11. Replace(q, i, item).back = {}
  BY DEF Replace
<1>12. QED
  BY <1>6, <1>8, <1>10, <1>11 DEF Orderly, r

(* enqueue_control_packet, whatever it does with the packet, leaves an     *)
(* orderly queue, and every bit is in the queue or goes back to the        *)
(* bitmaps.                                                                *)
LEMMA Enqueued ==
  ASSUME NEW q, Orderly(q), NEW item \in Items
  PROVE  LET r == Enqueue(q, item)
         IN  /\ Orderly(r.queue) /\ r.back \in SUBSET Bits
             /\ Carried(q) \cup item.bits \subseteq Carried(r.queue) \cup r.back
<1> DEFINE same == Queued(q, item.kind)
<1>0. /\ q \in Seq(Items) /\ DOMAIN q = 1..Len(q) /\ Len(q) \in Nat /\ Len(q) <= Capacity
      /\ \A i \in DOMAIN q : q[i] \in Items
      /\ item.bits \in SUBSET Bits
  <2>1. q \in Seq(Items) /\ DOMAIN q = 1..Len(q) /\ Len(q) \in Nat /\ Len(q) <= Capacity
    BY DEF Orderly
  <2>2. \A i \in DOMAIN q : q[i] \in Items
    BY <2>1
  <2>3. item.bits \in SUBSET Bits
    BY DEF Items
  <2>4. QED
    BY <2>1, <2>2, <2>3
<1>1. CASE stopping
  BY <1>0, <1>1 DEF Enqueue
<1>2. CASE ~stopping /\ Replaceable(item.kind) /\ same # {}
  <2>1. same \in SUBSET Nat /\ same \subseteq DOMAIN q
    BY <1>0 DEF Queued
  <2>2. Min(same) \in DOMAIN q
    BY <1>2, <2>1, LeastIndex
  <2>3. Enqueue(q, item) = Replace(q, Min(same), item)
    BY <1>2 DEF Enqueue
  <2>4. QED
    BY <2>2, <2>3, Replaced
<1>3. CASE ~stopping /\ ~(Replaceable(item.kind) /\ same # {})
  <2>1. item.kind = "RELEASE" \/ \A i \in DOMAIN q : q[i].kind # item.kind
    BY <1>3 DEF Replaceable, Queued
  <2>2. CASE Len(q) < Capacity
    <3>1. Enqueue(q, item) = [queue |-> Append(q, item), back |-> {}]
      BY <1>3, <2>2 DEF Enqueue
    <3>2. QED
      BY <2>1, <2>2, <3>1, Appended
  <2>3. CASE ~(Len(q) < Capacity) /\ Rejected(q, item)
    <3>1. Enqueue(q, item) = [queue |-> q, back |-> item.bits]
      BY <1>3, <2>3 DEF Enqueue
    <3>2. QED
      BY <1>0, <3>1
  <2>4. CASE ~(Len(q) < Capacity) /\ ~Rejected(q, item)
    <3>1. Enqueue(q, item) = Evict(q, item)
      BY <1>3, <2>4 DEF Enqueue
    <3>2. Len(q) = Capacity /\ q # <<>>
      <4>0. Len(q) \in Nat /\ Len(q) <= Capacity /\ ~(Len(q) < Capacity)
        BY <1>0, <2>4
      <4>1. Len(q) = Capacity /\ Len(q) > 0
        BY <4>0, TransportAssumption
      <4>2. QED
        BY <4>1
    <3>3. Victim(q) \in DOMAIN q
      BY <1>0, <3>2, Found
    <3> DEFINE v == Victim(q)
               rest == RemoveAt(q, v)
    <3>4. /\ Orderly(rest) /\ Len(rest) = Len(q) - 1
          /\ \A j \in DOMAIN rest : \E k \in DOMAIN q : rest[j] = q[k]
          /\ Carried(q) \subseteq Carried(rest) \cup q[v].bits
      BY <3>3, RemovedOrderly
    <3>5. q[v].bits \in SUBSET Bits
      BY <1>0, <3>3 DEF Items
    <3>6. Evict(q, item) = [queue |-> Append(rest, item), back |-> q[v].bits]
      BY DEF Evict
    <3> HIDE DEF rest, v
    <3>7. item.kind = "RELEASE" \/ \A j \in DOMAIN rest : rest[j].kind # item.kind
      BY <2>1, <3>4
    <3>8. Len(rest) < Capacity
      BY <1>0, <3>2, <3>4
    <3>9. /\ Orderly(Append(rest, item))
          /\ Carried(rest) \cup item.bits \subseteq Carried(Append(rest, item))
      BY <3>4, <3>7, <3>8, Appended
    <3>10. QED
      BY <3>1, <3>4, <3>5, <3>6, <3>9
  <2>5. QED
    BY <2>2, <2>3, <2>4
<1>4. QED
  BY <1>1, <1>2, <1>3

(* The result of some packets sent: an orderly queue, bits, and none lost. *)
Sound(r, set) == /\ Orderly(r.queue) /\ r.back \in SUBSET Bits
                 /\ set \subseteq Carried(r.queue) \cup r.back

(* One more packet keeps the result sound.                                 *)
LEMMA SentOne ==
  ASSUME NEW r, NEW set, Sound(r, set), NEW kind \in Kinds
  PROVE  Sound(Send(r, kind), set)
<1> DEFINE e == Enqueue(r.queue, Item(kind, {}))
<1>1. Item(kind, {}) \in Items
  BY DEF Item, Items
<1>2. Orderly(e.queue) /\ e.back \in SUBSET Bits /\ Carried(r.queue) \subseteq Carried(e.queue) \cup e.back
  BY <1>1, Enqueued DEF Sound
<1>3. Send(r, kind) = [queue |-> e.queue, back |-> r.back \cup e.back]
  BY DEF Send
<1> HIDE DEF e
<1>4. QED
  BY <1>2, <1>3 DEF Sound

(* The packets that handlers send.                                         *)
Bursts == {<<>>, <<"GRANT">>, <<"RELEASE", "GRANT">>, <<"RELEASE", "RELEASE", "GRANT">>,
           <<"JOIN_ACK">>, <<"JOIN_ACK", "SLOT_MAP">>, <<"KEEPALIVE">>} \cup TimeoutPackets

(* However many packets a handler sends, no bit is lost.                   *)
LEMMA SentAll ==
  ASSUME Orderly(control), NEW set \in SUBSET Bits, NEW kinds \in Bursts
  PROVE  Sound(SendAll(kinds, set), Carried(control) \cup set)
<1> DEFINE all    == Carried(control) \cup set
           start  == [queue |-> control, back |-> set]
           first  == IF Len(kinds) > 0 THEN Send(start, kinds[1]) ELSE start
           second == IF Len(kinds) > 1 THEN Send(first, kinds[2]) ELSE first
           third  == IF Len(kinds) > 2 THEN Send(second, kinds[3]) ELSE second
           fourth == IF Len(kinds) > 3 THEN Send(third, kinds[4]) ELSE third
<1>1. /\ Len(kinds) \in 0..4
      /\ Len(kinds) > 0 => kinds[1] \in Kinds
      /\ Len(kinds) > 1 => kinds[2] \in Kinds
      /\ Len(kinds) > 2 => kinds[3] \in Kinds
      /\ Len(kinds) > 3 => kinds[4] \in Kinds
  BY DEF Bursts, TimeoutPackets, Kinds
<1>2. Sound(start, all)
  BY DEF Sound
<1>3. SendAll(kinds, set) = fourth
  BY DEF SendAll
<1> HIDE DEF start, all
<1>4. Sound(first, all)
  BY <1>1, <1>2, SentOne
<1> HIDE DEF first
<1>5. Sound(second, all)
  BY <1>1, <1>4, SentOne
<1> HIDE DEF second
<1>6. Sound(third, all)
  BY <1>1, <1>5, SentOne
<1> HIDE DEF third
<1>7. Sound(fourth, all)
  BY <1>1, <1>6, SentOne
<1>8. QED
  BY <1>3, <1>7 DEF all
-----------------------------------------------------------------------------
(* The phases of a session and of mesh_stop: an idle node does nothing;    *)
(* once the timers are stopped nothing is current and no frame boundary is *)
(* being served; once the task is gone it stays away, and so do producers; *)
(* a LEAVE waits for the callbacks and the frame in flight, unless the     *)
(* driver is shut down.                                                    *)
TimersOff == stop \in {"quiesce", "leave", "drain", "force", "clear"}
Emptied   == stop \in {"leave", "drain", "force", "clear"}
Phases ==
    /\ stopping => state # "idle"
    /\ task = "boundary" => state = "active"
    /\ TimersOff => ~timer /\ task # "boundary" /\ "current" \notin {event, slot, window}
    /\ Emptied => task = "none" /\ ~producing
    /\ stop \in {"leave", "drain", "clear"} => rx_callbacks = 0
    /\ stop \in {"leave", "clear"} => inflight = NoFrame

(* The types of what is not the status.                                    *)
SessionType ==
    /\ state \in {"idle", "scanning", "active"}
    /\ role \in {"none", "coordinator", "participant"}
    /\ stop \in {"none", "timers", "quiesce", "leave", "drain", "force", "clear"}
    /\ was_active \in BOOLEAN /\ task \in {"none", "loop", "work", "boundary", "window"}
    /\ timer \in BOOLEAN /\ event \in Signal /\ slot \in Signal /\ window \in Signal
    /\ producing \in BOOLEAN
    /\ rx_callbacks \in 0..1 /\ rx_queue \in Nat /\ tx_queue \in Nat /\ relays \in 0..RelayRing

(* The status: what the bitmaps and the packets hold.                      *)
StatusInv ==
    /\ Orderly(control)
    /\ bits \in SUBSET Bits /\ unreported \in SUBSET Bits
    /\ inflight \in [kind : {"none", "LEAVE", "other"}, bits : SUBSET Bits]
    /\ unreported \subseteq bits \cup Carried(control) \cup inflight.bits

SessionInv == SessionType /\ Phases /\ QuietWhenIdle /\ NoStaleSchedule

(* Every step of every thread keeps the phases: an idle node stays quiet,  *)
(* and nothing is scheduled outside a session.                             *)
LEMMA SessionInduction == SessionInv /\ [Next]_vars => SessionInv'
<1> SUFFICES ASSUME SessionInv, [Next]_vars PROVE SessionInv'
  OBVIOUS
<1> USE TransportAssumption
    DEF SessionInv, SessionType, Phases, QuietWhenIdle, NoStaleSchedule, TimersOff, Emptied,
        Signal, stopping, life, tdma, inputs, status
<1>1. CASE Start
  BY <1>1 DEF Start
<1>2. CASE StopBegin
  BY <1>2 DEF StopBegin
<1>3. CASE StopTimers
  BY <1>3 DEF StopTimers, MutexFree, Late
<1>4. CASE StopLeave
  BY <1>4 DEF StopLeave, Transmit, MaySend
<1>5. CASE StopForce
  BY <1>5 DEF StopForce
<1>6. CASE StopClear
  <2>1. SessionType'
    <3>1. rx_queue' \in Nat /\ tx_queue' \in Nat /\ relays' \in 0..RelayRing
      BY <1>6 DEF StopClear, ClearTransient
    <3>2. QED
      BY <1>6, <3>1, Zenon DEF StopClear, ClearTransient
  <2>2. Phases'
    BY <1>6 DEF StopClear, ClearTransient
  <2>3. QuietWhenIdle'
    BY <1>6 DEF StopClear, ClearTransient
  <2>4. NoStaleSchedule'
    BY <1>6 DEF StopClear, ClearTransient
  <2>5. QED
    BY <2>1, <2>2, <2>3, <2>4
<1>7. CASE \E in_time \in BOOLEAN : StopQuiesce(in_time)
  BY <1>7 DEF StopQuiesce, Quiet
<1>8. CASE \E in_time \in BOOLEAN : StopDrain(in_time)
  BY <1>8 DEF StopDrain
<1>9. CASE TaskLoop
  BY <1>9 DEF TaskLoop, TaskExit
<1>10. CASE EndTurn
  BY <1>10 DEF EndTurn
<1>11. CASE SendJoin
  BY <1>11 DEF SendJoin, Transmit, MaySend
<1>12. CASE ScanTimeout
  BY <1>12 DEF ScanTimeout, Unschedule, Late, Armed
<1>13. CASE JoinDeadline
  BY <1>13 DEF JoinDeadline, ClearTransient
<1>14. CASE JoinAccepted
  BY <1>14 DEF JoinAccepted
<1>15. CASE HandleAudio
  <2>1. Min({relays + 1, RelayRing}) \in 0..RelayRing
    BY LeastOfTwo
  <2>2. QED
    BY <1>15, <2>1 DEF HandleAudio, Packet
<1>16. CASE HandleJoin
  BY <1>16 DEF HandleJoin, Packet
<1>17. CASE HandleLeave
  BY <1>17 DEF HandleLeave, Packet
<1>18. CASE HandleSync
  BY <1>18 DEF HandleSync, Packet, Unschedule, Late, Armed
<1>19. CASE HandleOther
  BY <1>19 DEF HandleOther, Packet
<1>20. CASE SendKeepalive
  BY <1>20 DEF SendKeepalive
<1>21. CASE SendStatus
  BY <1>21 DEF SendStatus
<1>22. CASE PeerTimeout
  BY <1>22 DEF PeerTimeout
<1>23. CASE CoordinatorLost
  <2>1. SessionType'
    <3>1. rx_queue' \in Nat /\ tx_queue' \in Nat /\ relays' \in 0..RelayRing
      BY <1>23 DEF CoordinatorLost, Unschedule, Late, ClearTransient
    <3>2. QED
      BY <1>23, <3>1, Zenon DEF CoordinatorLost, Unschedule, Late, ClearTransient
  <2>2. Phases'
    BY <1>23 DEF CoordinatorLost, Unschedule, Late, ClearTransient
  <2>3. QuietWhenIdle'
    BY <1>23 DEF CoordinatorLost, Unschedule, Late, ClearTransient
  <2>4. NoStaleSchedule'
    BY <1>23 DEF CoordinatorLost, Unschedule, Late, ClearTransient
  <2>5. QED
    BY <2>1, <2>2, <2>3, <2>4
<1>24. CASE SlotAudio
  BY <1>24 DEF SlotAudio, SlotTaken, Transmit, MaySend
<1>25. CASE SlotRelay
  BY <1>25 DEF SlotRelay, SlotTaken, Transmit, MaySend
<1>26. CASE RxEnter
  BY <1>26 DEF RxEnter, rx_enabled
<1>27. CASE RxPut
  BY <1>27 DEF RxPut
<1>28. CASE ProducerEnter
  BY <1>28 DEF ProducerEnter
<1>29. CASE ProducerPut
  <2>1. SessionType'
    <3>1. rx_queue' \in Nat /\ tx_queue' \in Nat /\ relays' \in 0..RelayRing
      BY <1>29 DEF ProducerPut
    <3>2. QED
      BY <1>29, <3>1, Zenon DEF ProducerPut
  <2>2. Phases'
    BY <1>29 DEF ProducerPut
  <2>3. QuietWhenIdle'
    BY <1>29 DEF ProducerPut
  <2>4. NoStaleSchedule'
    BY <1>29 DEF ProducerPut
  <2>5. QED
    BY <2>1, <2>2, <2>3, <2>4
<1>30. CASE FrameTimer
  BY <1>30 DEF FrameTimer
<1>31. CASE \E ok \in BOOLEAN : SendDone(ok)
  BY <1>31 DEF SendDone
<1>32. CASE BoundaryBegin
  BY <1>32 DEF BoundaryBegin, Armed
<1>33. CASE \E own \in BOOLEAN : BoundaryEnd(own)
  BY <1>33 DEF BoundaryEnd
<1>34. CASE SlotMissed
  BY <1>34 DEF SlotMissed
<1>35. CASE WindowMissed
  BY <1>35 DEF WindowMissed
<1>36. CASE WindowOpen
  BY <1>36 DEF WindowOpen
<1>37. CASE WindowSync
  BY <1>37 DEF WindowSync, Transmit, MaySend
<1>38. CASE WindowControl
  BY <1>38 DEF WindowControl, Transmit, MaySend
<1>39. CASE UNCHANGED vars
  BY <1>39 DEF vars
<1>40. QED
  BY <1>1, <1>2, <1>3, <1>4, <1>5, <1>6, <1>7, <1>8, <1>9, <1>10, <1>11, <1>12, <1>13, <1>14, <1>15, <1>16, <1>17, <1>18, <1>19, <1>20, <1>21, <1>22, <1>23, <1>24, <1>25, <1>26, <1>27, <1>28, <1>29, <1>30, <1>31, <1>32, <1>33, <1>34, <1>35, <1>36, <1>37, <1>38, <1>39
  DEF Next, Stop, Work, Callbacks

(* Of nothing in flight no bit is in flight.                               *)
LEMMA NoBits == NoFrame.bits = {} /\ NoFrame.kind = "none" /\
                NoFrame \in [kind : {"none", "LEAVE", "other"}, bits : SUBSET Bits]
BY DEF NoFrame

(* A handler that notes speech or a relay and sends packets loses no bit.  *)
LEMMA NoteKeeps ==
  ASSUME StatusInv, NEW set \in SUBSET Bits, NEW packets \in Bursts, Note(set, packets),
         inflight' = inflight \/ (inflight = NoFrame /\
           inflight' \in [kind : {"none", "LEAVE", "other"}, bits : SUBSET Bits])
  PROVE  StatusInv'
<1> DEFINE r == SendAll(packets, bits \cup set)
<1>1. bits \cup set \in SUBSET Bits /\ Orderly(control)
  BY DEF StatusInv
<1>2. Sound(r, Carried(control) \cup (bits \cup set))
  BY <1>1, SentAll
<1>3. control' = r.queue /\ bits' = r.back /\ unreported' = unreported \cup set
  BY DEF Note
<1> HIDE DEF r
<1>4. Orderly(control') /\ bits' \in SUBSET Bits /\ unreported' \in SUBSET Bits
  BY <1>2, <1>3 DEF Sound, StatusInv
<1>5. Carried(control) \cup bits \cup set \subseteq Carried(control') \cup bits'
  BY <1>2, <1>3 DEF Sound
<1>6. inflight' \in [kind : {"none", "LEAVE", "other"}, bits : SUBSET Bits]
      /\ inflight.bits \subseteq inflight'.bits
  BY NoBits DEF StatusInv
<1>7. unreported' \subseteq bits' \cup Carried(control') \cup inflight'.bits
  BY <1>3, <1>5, <1>6 DEF StatusInv
<1>8. QED
  BY <1>4, <1>6, <1>7 DEF StatusInv, Orderly, Carried, OneOfAKind

(* A frame that starts to be sent carries the bits of its packet.          *)
LEMMA TransmitType ==
  ASSUME NEW kind, NEW set \in SUBSET Bits, Transmit(kind, set)
  PROVE  /\ inflight' \in [kind : {"none", "LEAVE", "other"}, bits : SUBSET Bits]
         /\ inflight = NoFrame /\ inflight'.bits = set
BY DEF Transmit, MaySend

(* The grant packets are among the bursts.                                 *)
LEMMA GrantBursts == GrantPackets \subseteq Bursts
BY DEF GrantPackets, Bursts

(* clear_transient_mesh_state leaves no bit to be reported.                *)
LEMMA ClearKeeps ==
  ASSUME StatusInv, ClearTransient, inflight' = inflight
  PROVE  StatusInv'
<1>1. Orderly(<<>>)
  BY TransportAssumption DEF Orderly, OneOfAKind
<1>2. control' = <<>> /\ bits' = {} /\ unreported' = {}
  BY DEF ClearTransient
<1>3. Orderly(control')
  BY <1>1, <1>2
<1>4. QED
  BY <1>2, <1>3 DEF StatusInv, Orderly, Carried, OneOfAKind

(* Where the status and the frame in flight do not change.                 *)
LEMMA StatusSame ==
  ASSUME StatusInv, UNCHANGED <<status, inflight>>
  PROVE  StatusInv'
BY DEF StatusInv, status, Orderly, Carried, OneOfAKind

(* Where only a frame without bits starts to be sent.                      *)
LEMMA StatusFrame ==
  ASSUME StatusInv, UNCHANGED status, NEW kind, Transmit(kind, {})
  PROVE  StatusInv'
<1>1. /\ inflight' \in [kind : {"none", "LEAVE", "other"}, bits : SUBSET Bits]
      /\ inflight.bits = {}
  BY TransmitType, NoBits
<1>2. control' = control /\ bits' = bits /\ unreported' = unreported
  BY DEF status
<1>3. Orderly(control')
  BY <1>2 DEF StatusInv
<1>4. QED
  BY <1>1, <1>2, <1>3 DEF StatusInv, Orderly, Carried, OneOfAKind

(* Every step of every thread keeps the control queue orderly and every    *)
(* unreported bit in a bitmap, a queued packet or the frame in flight.     *)
LEMMA StatusInduction == StatusInv /\ [Next]_vars => StatusInv'
<1> SUFFICES ASSUME StatusInv, [Next]_vars PROVE StatusInv'
  OBVIOUS
<1>1. CASE Start \/ StopBegin \/ StopTimers \/ (\E in_time \in BOOLEAN : StopQuiesce(in_time))
          \/ (\E in_time \in BOOLEAN : StopDrain(in_time)) \/ TaskLoop \/ EndTurn \/
          ScanTimeout \/ JoinAccepted \/ HandleSync \/ HandleOther \/ RxEnter \/
          RxPut \/ ProducerEnter \/ ProducerPut \/ FrameTimer \/ BoundaryBegin \/
          (\E own \in BOOLEAN : BoundaryEnd(own)) \/ SlotMissed \/ WindowMissed \/
          WindowOpen
  BY <1>1, StatusSame
  DEF Start, StopBegin, StopTimers, StopQuiesce, StopDrain, TaskLoop, EndTurn,
      ScanTimeout, JoinAccepted, HandleSync, HandleOther, RxEnter, RxPut,
      ProducerEnter, ProducerPut, FrameTimer, BoundaryBegin, BoundaryEnd,
      SlotMissed, WindowMissed, WindowOpen, Packet, life, tdma, inputs
<1>2. CASE StopClear
  BY <1>2, ClearKeeps DEF StopClear
<1>3. CASE JoinDeadline
  BY <1>3, ClearKeeps DEF JoinDeadline
<1>4. CASE CoordinatorLost
  BY <1>4, ClearKeeps DEF CoordinatorLost
<1>5. CASE StopLeave
  <2>1. CASE Transmit("LEAVE", {})
    BY <1>5, <2>1, StatusFrame DEF StopLeave
  <2>2. CASE inflight' = inflight
    BY <1>5, <2>2, StatusSame DEF StopLeave
  <2>3. QED
    BY <1>5, <2>1, <2>2 DEF StopLeave
<1>6. CASE SendJoin
  BY <1>6, StatusFrame DEF SendJoin
<1>7. CASE WindowSync
  BY <1>7, StatusFrame DEF WindowSync
<1>8. CASE StopForce
  <2>1. control' = control /\ unreported' = unreported
        /\ bits' = bits \cup inflight.bits /\ inflight' = NoFrame
    BY <1>8 DEF StopForce
  <2>2. Orderly(control') /\ bits' \in SUBSET Bits
    BY <2>1 DEF StatusInv
  <2>3. QED
    BY <2>1, <2>2, NoBits DEF StatusInv, Orderly, Carried, OneOfAKind
<1>9. CASE \E ok \in BOOLEAN : SendDone(ok)
  <2>1. PICK ok \in BOOLEAN : SendDone(ok)
    BY <1>9
  <2>2. control' = control /\ inflight' = NoFrame /\ Carried(control') = Carried(control)
    BY <2>1 DEF SendDone
  <2>3. Orderly(control') /\ Waiting = Carried(control)
    BY <2>2 DEF StatusInv, Waiting, Carried
  <2>4. CASE ok
    <3>1. /\ bits' = bits
          /\ unreported' = unreported \ (inflight.bits \ (bits \cup Carried(control)))
      BY <2>1, <2>3, <2>4 DEF SendDone, Restored
    <3>2. unreported' \subseteq bits' \cup Carried(control')
      BY <2>2, <3>1 DEF StatusInv
    <3>3. bits' \in SUBSET Bits /\ unreported' \in SUBSET Bits
      BY <3>1 DEF StatusInv
    <3>4. QED
      BY <2>2, <2>3, <3>2, <3>3, NoBits DEF StatusInv, Orderly, Carried, OneOfAKind
  <2>5. CASE ~ok
    <3>1. bits' = bits \cup inflight.bits /\ unreported' = unreported
      BY <2>1, <2>5 DEF SendDone, Restored
    <3>2. unreported' \subseteq bits' \cup Carried(control') /\ bits' \in SUBSET Bits
      BY <2>2, <3>1 DEF StatusInv
    <3>3. QED
      BY <2>2, <2>3, <3>1, <3>2, NoBits DEF StatusInv, Orderly, Carried, OneOfAKind
  <2>6. QED
    BY <2>4, <2>5
<1>10. CASE HandleAudio
  <2>1. PICK packets \in GrantPackets, set \in SUBSET Bits : Note(set, packets)
    BY <1>10 DEF HandleAudio
  <2>2. QED
    BY <1>10, <2>1, GrantBursts, NoteKeeps DEF HandleAudio, Packet
<1>11. CASE HandleJoin
  <2>1. PICK packets \in {<<"JOIN_ACK">>, <<"JOIN_ACK", "SLOT_MAP">>} : Note({}, packets)
    BY <1>11 DEF HandleJoin
  <2>2. packets \in Bursts /\ {} \in SUBSET Bits
    BY DEF Bursts
  <2>3. QED
    BY <1>11, <2>1, <2>2, NoteKeeps DEF HandleJoin, Packet
<1>12. CASE PeerTimeout
  <2>1. PICK packets \in TimeoutPackets : Note({}, packets)
    BY <1>12 DEF PeerTimeout
  <2>2. packets \in Bursts /\ {} \in SUBSET Bits
    BY DEF Bursts
  <2>3. QED
    BY <1>12, <2>1, <2>2, NoteKeeps DEF PeerTimeout
<1>13. CASE HandleLeave
  <2>1. <<"SLOT_MAP">> \in Bursts /\ {} \in SUBSET Bits
    BY DEF Bursts, TimeoutPackets
  <2>2. QED
    BY <1>13, <2>1, NoteKeeps DEF HandleLeave, Packet
<1>14. CASE SendKeepalive
  <2>1. <<"KEEPALIVE">> \in Bursts /\ {} \in SUBSET Bits
    BY DEF Bursts
  <2>2. QED
    BY <1>14, <2>1, NoteKeeps DEF SendKeepalive
<1>15. CASE SlotAudio
  <2>1. PICK packets \in GrantPackets, set \in SUBSET Bits : Note(set, packets)
    BY <1>15 DEF SlotAudio
  <2>2. Transmit("AUDIO", {})
    BY <1>15 DEF SlotAudio
  <2>3. QED
    BY <2>1, <2>2, GrantBursts, TransmitType, NoteKeeps
<1>16. CASE SlotRelay
  <2>1. PICK bit \in Bits : Note({bit}, <<>>)
    BY <1>16 DEF SlotRelay
  <2>2. Transmit("AUDIO", {})
    BY <1>16 DEF SlotRelay
  <2>3. {bit} \in SUBSET Bits /\ <<>> \in Bursts
    BY DEF Bursts
  <2>4. QED
    BY <2>1, <2>2, <2>3, TransmitType, NoteKeeps
<1>17. CASE SendStatus
  <2>1. PICK packets \in GrantPackets :
          LET granted == SendAll(packets, bits)
              result  == Enqueue(granted.queue, Item("STATUS", granted.back))
          IN  control' = result.queue /\ bits' = result.back
    BY <1>17 DEF SendStatus
  <2> DEFINE granted == SendAll(packets, bits)
             result  == Enqueue(granted.queue, Item("STATUS", granted.back))
  <2>2. control' = result.queue /\ bits' = result.back
    BY <2>1
  <2>3. Sound(granted, Carried(control) \cup bits)
    BY GrantBursts, SentAll DEF StatusInv
  <2> HIDE DEF granted
  <2>4. Item("STATUS", granted.back) \in Items /\ Item("STATUS", granted.back).bits = granted.back
    BY <2>3 DEF Sound, Item, Items, Kinds
  <2>5. /\ Orderly(result.queue) /\ result.back \in SUBSET Bits
        /\ Carried(granted.queue) \cup granted.back \subseteq Carried(result.queue) \cup result.back
    BY <2>3, <2>4, Enqueued DEF Sound
  <2> HIDE DEF result
  <2>6. /\ Orderly(control') /\ bits' \in SUBSET Bits
        /\ Carried(control) \cup bits \subseteq Carried(control') \cup bits'
    BY <2>2, <2>3, <2>5 DEF Sound
  <2>7. inflight' = inflight /\ unreported' = unreported
    BY <1>17 DEF SendStatus
  <2>8. QED
    BY <2>6, <2>7 DEF StatusInv, Orderly, Carried, OneOfAKind
<1>18. CASE WindowControl
  <2>1. PICK i \in Selectable(control) :
          /\ control' = RemoveAt(control, i)
          /\ \/ Transmit(control[i].kind, control[i].bits) /\ UNCHANGED bits
             \/ inflight' = inflight /\ bits' = bits \cup control[i].bits
    BY <1>18 DEF WindowControl
  <2>2. inflight = NoFrame /\ control # <<>> /\ unreported' = unreported
    BY <1>18 DEF WindowControl
  <2>3. i \in DOMAIN control
    BY <2>2, Found DEF StatusInv, Orderly
  <2>4. /\ Orderly(control')
        /\ Carried(control) \subseteq Carried(control') \cup control[i].bits
    BY <2>1, <2>3, RemovedOrderly DEF StatusInv
  <2>5. control[i].bits \in SUBSET Bits
    <3>1. control[i] \in Items
      BY <2>3 DEF StatusInv, Orderly
    <3>2. QED
      BY <3>1 DEF Items
  <2>6. CASE Transmit(control[i].kind, control[i].bits) /\ UNCHANGED bits
    <3>1. /\ inflight' \in [kind : {"none", "LEAVE", "other"}, bits : SUBSET Bits]
          /\ inflight'.bits = control[i].bits /\ inflight.bits = {} /\ bits' = bits
      BY <2>5, <2>6, TransmitType, NoBits
    <3>2. unreported' \subseteq bits' \cup Carried(control') \cup inflight'.bits
      BY <2>2, <2>4, <3>1 DEF StatusInv
    <3>3. QED
      BY <2>2, <2>4, <3>1, <3>2 DEF StatusInv, Orderly, Carried, OneOfAKind
  <2>7. CASE inflight' = inflight /\ bits' = bits \cup control[i].bits
    <3>1. bits' \in SUBSET Bits
      BY <2>5, <2>7 DEF StatusInv
    <3>2. unreported' \subseteq bits' \cup Carried(control') \cup inflight'.bits
      BY <2>2, <2>4, <2>7 DEF StatusInv
    <3>3. QED
      BY <2>2, <2>4, <2>7, <3>1, <3>2 DEF StatusInv, Orderly, Carried, OneOfAKind
  <2>8. QED
    BY <2>1, <2>6, <2>7
<1>19. CASE UNCHANGED vars
  BY <1>19, StatusSame DEF vars
<1>20. QED
  BY <1>1, <1>2, <1>3, <1>4, <1>5, <1>6, <1>7, <1>8, <1>9, <1>10, <1>11,
     <1>12, <1>13, <1>14, <1>15, <1>16, <1>17, <1>18, <1>19
  DEF Next, Stop, Work, Callbacks
-----------------------------------------------------------------------------
(* The invariant of the transport.                                         *)
TransportInv == SessionInv /\ StatusInv

(* It holds in every reachable state.                                      *)
LEMMA TransportAlways == Spec => []TransportInv
<1>1. Init => TransportInv
  <2>1. Init => SessionInv
    <3> SUFFICES ASSUME Init PROVE SessionInv
      OBVIOUS
    <3>1. rx_callbacks \in 0..1 /\ rx_queue \in Nat /\ tx_queue \in Nat /\ relays \in 0..RelayRing
      BY TransportAssumption DEF Init
    <3>2. SessionType
      BY <3>1, Zenon DEF Init, SessionType, Signal
    <3>3. Phases /\ QuietWhenIdle /\ NoStaleSchedule
      BY DEF Init, Phases, QuietWhenIdle, NoStaleSchedule, TimersOff, Emptied, stopping
    <3>4. QED
      BY <3>2, <3>3 DEF SessionInv
  <2>2. Init => StatusInv
    BY TransportAssumption, NoBits DEF Init, StatusInv, Orderly, OneOfAKind, Carried
  <2>3. QED
    BY <2>1, <2>2 DEF TransportInv
<1>2. TransportInv /\ [Next]_vars => TransportInv'
  BY SessionInduction, StatusInduction DEF TransportInv
<1>3. QED
  BY <1>1, <1>2, PTL DEF Spec

(* Every variable of the transport stays in its domain, the control queue  *)
(* within MESH_CONTROL_QUEUE_CAPACITY and without two packets of a kind    *)
(* that enqueue_control_packet replaces.                                   *)
THEOREM TypeCorrect == Spec => []TypeOK
<1>1. TransportInv => TypeOK
  <2> SUFFICES ASSUME TransportInv PROVE TypeOK
    OBVIOUS
  <2>1. control \in BoundedSeq([kind : Kinds, bits : SUBSET Bits], Capacity)
    BY Bounded, TransportAssumption DEF TransportInv, StatusInv, Orderly, Items
  <2>2. QED
    BY <2>1 DEF TransportInv, StatusInv, Orderly, OneOfAKind, SessionInv, SessionType, TypeOK
<1>2. QED
  BY <1>1, TransportAlways, PTL

(* When mesh_stop has returned, no thread, timer, queue or frame of the    *)
(* session is left, however the task, the callbacks, the producer and the  *)
(* timers stood when it began.                                             *)
THEOREM QuietWhenIdleCorrect == Spec => []QuietWhenIdle
<1>1. TransportInv => QuietWhenIdle
  BY DEF TransportInv, SessionInv
<1>2. QED
  BY <1>1, TransportAlways, PTL

(* No event or signal of an old session passes for one of the current: the *)
(* generation advances before the state leaves "active".                   *)
THEOREM NoStaleScheduleCorrect == Spec => []NoStaleSchedule
<1>1. TransportInv => NoStaleSchedule
  BY DEF TransportInv, SessionInv
<1>2. QED
  BY <1>1, TransportAlways, PTL

(* What the node heard and relayed is in a bitmap, in a queued STATUS or   *)
(* in the frame in flight until a STATUS with it was sent, for every queue *)
(* capacity and mix of packets.                                            *)
THEOREM StatusKeptCorrect == Spec => []StatusKept
<1>1. TransportInv => StatusKept
  BY DEF TransportInv, StatusInv, StatusKept, Waiting, Carried
<1>2. QED
  BY <1>1, TransportAlways, PTL

(* tracked_esp_now_send is the only way a frame gets in flight.            *)
LEMMA OneWayOut ==
  ASSUME [Next]_vars
  PROVE  inflight' = inflight \/ inflight' = NoFrame \/ \E kind, set : Transmit(kind, set)
<1>1. CASE Start \/ StopBegin \/ StopTimers \/ StopForce \/ StopClear \/ (\E in_time \in
          BOOLEAN : StopQuiesce(in_time)) \/ (\E in_time \in BOOLEAN :
          StopDrain(in_time)) \/ TaskLoop \/ EndTurn \/ ScanTimeout \/ JoinDeadline
          \/ JoinAccepted \/ HandleAudio \/ HandleJoin \/ HandleLeave \/ HandleSync
          \/ HandleOther \/ SendKeepalive \/ SendStatus \/ PeerTimeout \/
          CoordinatorLost \/ RxEnter \/ RxPut \/ ProducerEnter \/ ProducerPut \/
          FrameTimer \/ (\E ok \in BOOLEAN : SendDone(ok)) \/ BoundaryBegin \/ (\E
          own \in BOOLEAN : BoundaryEnd(own)) \/ SlotMissed \/ WindowMissed \/
          WindowOpen
  BY <1>1
  DEF Start, StopBegin, StopTimers, StopForce, StopClear, StopQuiesce, StopDrain,
      TaskLoop, EndTurn, ScanTimeout, JoinDeadline, JoinAccepted, HandleAudio,
      HandleJoin, HandleLeave, HandleSync, HandleOther, SendKeepalive, SendStatus,
      PeerTimeout, CoordinatorLost, RxEnter, RxPut, ProducerEnter, ProducerPut,
      FrameTimer, SendDone, BoundaryBegin, BoundaryEnd, SlotMissed, WindowMissed,
      WindowOpen, SlotTaken, Packet, life, tdma, inputs, status
<1>2. CASE StopLeave
  BY <1>2 DEF StopLeave
<1>3. CASE SendJoin
  BY <1>3 DEF SendJoin
<1>4. CASE SlotAudio
  BY <1>4 DEF SlotAudio
<1>5. CASE SlotRelay
  BY <1>5 DEF SlotRelay
<1>6. CASE WindowSync
  BY <1>6 DEF WindowSync
<1>7. CASE WindowControl
  BY <1>7 DEF WindowControl
<1>8. CASE UNCHANGED vars
  BY <1>8 DEF vars
<1>9. QED
  BY <1>1, <1>2, <1>3, <1>4, <1>5, <1>6, <1>7, <1>8
  DEF Next, Stop, Work, Callbacks

(* A node that stops starts no other frame than its LEAVE, whichever       *)
(* thread is between its check and its send when the stop begins.          *)
THEOREM OnlyLeaveCorrect == Spec => OnlyLeaveWhileStopping
<1>1. ASSUME [Next]_vars, stopping, inflight = NoFrame
      PROVE  inflight'.kind \in {"none", "LEAVE"}
  <2>1. CASE inflight' = NoFrame
    BY <2>1, NoBits
  <2>2. CASE \E kind, set : Transmit(kind, set)
    <3>1. PICK kind, set : Transmit(kind, set)
      BY <2>2
    <3>2. kind = "LEAVE"
      BY <1>1, <3>1 DEF Transmit, MaySend
    <3>3. QED
      BY <3>1, <3>2 DEF Transmit
  <2>3. QED
    BY <1>1, <2>1, <2>2, OneWayOut
<1>2. [Next]_vars => [stopping /\ inflight = NoFrame => inflight'.kind \in {"none", "LEAVE"}]_vars
  BY <1>1
<1>3. QED
  BY <1>2, PTL DEF Spec, OnlyLeaveWhileStopping
=============================================================================
