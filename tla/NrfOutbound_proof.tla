------------------------- MODULE NrfOutbound_proof -------------------------
(***************************************************************************)
(* Proofs about NrfOutbound, for every size of the two rings: the counters *)
(* add up, overflow gives up the oldest records only, the SPI thread       *)
(* removes what it sent unless a whole ring's worth of records arrived     *)
(* during the transfer, and each ring implements RetryChannel.             *)
(***************************************************************************)
EXTENDS NrfOutbound, TLAPS

(* A ring has at least two slots. *)
LEMMA SizeType == \A k \in Queues : Size(k) \in Nat /\ Size(k) >= 2
BY OutboundAssumption DEF Queues, Size

(* The number of the oldest record a ring holds, or will hold next. *)
First(k) == overwrite[k] + transmitted[k] + 1

(* i moved on by d positions, for d below the ring's size. *)
Plus(k, i, d) == IF i + d >= Size(k) THEN i + d - Size(k) ELSE i + d

(* While a record is under way its ring is not empty, and the tail has     *)
(* moved on by as many positions as there are records between the one      *)
(* peeked and the oldest one left; every such move took a push.            *)
PeekInv ==
    spi_pc # "poll" /\ tx_kind \in Queues =>
        LET k == tx_kind
            moved == First(k) - tx_buf IN
        /\ tx_index \in Indices(k)
        /\ ~Empty(k)
        /\ 0 <= moved /\ moved <= burst
        /\ moved < Size(k) => tail[k] = Plus(k, tx_index, moved)

Safe == TypeOK /\ Accounted /\ NewestKept /\ PeekInv

(* The distance from index b to index a in a ring of n slots. *)
Dist(n, a, b) == IF a >= b THEN a - b ELSE a - b + n

(* The index after i in a ring of n slots. *)
Succ(n, i) == IF i = n - 1 THEN 0 ELSE i + 1

(* What queueing a record does to the distances to the head h, with t the  *)
(* tail before it and t2 the tail after it.                                *)
QueueFacts(n, h, t, h2, t2) ==
    /\ h2 = t => Dist(n, h, t) = n - 1 /\ Dist(n, h2, t2) = n - 1
    /\ h2 # t => Dist(n, h2, t2) = Dist(n, h, t) + 1
    /\ Dist(n, h, t) \in 0..(n - 1) /\ Dist(n, h2, t2) \in 1..(n - 1)
    /\ \A i \in 0..(n - 1) :
         /\ Dist(n, h, i) \in 0..(n - 1) /\ Dist(n, h2, i) \in 0..(n - 1)
         /\ i = h => Dist(n, h2, i) = 1
         /\ i # h /\ Dist(n, h2, i) # 0 => Dist(n, h2, i) = Dist(n, h, i) + 1

(* Those facts hold in a ring of any size. *)
LEMMA QueueDist ==
  ASSUME NEW n \in Nat, n >= 2, NEW h \in 0..(n - 1), NEW t \in 0..(n - 1)
  PROVE  QueueFacts(n, h, t, Succ(n, h), IF Succ(n, h) = t THEN Succ(n, t) ELSE t)
BY DEF QueueFacts, Succ, Dist

(* An index moved on by one is one nearer to the head. *)
LEMMA DistSucc ==
  ASSUME NEW n \in Nat, n >= 2, NEW h \in 0..(n - 1), NEW i \in 0..(n - 1), i # h
  PROVE  /\ Dist(n, h, i) \in 1..(n - 1)
         /\ Dist(n, h, Succ(n, i)) = Dist(n, h, i) - 1
BY DEF Dist, Succ

(* A successor is again an index of the ring. *)
LEMMA NextIndexType ==
  ASSUME NEW k \in Queues, NEW i \in Indices(k)
  PROVE  NextIndex(k, i) \in Indices(k)
BY SizeType DEF Indices, NextIndex
-----------------------------------------------------------------------------
(* All four parts hold initially. *)
LEMMA InitSafe == Init => Safe
<1> SUFFICES ASSUME Init PROVE Safe
  OBVIOUS
<1>1. TypeOK
  BY SizeType DEF Init, TypeOK, Indices, Queues
<1>2. \A k \in Queues : Behind(k, tail[k]) = 0
  BY DEF Init, Behind
<1>3. Accounted
  BY <1>2 DEF Init, Accounted
<1>4. NewestKept
  BY <1>2 DEF NewestKept, Live
<1>5. PeekInv
  BY DEF Init, PeekInv, Queues
<1> QED
  BY <1>1, <1>3, <1>4, <1>5 DEF Safe

(* What the ESP decodes is appended to what it decoded before. *)
LEMMA ReceivedType ==
  ASSUME TypeOK, NEW decoded \in BOOLEAN, Received(decoded)
  PROVE  delivered' \in [Queues -> Seq(Nat)]
<1>1. delivered \in [Queues -> Seq(Nat)] /\ tx_buf \in Nat
  BY DEF TypeOK
<1>2. CASE decoded /\ tx_kind \in Queues
  <2>1. delivered' = [delivered EXCEPT ![tx_kind] = Append(delivered[tx_kind], tx_buf)]
    BY <1>2 DEF Received
  <2>2. Append(delivered[tx_kind], tx_buf) \in Seq(Nat)
    BY <1>1, <1>2
  <2> QED
    BY <1>1, <1>2, <2>1, <2>2
<1>3. CASE ~(decoded /\ tx_kind \in Queues)
  BY <1>1, <1>3 DEF Received
<1> QED
  BY <1>2, <1>3

(* Types are preserved by every step. *)
LEMMA TypeInduction == TypeOK /\ [Next]_vars => TypeOK'
<1> SUFFICES ASSUME TypeOK, [Next]_vars PROVE TypeOK'
  OBVIOUS
<1>1. ASSUME NEW k \in Queues, Enqueue(k) PROVE TypeOK'
  <2>1. NextIndex(k, head[k]) \in Indices(k) /\ NextIndex(k, tail[k]) \in Indices(k)
    BY NextIndexType DEF TypeOK
  <2>2. (\A j \in Queues : q[j] \in [Indices(j) -> Nat])' /\ DOMAIN q' = Queues
    <3>1. q' = [q EXCEPT ![k] = [q[k] EXCEPT ![head[k]] = pushed[k] + 1]]
      BY <1>1 DEF Enqueue
    <3>2. [q[k] EXCEPT ![head[k]] = pushed[k] + 1] \in [Indices(k) -> Nat]
      BY <1>1 DEF TypeOK
    <3> QED
      BY <3>1, <3>2, <1>1 DEF TypeOK, Indices, Size
  <2>3. (\A j \in Queues : head[j] \in Indices(j) /\ tail[j] \in Indices(j))'
    BY <1>1, <2>1 DEF TypeOK, Enqueue, Indices, Size
  <2>4. DOMAIN head' = Queues /\ DOMAIN tail' = Queues
    BY <1>1 DEF TypeOK, Enqueue
  <2>5. overwrite' \in [Queues -> Nat] /\ pushed' \in [Queues -> Nat] /\ burst' \in Nat
    <3>1. overwrite[k] \in Nat /\ pushed[k] \in Nat /\ burst \in Nat
      BY DEF TypeOK
    <3>2. /\ overwrite \in [Queues -> Nat] /\ pushed \in [Queues -> Nat]
      BY DEF TypeOK
    <3> QED
      BY <1>1, <3>1, <3>2 DEF Enqueue
  <2>6. /\ UNCHANGED <<transmitted, spi_pc, tx_kind, tx_index, tx_buf>>
        /\ UNCHANGED <<delivered, unconfirmed, repeats>>
    BY <1>1 DEF Enqueue, peekVars, espVars
  <2> QED
    BY <2>2, <2>3, <2>4, <2>5, <2>6 DEF TypeOK
<1>2. CASE Peek
  <2>1. /\ UNCHANGED <<q, head, tail, overwrite, transmitted, pushed>>
        /\ UNCHANGED <<delivered, unconfirmed, repeats>>
    BY <1>2 DEF Peek, ringVars, espVars
  <2>2. tx_kind' \in Queues \cup {"idle"} /\ tx_index' \in Nat /\ tx_buf' \in Nat
    <3>1. ASSUME NEW k \in Queues PROVE tail[k] \in Nat /\ q[k][tail[k]] \in Nat
      BY SizeType DEF TypeOK, Indices
    <3> QED
      BY <1>2, <3>1 DEF Peek, PeekFrom, Queues
  <2>3. spi_pc' = "transfer" /\ burst' = 0
    BY <1>2 DEF Peek
  <2> QED
    BY <2>1, <2>2, <2>3 DEF TypeOK, Indices, Size
<1>3. ASSUME NEW decoded \in BOOLEAN, TransferFail(decoded) PROVE TypeOK'
  <2>1. delivered' \in [Queues -> Seq(Nat)]
    BY <1>3, ReceivedType DEF TransferFail
  <2>2. unconfirmed' \subseteq Queues /\ repeats' \in Nat
    <3>1. unconfirmed \subseteq Queues /\ repeats \in Nat
      BY DEF TypeOK
    <3>2. CASE decoded /\ tx_kind \in Queues
      BY <1>3, <3>1, <3>2 DEF TransferFail
    <3>3. CASE ~(decoded /\ tx_kind \in Queues)
      BY <1>3, <3>1, <3>3 DEF TransferFail
    <3> QED
      BY <3>2, <3>3
  <2>3. UNCHANGED <<ringVars, peekVars, pushed, burst>> /\ spi_pc' = "poll"
    BY <1>3 DEF TransferFail
  <2> QED
    BY <2>1, <2>2, <2>3 DEF TypeOK, ringVars, peekVars, Indices, Size
<1>4. ASSUME NEW decoded \in BOOLEAN, TransferDone(decoded) PROVE TypeOK'
  <2>1. delivered' \in [Queues -> Seq(Nat)]
    BY <1>4, ReceivedType DEF TransferDone
  <2>2. /\ UNCHANGED <<ringVars, peekVars, pushed, burst, repeats>>
        /\ spi_pc' = "commit" /\ unconfirmed' = unconfirmed \ {tx_kind}
    BY <1>4 DEF TransferDone
  <2> QED
    BY <2>1, <2>2 DEF TypeOK, ringVars, peekVars, Indices, Size
<1>5. CASE Commit
  <2>1. \A k \in Queues : NextIndex(k, tail[k]) \in Indices(k)
    BY NextIndexType DEF TypeOK
  <2>2. (\A k \in Queues : head[k] \in Indices(k) /\ tail[k] \in Indices(k))'
    <3>1. CASE tx_kind \in Queues /\ tail[tx_kind] = tx_index
      BY <1>5, <2>1, <3>1 DEF Commit, TypeOK, Indices, Size
    <3>2. CASE ~(tx_kind \in Queues /\ tail[tx_kind] = tx_index)
      BY <1>5, <3>2 DEF Commit, TypeOK, Indices, Size
    <3> QED
      BY <3>1, <3>2
  <2>3. DOMAIN tail' = Queues /\ transmitted' \in [Queues -> Nat]
    <3>1. DOMAIN tail = Queues /\ transmitted \in [Queues -> Nat]
      BY DEF TypeOK
    <3> QED
      BY <1>5, <3>1 DEF Commit
  <2>4. /\ UNCHANGED <<q, head, overwrite, tx_kind, tx_index, tx_buf>>
        /\ UNCHANGED <<pushed, burst, delivered, unconfirmed, repeats>> /\ spi_pc' = "poll"
    BY <1>5 DEF Commit, peekVars, espVars
  <2> QED
    BY <2>2, <2>3, <2>4 DEF TypeOK, Indices, Size
<1>6. CASE UNCHANGED vars
  BY <1>6 DEF vars, TypeOK, ringVars, peekVars, espVars, Indices, Size
<1> QED
  BY <1>1, <1>2, <1>3, <1>4, <1>5, <1>6 DEF Next

(* Queueing a record, in terms of the distances to the head. *)
LEMMA EnqueueDistances ==
  ASSUME TypeOK, NEW k \in Queues, Enqueue(k)
  PROVE  LET full == NextIndex(k, head[k]) = tail[k] IN
         /\ full => Behind(k, tail[k]) = Size(k) - 1
         /\ full => Behind(k, tail[k])' = Behind(k, tail[k])
         /\ ~full => Behind(k, tail[k])' = Behind(k, tail[k]) + 1
         /\ Behind(k, tail[k]) \in 0..(Size(k) - 1)
         /\ Behind(k, tail[k])' \in 1..(Size(k) - 1)
         /\ \A i \in Indices(k) :
              /\ Behind(k, i) \in 0..(Size(k) - 1)
              /\ Behind(k, i)' \in 0..(Size(k) - 1)
              /\ i = head[k] => Behind(k, i)' = 1
              /\ i # head[k] /\ Behind(k, i)' # 0 => Behind(k, i)' = Behind(k, i) + 1
<1>1. /\ Size(k) \in Nat /\ Size(k) >= 2
      /\ head[k] \in 0..(Size(k) - 1) /\ tail[k] \in 0..(Size(k) - 1)
  BY SizeType DEF TypeOK, Indices
<1>2. head'[k] = NextIndex(k, head[k])
  BY DEF Enqueue, TypeOK
<1>3. tail'[k] = IF NextIndex(k, head[k]) = tail[k] THEN NextIndex(k, tail[k]) ELSE tail[k]
  BY DEF Enqueue, TypeOK
<1>5. \A i : Behind(k, i) = Dist(Size(k), head[k], i) /\ Behind(k, i)' = Dist(Size(k), head'[k], i)
  BY DEF Behind, Dist, Size
<1>6. /\ Behind(k, tail[k]) = Dist(Size(k), head[k], tail[k])
      /\ Behind(k, tail[k])' = Dist(Size(k), head'[k], tail'[k])
  BY DEF Behind, Dist, Size
<1>7. \A i : NextIndex(k, i) = Succ(Size(k), i)
  BY DEF NextIndex, Succ
<1>8. QueueFacts(Size(k), head[k], tail[k], head'[k], tail'[k])
  BY <1>1, <1>2, <1>3, <1>7, QueueDist
<1> QED
  BY <1>2, <1>5, <1>6, <1>8 DEF Indices, QueueFacts

(* Queueing on one ring leaves the other ring's distances alone. *)
LEMMA EnqueueOther ==
  ASSUME TypeOK, NEW k \in Queues, Enqueue(k), NEW j \in Queues, j # k
  PROVE  /\ q'[j] = q[j] /\ head'[j] = head[j] /\ tail'[j] = tail[j]
         /\ pushed'[j] = pushed[j] /\ overwrite'[j] = overwrite[j]
         /\ transmitted'[j] = transmitted[j]
         /\ \A i : Behind(j, i)' = Behind(j, i)
         /\ Behind(j, tail[j])' = Behind(j, tail[j])
<1>1. /\ q'[j] = q[j] /\ head'[j] = head[j] /\ tail'[j] = tail[j]
      /\ pushed'[j] = pushed[j] /\ overwrite'[j] = overwrite[j]
      /\ transmitted'[j] = transmitted[j]
  BY DEF Enqueue, TypeOK
<1> QED
  BY <1>1 DEF Behind, Size

(* Queueing a record, on its own ring. *)
LEMMA EnqueueSame ==
  ASSUME TypeOK, NEW k \in Queues, Enqueue(k)
  PROVE  LET full == NextIndex(k, head[k]) = tail[k] IN
         /\ pushed'[k] = pushed[k] + 1 /\ transmitted'[k] = transmitted[k]
         /\ overwrite'[k] = IF full THEN overwrite[k] + 1 ELSE overwrite[k]
         /\ tail'[k] = IF full THEN NextIndex(k, tail[k]) ELSE tail[k]
         /\ head'[k] = NextIndex(k, head[k])
         /\ q'[k][head[k]] = pushed[k] + 1
         /\ \A i \in Indices(k) : i # head[k] => q'[k][i] = q[k][i]
<1>1. DOMAIN q[k] = Indices(k) /\ head[k] \in Indices(k)
  BY DEF TypeOK
<1>2. /\ q'[k] = [q[k] EXCEPT ![head[k]] = pushed[k] + 1]
      /\ tail'[k] = IF NextIndex(k, head[k]) = tail[k] THEN NextIndex(k, tail[k]) ELSE tail[k]
      /\ head'[k] = NextIndex(k, head[k])
      /\ pushed'[k] = pushed[k] + 1 /\ transmitted'[k] = transmitted[k]
      /\ overwrite'[k] = IF NextIndex(k, head[k]) = tail[k] THEN overwrite[k] + 1 ELSE overwrite[k]
  BY DEF Enqueue, TypeOK
<1> QED
  BY <1>1, <1>2

(* Taking a record off a ring, in terms of the distances to the head. *)
LEMMA CommitDistances ==
  ASSUME TypeOK, Commit, NEW k \in Queues, k = tx_kind, tail[k] = tx_index, ~Empty(k)
  PROVE  /\ Behind(k, tail[k])' = Behind(k, tail[k]) - 1
         /\ Behind(k, tail[k]) \in 1..(Size(k) - 1)
         /\ transmitted'[k] = transmitted[k] + 1
         /\ tail'[k] = NextIndex(k, tail[k])
<1>1. /\ Size(k) \in Nat /\ Size(k) >= 2
      /\ head[k] \in 0..(Size(k) - 1) /\ tail[k] \in 0..(Size(k) - 1)
  BY SizeType DEF TypeOK, Indices
<1>2. head' = head /\ tail'[k] = Succ(Size(k), tail[k]) /\ transmitted'[k] = transmitted[k] + 1
  <2>1. /\ tail' = [tail EXCEPT ![k] = NextIndex(k, tail[k])]
        /\ transmitted' = [transmitted EXCEPT ![k] = transmitted[k] + 1]
        /\ head' = head
    BY DEF Commit
  <2>2. DOMAIN tail = Queues /\ DOMAIN transmitted = Queues
    BY DEF TypeOK
  <2> QED
    BY <2>1, <2>2 DEF NextIndex, Succ
<1>3. /\ Behind(k, tail[k]) = Dist(Size(k), head[k], tail[k])
      /\ Behind(k, tail[k])' = Dist(Size(k), head'[k], tail'[k])
  BY DEF Behind, Dist, Size
<1>4. tail[k] # head[k]
  BY DEF Empty
<1>5. /\ Dist(Size(k), head[k], tail[k]) \in 1..(Size(k) - 1)
      /\ Dist(Size(k), head[k], Succ(Size(k), tail[k])) = Dist(Size(k), head[k], tail[k]) - 1
  BY <1>1, <1>4, DistSucc
<1>6. NextIndex(k, tail[k]) = Succ(Size(k), tail[k])
  BY DEF NextIndex, Succ
<1> QED
  BY <1>2, <1>3, <1>5, <1>6

(* The counters keep adding up. *)
LEMMA AccountedInduction == Safe /\ [Next]_vars => Accounted'
<1> SUFFICES ASSUME Safe, [Next]_vars PROVE Accounted'
  OBVIOUS
<1>0. TypeOK /\ Accounted /\ PeekInv
  BY DEF Safe
<1>t. \A k \in Queues : pushed[k] \in Nat /\ overwrite[k] \in Nat /\ transmitted[k] \in Nat
  BY <1>0 DEF TypeOK
<1>1. ASSUME NEW k \in Queues, Enqueue(k) PROVE Accounted'
  <2>1. ASSUME NEW j \in Queues
        PROVE  pushed'[j] = overwrite'[j] + transmitted'[j] + Behind(j, tail[j])'
    <3>1. CASE j = k
      <4>1. Size(k) \in Nat
        BY SizeType
      <4>2. pushed[k] = overwrite[k] + transmitted[k] + Behind(k, tail[k])
        BY <1>0 DEF Accounted
      <4> QED
        BY <1>0, <1>1, <1>t, <3>1, <4>1, <4>2, EnqueueDistances, EnqueueSame
    <3>2. CASE j # k
      BY <1>0, <1>1, <3>2, EnqueueOther DEF Accounted
    <3> QED
      BY <3>1, <3>2
  <2> QED
    BY <2>1 DEF Accounted
<1>2. CASE Commit
  <2>1. CASE tx_kind \in Queues /\ tail[tx_kind] = tx_index
    <3>1. ~Empty(tx_kind)
      BY <1>0, <1>2, <2>1 DEF PeekInv, Commit
    <3>2. ASSUME NEW j \in Queues
          PROVE  pushed'[j] = overwrite'[j] + transmitted'[j] + Behind(j, tail[j])'
      <4>1. CASE j = tx_kind
        <5>1. Size(j) \in Nat
          BY SizeType
        <5>2. pushed[j] = overwrite[j] + transmitted[j] + Behind(j, tail[j])
          BY <1>0 DEF Accounted
        <5>3. pushed'[j] = pushed[j] /\ overwrite'[j] = overwrite[j]
          BY <1>2 DEF Commit
        <5> QED
          BY <1>0, <1>2, <1>t, <2>1, <3>1, <4>1, <5>1, <5>2, <5>3, CommitDistances
      <4>2. CASE j # tx_kind
        <5>1. /\ tail'[j] = tail[j] /\ transmitted'[j] = transmitted[j]
              /\ head' = head /\ pushed' = pushed /\ overwrite' = overwrite
          BY <1>0, <1>2, <4>2 DEF Commit, TypeOK
        <5> QED
          BY <1>0, <5>1 DEF Accounted, Behind, Size
      <4> QED
        BY <4>1, <4>2
    <3> QED
      BY <3>2 DEF Accounted
  <2>2. CASE ~(tx_kind \in Queues /\ tail[tx_kind] = tx_index)
    BY <1>0, <1>2, <2>2 DEF Commit, Accounted, Behind, Size
  <2> QED
    BY <2>1, <2>2
<1>3. CASE UNCHANGED <<head, tail, overwrite, transmitted, pushed>>
  BY <1>0, <1>3 DEF Accounted, Behind, Size
<1> QED
  BY <1>1, <1>2, <1>3 DEF Next, vars, ringVars, Peek, TransferFail, TransferDone

(* Overflow and transmission both take the oldest record. *)
LEMMA NewestKeptInduction == Safe /\ [Next]_vars => NewestKept'
<1> SUFFICES ASSUME Safe, [Next]_vars PROVE NewestKept'
  OBVIOUS
<1>0. TypeOK /\ NewestKept /\ PeekInv
  BY DEF Safe
<1>t. \A k \in Queues : pushed[k] \in Nat /\ Size(k) \in Nat
  BY <1>0, SizeType DEF TypeOK
<1>1. ASSUME NEW k \in Queues, Enqueue(k), NEW j \in Queues, NEW i \in Live(j)'
      PROVE  q'[j][i] = pushed'[j] - Behind(j, i)' + 1
  <2>1. i \in Indices(j) /\ Behind(j, i)' \in 1..Behind(j, tail[j])'
    BY <1>1 DEF Live, Indices, Size
  <2>2. CASE j # k
    <3>1. i \in Live(j)
      BY <1>0, <1>1, <2>1, <2>2, EnqueueOther DEF Live
    <3> QED
      BY <1>0, <1>1, <2>2, <3>1, EnqueueOther DEF NewestKept
  <2>3. CASE j = k /\ i = head[k]
    BY <1>0, <1>1, <1>t, <2>1, <2>3, EnqueueSame, EnqueueDistances
  <2>4. CASE j = k /\ i # head[k]
    <3>1. /\ Behind(k, i)' = Behind(k, i) + 1
          /\ Behind(k, i) \in 0..(Size(k) - 1) /\ Behind(k, tail[k]) \in 0..(Size(k) - 1)
          /\ Behind(k, tail[k])' \in 1..(Size(k) - 1)
          /\ \/ Behind(k, tail[k]) = Size(k) - 1
             \/ Behind(k, tail[k])' = Behind(k, tail[k]) + 1
      BY <1>0, <1>1, <1>t, <2>1, <2>4, EnqueueDistances
    <3>2. Behind(k, i) # 0
      <4>1. head[k] \in 0..(Size(k) - 1) /\ i \in 0..(Size(k) - 1) /\ i # head[k]
        BY <1>0, <2>1, <2>4 DEF TypeOK, Indices
      <4> QED
        BY <1>t, <4>1 DEF Behind
    <3>3. i \in Live(k)
      BY <1>t, <2>1, <2>4, <3>1, <3>2 DEF Live
    <3>4. q[k][i] = pushed[k] - Behind(k, i) + 1
      BY <1>0, <3>3 DEF NewestKept
    <3>5. q'[k][i] = q[k][i] /\ pushed'[k] = pushed[k] + 1
      BY <1>0, <1>1, <2>1, <2>4, EnqueueSame
    <3> QED
      BY <1>t, <2>4, <3>1, <3>4, <3>5
  <2> QED
    BY <2>2, <2>3, <2>4
<1>2. ASSUME Commit, NEW j \in Queues, NEW i \in Live(j)'
      PROVE  q'[j][i] = pushed'[j] - Behind(j, i)' + 1
  <2>1. q' = q /\ pushed' = pushed /\ Behind(j, i)' = Behind(j, i)
    BY <1>2 DEF Commit, Behind, Size
  <2>2. i \in Indices(j) /\ Behind(j, i)' \in 1..Behind(j, tail[j])'
    BY <1>2 DEF Live, Indices, Size
  <2>3. i \in Live(j)
    <3>1. CASE j = tx_kind /\ tail[j] = tx_index
      <4>1. ~Empty(j)
        BY <1>0, <1>2, <3>1 DEF PeekInv, Commit
      <4>2. /\ Behind(j, tail[j])' = Behind(j, tail[j]) - 1
            /\ Behind(j, tail[j]) \in 1..(Size(j) - 1)
        BY <1>0, <1>2, <3>1, <4>1, CommitDistances
      <4> QED
        BY <1>t, <2>1, <2>2, <4>2 DEF Live
    <3>2. CASE ~(j = tx_kind /\ tail[j] = tx_index)
      <4>1. tail'[j] = tail[j] /\ head' = head
        BY <1>0, <1>2, <3>2 DEF Commit, TypeOK
      <4>2. Behind(j, tail[j])' = Behind(j, tail[j])
        BY <4>1 DEF Behind, Size
      <4> QED
        BY <2>1, <2>2, <4>2 DEF Live
    <3> QED
      BY <3>1, <3>2
  <2> QED
    BY <1>0, <2>1, <2>3 DEF NewestKept
<1>3. CASE UNCHANGED <<q, head, tail, pushed>>
  BY <1>0, <1>3 DEF NewestKept, Live, Behind, Size, Indices
<1> QED
  <2>1. CASE \E k \in Queues : Enqueue(k)
    BY <1>1, <2>1 DEF NewestKept
  <2>2. CASE Commit
    BY <1>2, <2>2 DEF NewestKept
  <2> QED
    BY <1>3, <2>1, <2>2 DEF Next, vars, ringVars, Peek, TransferFail, TransferDone

(* The oldest record of a ring that is not empty. *)
LEMMA OldestRecord ==
  ASSUME TypeOK, Accounted, NewestKept, NEW k \in Queues, ~Empty(k)
  PROVE  q[k][tail[k]] = First(k) /\ First(k) \in Nat
<1>1. /\ head[k] \in 0..(Size(k) - 1) /\ tail[k] \in 0..(Size(k) - 1)
      /\ Size(k) \in Nat /\ head[k] # tail[k]
  BY SizeType DEF TypeOK, Indices, Empty
<1>2. Behind(k, tail[k]) \in 1..(Size(k) - 1)
  BY <1>1 DEF Behind
<1>3. tail[k] \in Live(k)
  BY <1>1, <1>2 DEF Live, Indices
<1>4. q[k][tail[k]] = pushed[k] - Behind(k, tail[k]) + 1
  BY <1>3 DEF NewestKept
<1>5. /\ pushed[k] \in Nat /\ overwrite[k] \in Nat /\ transmitted[k] \in Nat
      /\ pushed[k] = overwrite[k] + transmitted[k] + Behind(k, tail[k])
  BY DEF TypeOK, Accounted
<1> QED
  BY <1>1, <1>2, <1>4, <1>5 DEF First

(* Moving on by one more position. *)
LEMMA PlusStep ==
  ASSUME NEW k \in Queues, NEW i \in Indices(k), NEW d \in Nat, d + 1 < Size(k)
  PROVE  NextIndex(k, Plus(k, i, d)) = Plus(k, i, d + 1)
BY SizeType DEF Plus, NextIndex, Indices

(* The tail's moves during a transfer stay counted. *)
LEMMA PeekInduction == Safe /\ [Next]_vars => PeekInv'
<1> SUFFICES ASSUME Safe, [Next]_vars PROVE PeekInv'
  OBVIOUS
<1>0. TypeOK /\ Accounted /\ NewestKept /\ PeekInv
  BY DEF Safe
<1>t. /\ \A k \in Queues : overwrite[k] \in Nat /\ transmitted[k] \in Nat /\ Size(k) \in Nat
      /\ tx_buf \in Nat /\ burst \in Nat
  BY <1>0, SizeType DEF TypeOK
<1>1. ASSUME NEW k \in Queues, Enqueue(k) PROVE PeekInv'
  <2>0. UNCHANGED <<spi_pc, tx_kind, tx_index, tx_buf>>
    BY <1>1 DEF Enqueue, peekVars
  <2>1. CASE spi_pc = "poll" \/ tx_kind \notin Queues
    BY <2>0, <2>1 DEF PeekInv
  <2>2. CASE spi_pc # "poll" /\ tx_kind \in Queues /\ tx_kind # k
    <3>1. /\ Empty(tx_kind)' = Empty(tx_kind) /\ First(tx_kind)' = First(tx_kind)
          /\ tail'[tx_kind] = tail[tx_kind]
      BY <1>0, <1>1, <2>0, <2>2, EnqueueOther DEF Empty, First
    <3>2. burst' = burst
      BY <1>1, <2>2 DEF Enqueue
    <3> QED
      BY <1>0, <2>0, <2>2, <3>1, <3>2 DEF PeekInv, Plus, Size, Indices
  <2>3. CASE spi_pc # "poll" /\ tx_kind = k
    <3> DEFINE moved == First(k) - tx_buf
    <3>1. /\ tx_index \in Indices(k) /\ ~Empty(k)
          /\ 0 <= moved /\ moved <= burst
          /\ moved < Size(k) => tail[k] = Plus(k, tx_index, moved)
      BY <1>0, <2>3 DEF PeekInv
    <3>2. burst' = burst + 1
      BY <1>1, <2>3 DEF Enqueue
    <3>3. moved \in Nat
      BY <1>t, <3>1 DEF First
    <3>4. ~Empty(k)'
      <4>1. Behind(k, tail[k])' # 0
        BY <1>0, <1>1, <1>t, EnqueueDistances
      <4>2. head'[k] \in Int
        <5>1. head'[k] = NextIndex(k, head[k])
          BY <1>0, <1>1, EnqueueSame
        <5>2. NextIndex(k, head[k]) \in Indices(k)
          BY <1>0, NextIndexType DEF TypeOK
        <5> QED
          BY <1>t, <5>1, <5>2 DEF Indices
      <4> QED
        BY <4>1, <4>2 DEF Behind, Empty
    <3>5. CASE NextIndex(k, head[k]) = tail[k]
      <4>1. First(k)' = First(k) + 1 /\ tail'[k] = NextIndex(k, tail[k])
        BY <1>0, <1>1, <1>t, <3>5, EnqueueSame DEF First
      <4>2. moved' = moved + 1
        <5>1. First(k) \in Int /\ tx_buf' = tx_buf
          BY <1>t, <2>0 DEF First
        <5> QED
          BY <1>t, <4>1, <5>1
      <4>3. moved + 1 < Size(k) => tail'[k] = Plus(k, tx_index, moved + 1)
        BY <1>t, <3>1, <3>3, <4>1, PlusStep
      <4> HIDE DEF moved
      <4>4. /\ 0 <= moved' /\ moved' <= burst'
            /\ moved' < Size(k) => tail'[k] = Plus(k, tx_index, moved')
        BY <1>t, <3>1, <3>2, <3>3, <4>2, <4>3
      <4> QED
        BY <2>0, <2>3, <3>1, <3>4, <4>4 DEF PeekInv, moved, Plus, Size, Indices
    <3>6. CASE NextIndex(k, head[k]) # tail[k]
      <4>1. First(k)' = First(k) /\ tail'[k] = tail[k]
        BY <1>0, <1>1, <3>6, EnqueueSame DEF First
      <4>2. moved' = moved
        BY <2>0, <4>1
      <4> HIDE DEF moved
      <4>3. /\ 0 <= moved' /\ moved' <= burst'
            /\ moved' < Size(k) => tail'[k] = Plus(k, tx_index, moved')
        BY <1>t, <3>1, <3>2, <3>3, <4>1, <4>2
      <4> QED
        BY <2>0, <2>3, <3>1, <3>4, <4>3 DEF PeekInv, moved, Plus, Size, Indices
    <3> QED
      BY <3>5, <3>6
  <2> QED
    BY <2>1, <2>2, <2>3
<1>2. CASE Peek
  <2>1. ASSUME NEW k \in Queues, ~Empty(k), PeekFrom(k) PROVE PeekInv'
    <3>1. UNCHANGED <<head, tail, overwrite, transmitted>> /\ burst' = 0
      BY <1>2 DEF Peek, ringVars
    <3>2. tx_kind' = k /\ tx_index' = tail[k] /\ tx_buf' = First(k)
      BY <1>0, <2>1, OldestRecord DEF PeekFrom
    <3>3. First(k)' = First(k) /\ First(k) \in Nat /\ ~Empty(k)'
      BY <1>0, <2>1, <3>1, OldestRecord DEF First, Empty
    <3>4. tail[k] \in Indices(k) /\ Plus(k, tail[k], 0) = tail[k]
      BY <1>0, <1>t DEF TypeOK, Plus, Indices
    <3>5. First(k)' - tx_buf' = 0
      BY <3>2, <3>3
    <3> QED
      BY <3>1, <3>2, <3>3, <3>4, <3>5 DEF PeekInv, Plus, Size, Indices
  <2>2. CASE tx_kind' = "idle"
    BY <2>2 DEF PeekInv, Queues
  <2> QED
    BY <1>2, <2>1, <2>2 DEF Peek, Queues
<1>3. ASSUME NEW decoded \in BOOLEAN, TransferFail(decoded) PROVE PeekInv'
  BY <1>3 DEF TransferFail, PeekInv
<1>4. CASE Commit
  BY <1>4 DEF Commit, PeekInv
<1>5. ASSUME NEW decoded \in BOOLEAN, TransferDone(decoded) PROVE PeekInv'
  BY <1>0, <1>5 DEF TransferDone, PeekInv, ringVars, peekVars, Empty, First, Plus, Size, Indices
<1>6. CASE UNCHANGED vars
  BY <1>0, <1>6 DEF vars, PeekInv, ringVars, peekVars, Empty, First, Plus, Size, Indices
<1> QED
  BY <1>1, <1>2, <1>3, <1>4, <1>5, <1>6 DEF Next

(* The four parts hold together in every reachable state. *)
LEMMA SafeAlways == Spec => []Safe
<1>1. Safe /\ [Next]_vars => Safe'
  BY TypeInduction, AccountedInduction, NewestKeptInduction, PeekInduction DEF Safe
<1> QED
  BY <1>1, InitSafe, PTL DEF Spec

(* The telemetry of the outbound rings adds up in every reachable state,   *)
(* whatever the sizes of the rings.                                        *)
THEOREM AccountedCorrect == Spec => [](TypeOK /\ Accounted)
<1>1. Safe => TypeOK /\ Accounted
  BY DEF Safe
<1> QED
  BY <1>1, SafeAlways, PTL

(* The heads, tails and counts of the outbound rings stay in range under   *)
(* every interleaving of the enqueueing side and the SPI thread.           *)
THEOREM TypeCorrect == Spec => []TypeOK
<1>1. Safe => TypeOK
  BY DEF Safe
<1> QED
  BY <1>1, SafeAlways, PTL

(* Overflow of a ring gives up its oldest records and nothing else.        *)
THEOREM NewestKeptCorrect == Spec => []NewestKept
<1>1. Safe => NewestKept
  BY DEF Safe
<1> QED
  BY <1>1, SafeAlways, PTL

(* uart_bridge_process takes only the record it has transferred off a      *)
(* ring, as long as fewer records than the ring has slots were queued      *)
(* during the transfer.                                                    *)
THEOREM RemovesSentCorrect == Spec => RemovesSent
<1>1. ASSUME Safe, [Next]_vars,
             spi_pc = "commit", tail' # tail, spi_pc' = "poll", burst < Size(tx_kind)
      PROVE  q[tx_kind][tail[tx_kind]] = tx_buf
  <2>0. TypeOK /\ Accounted /\ NewestKept /\ PeekInv
    BY <1>1 DEF Safe
  <2>1. Commit
    BY <1>1 DEF Next, Enqueue, Peek, TransferFail, TransferDone, vars
  <2>2. tx_kind \in Queues /\ tail[tx_kind] = tx_index
    BY <1>1, <2>1 DEF Commit
  <2> DEFINE k == tx_kind
             moved == First(k) - tx_buf
  <2>3. /\ tx_index \in Indices(k) /\ ~Empty(k)
        /\ 0 <= moved /\ moved <= burst
        /\ moved < Size(k) => tail[k] = Plus(k, tx_index, moved)
    BY <1>1, <2>0, <2>2 DEF PeekInv
  <2>4. q[k][tail[k]] = First(k) /\ First(k) \in Nat /\ tx_buf \in Nat /\ burst \in Nat
    BY <2>0, <2>2, <2>3, OldestRecord DEF TypeOK
  <2>5. Size(k) \in Nat
    BY <2>2, SizeType
  <2>6. moved \in Nat /\ moved < Size(k)
    BY <1>1, <2>3, <2>4, <2>5
  <2>7. tx_index = Plus(k, tx_index, moved)
    BY <2>2, <2>3, <2>6
  <2>8. moved = 0
    <3> HIDE DEF moved
    <3> QED
      BY <2>3, <2>5, <2>6, <2>7 DEF Plus, Indices
  <2> QED
    BY <2>4, <2>8
<1>2. Safe /\ [Next]_vars =>
        [spi_pc = "commit" /\ tail' # tail /\ spi_pc' = "poll" /\ burst < Size(tx_kind)
           => q[tx_kind][tail[tx_kind]] = tx_buf]_vars
  BY <1>1
<1> QED
  BY <1>2, SafeAlways, PTL DEF Spec, RemovesSent
-----------------------------------------------------------------------------
(* The newest record of a ring that the ESP has decoded. *)
Newest(k) == IF delivered[k] = <<>> THEN 0 ELSE delivered[k][Len(delivered[k])]

(* Record r may be delivered: it is newer than all the ESP has decoded, or *)
(* it is the newest of them and no transfer has succeeded since.           *)
Due(k, r) == Newest(k) < r \/ (Newest(k) = r /\ k \in unconfirmed)

(* What the ESP has decoded is older than what a ring still holds, except  *)
(* for a record whose transfer only seemed to fail; once a transfer has    *)
(* succeeded, nothing newer than its record has been decoded.              *)
OrderInv == \A k \in Queues :
    /\ Newest(k) \in Nat
    /\ ~(spi_pc = "commit" /\ tx_kind = k) => Due(k, First(k))
    /\ spi_pc = "transfer" /\ tx_kind = k => Due(k, tx_buf) /\ tx_buf \in 1..pushed[k]
    /\ spi_pc = "commit" /\ tx_kind = k => Newest(k) <= tx_buf

(* The last record of a sequence just appended to. *)
LEMMA NewestAppend ==
  ASSUME NEW s \in Seq(Nat), NEW x \in Nat
  PROVE  /\ Append(s, x) # <<>>
         /\ Append(s, x)[Len(Append(s, x))] = x
         /\ Append(s, x) \in Seq(Nat)
OBVIOUS

(* Nothing is decoded initially. *)
LEMMA OrderInit == Init => OrderInv
BY DEF Init, OrderInv, Due, Newest, First, Queues

(* A frame clocked in adds the record under way to its ring's sequence or  *)
(* changes nothing.                                                        *)
LEMMA ReceivedNewest ==
  ASSUME TypeOK, NEW decoded \in BOOLEAN, Received(decoded), NEW k \in Queues
  PROVE  IF decoded /\ tx_kind = k
         THEN delivered'[k] = Append(delivered[k], tx_buf) /\ Newest(k)' = tx_buf
         ELSE delivered'[k] = delivered[k] /\ Newest(k)' = Newest(k)
<1>0. delivered \in [Queues -> Seq(Nat)] /\ delivered[k] \in Seq(Nat) /\ tx_buf \in Nat
  BY DEF TypeOK
<1>1. CASE decoded /\ tx_kind = k
  <2>1. delivered' = [delivered EXCEPT ![k] = Append(delivered[k], tx_buf)]
    BY <1>1 DEF Received
  <2>2. delivered'[k] = Append(delivered[k], tx_buf)
    BY <1>0, <2>1
  <2> QED
    BY <1>0, <1>1, <2>2, NewestAppend DEF Newest
<1>2. CASE ~(decoded /\ tx_kind = k)
  <2>1. delivered'[k] = delivered[k]
    BY <1>0, <1>2 DEF Received
  <2> QED
    BY <1>2, <2>1 DEF Newest
<1> QED
  BY <1>1, <1>2

(* A ring's oldest record is never older than one already decoded. *)
LEMMA OrderInduction == Safe /\ OrderInv /\ [Next]_vars => OrderInv'
<1> SUFFICES ASSUME Safe, OrderInv, [Next]_vars, NEW k \in Queues
             PROVE  /\ Newest(k)' \in Nat
                    /\ ~(spi_pc' = "commit" /\ tx_kind' = k) => Due(k, First(k))'
                    /\ spi_pc' = "transfer" /\ tx_kind' = k =>
                         Due(k, tx_buf)' /\ tx_buf' \in 1..pushed'[k]
                    /\ spi_pc' = "commit" /\ tx_kind' = k => Newest(k)' <= tx_buf'
  BY DEF OrderInv
<1>0. TypeOK /\ Accounted /\ NewestKept /\ PeekInv
  BY DEF Safe
<1>t. /\ overwrite[k] \in Nat /\ transmitted[k] \in Nat /\ First(k) \in Nat
      /\ pushed[k] \in Nat /\ tx_buf \in Nat /\ Size(k) \in Nat
  BY <1>0, SizeType DEF TypeOK, First
<1>o. /\ Newest(k) \in Nat
      /\ ~(spi_pc = "commit" /\ tx_kind = k) => Due(k, First(k))
      /\ spi_pc = "transfer" /\ tx_kind = k => Due(k, tx_buf) /\ tx_buf \in 1..pushed[k]
      /\ spi_pc = "commit" /\ tx_kind = k => Newest(k) <= tx_buf
  BY DEF OrderInv
<1>d. /\ Due(k, First(k))' = (Newest(k)' < First(k)' \/ (Newest(k)' = First(k)' /\ k \in unconfirmed'))
      /\ Due(k, tx_buf)' = (Newest(k)' < tx_buf' \/ (Newest(k)' = tx_buf' /\ k \in unconfirmed'))
  BY DEF Due
<1>p. spi_pc # "poll" /\ tx_kind = k =>
        ~Empty(k) /\ tx_buf <= First(k) /\ (First(k) = tx_buf => tail[k] = tx_index)
  <2> SUFFICES ASSUME spi_pc # "poll", tx_kind = k
               PROVE  ~Empty(k) /\ tx_buf <= First(k) /\ (First(k) = tx_buf => tail[k] = tx_index)
    OBVIOUS
  <2>1. /\ tx_index \in Indices(k) /\ ~Empty(k) /\ 0 <= First(k) - tx_buf
        /\ First(k) - tx_buf < Size(k) => tail[k] = Plus(k, tx_index, First(k) - tx_buf)
    BY <1>0 DEF PeekInv
  <2>2. First(k) = tx_buf => tail[k] = Plus(k, tx_index, 0)
    <3>1. Size(k) >= 2
      BY SizeType
    <3> QED
      BY <1>t, <2>1, <3>1
  <2>3. Plus(k, tx_index, 0) = tx_index
    BY <1>t, <2>1 DEF Plus, Indices
  <2> QED
    BY <1>t, <2>1, <2>2, <2>3
<1>1. ASSUME NEW j \in Queues, Enqueue(j)
      PROVE  /\ Newest(k)' = Newest(k) /\ UNCHANGED <<spi_pc, tx_kind, tx_buf, unconfirmed>>
             /\ First(k)' \in Nat /\ First(k) <= First(k)'
             /\ pushed'[k] \in Nat /\ pushed[k] <= pushed'[k]
  <2>1. Newest(k)' = Newest(k) /\ UNCHANGED <<spi_pc, tx_kind, tx_buf, unconfirmed>>
    BY <1>1 DEF Enqueue, Newest, peekVars, espVars
  <2>2. CASE j = k
    <3>1. /\ pushed'[k] = pushed[k] + 1 /\ transmitted'[k] = transmitted[k]
          /\ overwrite'[k] = overwrite[k] \/ overwrite'[k] = overwrite[k] + 1
      BY <1>0, <1>1, <2>2, EnqueueSame
    <3>2. First(k)' = overwrite'[k] + transmitted'[k] + 1
      BY DEF First
    <3> QED
      BY <1>t, <2>1, <3>1, <3>2 DEF First
  <2>3. CASE j # k
    BY <1>0, <1>1, <1>t, <2>1, <2>3, EnqueueOther DEF First
  <2> QED
    BY <2>2, <2>3
<1>2. CASE Peek
  <2>1. /\ Newest(k)' = Newest(k) /\ First(k)' = First(k) /\ pushed'[k] = pushed[k]
        /\ unconfirmed' = unconfirmed /\ spi_pc = "poll" /\ spi_pc' = "transfer"
    BY <1>2 DEF Peek, ringVars, espVars, Newest, First
  <2>2. tx_kind' = k => tx_buf' = q[k][tail[k]] /\ ~Empty(k)
    BY <1>2 DEF Peek, PeekFrom, Queues
  <2>3. ~Empty(k) => q[k][tail[k]] = First(k) /\ First(k) \in 1..pushed[k]
    <3> SUFFICES ASSUME ~Empty(k) PROVE q[k][tail[k]] = First(k) /\ First(k) \in 1..pushed[k]
      OBVIOUS
    <3>1. /\ head[k] \in 0..(Size(k) - 1) /\ tail[k] \in 0..(Size(k) - 1)
          /\ head[k] # tail[k]
      BY <1>0 DEF TypeOK, Indices, Empty
    <3>2. Behind(k, tail[k]) \in Nat /\ Behind(k, tail[k]) >= 1
      BY <1>t, <3>1 DEF Behind
    <3>3. pushed[k] = overwrite[k] + transmitted[k] + Behind(k, tail[k])
      BY <1>0 DEF Accounted
    <3> QED
      BY <1>0, <1>t, <3>2, <3>3, OldestRecord DEF First
  <2>4. Due(k, First(k))
    BY <1>o, <2>1
  <2>5. tx_kind' = k => tx_buf' = First(k) /\ First(k) \in 1..pushed[k]
    BY <2>2, <2>3
  <2>6. Due(k, First(k))'
    BY <1>d, <2>1, <2>4 DEF Due
  <2>7. tx_kind' = k => Due(k, tx_buf)'
    BY <1>d, <2>1, <2>4, <2>5 DEF Due
  <2> QED
    BY <1>o, <2>1, <2>5, <2>6, <2>7
<1>3. ASSUME NEW decoded \in BOOLEAN, TransferFail(decoded)
      PROVE  /\ First(k)' = First(k) /\ spi_pc = "transfer" /\ spi_pc' = "poll"
             /\ \/ Newest(k)' = Newest(k) /\ (k \in unconfirmed => k \in unconfirmed')
                \/ tx_kind = k /\ Newest(k)' = tx_buf /\ k \in unconfirmed'
  <2>1. First(k)' = First(k) /\ spi_pc = "transfer" /\ spi_pc' = "poll"
    BY <1>3 DEF TransferFail, ringVars, First
  <2>2. Received(decoded)
    BY <1>3 DEF TransferFail
  <2>3. CASE decoded /\ tx_kind = k
    <3>1. k \in unconfirmed'
      BY <1>3, <2>3 DEF TransferFail
    <3> QED
      BY <1>0, <2>1, <2>2, <2>3, <3>1, ReceivedNewest
  <2>4. CASE ~(decoded /\ tx_kind = k)
    <3>1. k \in unconfirmed => k \in unconfirmed'
      BY <1>3 DEF TransferFail
    <3> QED
      BY <1>0, <2>1, <2>2, <2>4, <3>1, ReceivedNewest
  <2> QED
    BY <2>3, <2>4
<1>4. ASSUME NEW decoded \in BOOLEAN, TransferDone(decoded)
      PROVE  /\ First(k)' = First(k) /\ spi_pc = "transfer" /\ spi_pc' = "commit"
             /\ UNCHANGED <<tx_kind, tx_buf>>
             /\ \/ Newest(k)' = Newest(k)
                \/ tx_kind = k /\ Newest(k)' = tx_buf
             /\ tx_kind # k => (k \in unconfirmed => k \in unconfirmed')
  <2>1. /\ First(k)' = First(k) /\ spi_pc = "transfer" /\ spi_pc' = "commit"
        /\ UNCHANGED <<tx_kind, tx_buf>>
        /\ tx_kind # k => (k \in unconfirmed => k \in unconfirmed')
    BY <1>4 DEF TransferDone, ringVars, peekVars, First
  <2>2. Received(decoded)
    BY <1>4 DEF TransferDone
  <2> QED
    BY <1>0, <2>1, <2>2, ReceivedNewest
<1>5. CASE Commit
  <2>1. /\ Newest(k)' = Newest(k) /\ unconfirmed' = unconfirmed
        /\ spi_pc = "commit" /\ spi_pc' = "poll"
    BY <1>5 DEF Commit, Newest, espVars
  <2>2. CASE tx_kind = k /\ tail[k] = tx_index
    <3>1. First(k)' = First(k) + 1
      <4>1. transmitted'[k] = transmitted[k] + 1 /\ overwrite' = overwrite
        <5>1. ~Empty(k)
          BY <1>p, <2>1, <2>2
        <5>2. transmitted'[k] = transmitted[k] + 1
          BY <1>0, <1>5, <2>2, <5>1, CommitDistances
        <5> QED
          BY <1>5, <5>2 DEF Commit
      <4>2. First(k)' = overwrite'[k] + transmitted'[k] + 1
        BY DEF First
      <4>3. overwrite'[k] = overwrite[k] /\ First(k) = overwrite[k] + transmitted[k] + 1
        BY <4>1 DEF First
      <4> HIDE DEF First
      <4> QED
        BY <1>t, <4>1, <4>2, <4>3
    <3>2. Newest(k)' < First(k)'
      BY <1>o, <1>p, <1>t, <2>1, <2>2, <3>1
    <3> QED
      BY <1>d, <1>o, <2>1, <3>2
  <2>3. CASE ~(tx_kind = k /\ tail[k] = tx_index)
    <3>1. First(k)' = First(k)
      BY <1>0, <1>5, <2>3 DEF Commit, TypeOK, First
    <3>2. CASE tx_kind = k
      <4>1. Newest(k)' < First(k)'
        BY <1>o, <1>p, <1>t, <2>1, <2>3, <3>1, <3>2
      <4> QED
        BY <1>d, <1>o, <2>1, <4>1
    <3>3. CASE tx_kind # k
      BY <1>d, <1>o, <2>1, <3>1, <3>3 DEF Due
    <3> QED
      BY <3>2, <3>3
  <2> QED
    BY <2>2, <2>3
<1>6. CASE UNCHANGED vars
  <2>1. /\ Newest(k)' = Newest(k) /\ First(k)' = First(k) /\ pushed' = pushed
        /\ UNCHANGED <<spi_pc, tx_kind, tx_buf, unconfirmed>>
    BY <1>6 DEF vars, ringVars, peekVars, espVars, Newest, First
  <2> QED
    BY <1>d, <1>o, <2>1 DEF Due
<1>7. CASE \E j \in Queues : Enqueue(j)
  <2>1. /\ Newest(k)' = Newest(k) /\ UNCHANGED <<spi_pc, tx_kind, tx_buf, unconfirmed>>
        /\ First(k)' \in Nat /\ First(k) <= First(k)'
        /\ pushed'[k] \in Nat /\ pushed[k] <= pushed'[k]
    BY <1>1, <1>7
  <2>2. Due(k, First(k)) => Due(k, First(k))'
    BY <1>d, <1>o, <1>t, <2>1 DEF Due
  <2>3. Due(k, tx_buf) => Due(k, tx_buf)'
    BY <1>d, <2>1 DEF Due
  <2>4. tx_buf \in 1..pushed[k] => tx_buf' \in 1..pushed'[k]
    BY <1>t, <2>1
  <2> QED
    BY <1>o, <2>1, <2>2, <2>3, <2>4
<1>8. CASE \E decoded \in BOOLEAN : TransferFail(decoded)
  <2>1. /\ First(k)' = First(k) /\ spi_pc = "transfer" /\ spi_pc' = "poll"
        /\ \/ Newest(k)' = Newest(k) /\ (k \in unconfirmed => k \in unconfirmed')
           \/ tx_kind = k /\ Newest(k)' = tx_buf /\ k \in unconfirmed'
    BY <1>3, <1>8
  <2>2. Due(k, First(k))'
    BY <1>d, <1>o, <1>p, <1>t, <2>1 DEF Due
  <2> QED
    BY <1>o, <1>t, <2>1, <2>2
<1>9. CASE \E decoded \in BOOLEAN : TransferDone(decoded)
  <2>1. /\ First(k)' = First(k) /\ spi_pc = "transfer" /\ spi_pc' = "commit"
        /\ UNCHANGED <<tx_kind, tx_buf>>
        /\ \/ Newest(k)' = Newest(k)
           \/ tx_kind = k /\ Newest(k)' = tx_buf
        /\ tx_kind # k => (k \in unconfirmed => k \in unconfirmed')
    BY <1>4, <1>9
  <2>2. CASE tx_kind = k
    BY <1>o, <1>t, <2>1, <2>2 DEF Due
  <2>3. CASE tx_kind # k
    BY <1>d, <1>o, <2>1, <2>3 DEF Due
  <2> QED
    BY <2>2, <2>3
<1> QED
  BY <1>2, <1>5, <1>6, <1>7, <1>8, <1>9 DEF Next

(* What one step does to a ring's records, as the ESP sees them. *)
LEMMA ChannelStep ==
  ASSUME TypeOK, OrderInv, [Next]_vars, NEW k \in Queues
  PROVE  \/ /\ pushed'[k] = pushed[k] /\ delivered'[k] = delivered[k]
            /\ k \in unconfirmed' <=> k \in unconfirmed
         \/ /\ pushed'[k] = pushed[k] + 1 /\ delivered'[k] = delivered[k]
            /\ k \in unconfirmed' <=> k \in unconfirmed
         \/ /\ pushed'[k] = pushed[k] /\ Due(k, tx_buf) /\ tx_buf \in 1..pushed[k]
            /\ delivered'[k] = Append(delivered[k], tx_buf)
         \/ /\ pushed'[k] = pushed[k] /\ delivered'[k] = delivered[k]
            /\ k \notin unconfirmed'
<1>1. CASE \E j \in Queues : Enqueue(j)
  BY <1>1 DEF Enqueue, TypeOK, espVars
<1>2. ASSUME NEW decoded \in BOOLEAN, TransferFail(decoded) \/ TransferDone(decoded)
      PROVE  \/ /\ pushed'[k] = pushed[k] /\ delivered'[k] = delivered[k]
                /\ k \in unconfirmed' <=> k \in unconfirmed
             \/ /\ pushed'[k] = pushed[k] /\ Due(k, tx_buf) /\ tx_buf \in 1..pushed[k]
                /\ delivered'[k] = Append(delivered[k], tx_buf)
             \/ /\ pushed'[k] = pushed[k] /\ delivered'[k] = delivered[k]
                /\ k \notin unconfirmed'
  <2>1. Received(decoded) /\ pushed' = pushed /\ spi_pc = "transfer"
    BY <1>2 DEF TransferFail, TransferDone
  <2>2. CASE decoded /\ tx_kind = k
    <3>1. Due(k, tx_buf) /\ tx_buf \in 1..pushed[k]
      BY <2>1, <2>2 DEF OrderInv
    <3> QED
      BY <2>1, <2>2, <3>1, ReceivedNewest
  <2>3. CASE ~(decoded /\ tx_kind = k)
    <3>1. delivered'[k] = delivered[k]
      BY <2>1, <2>3, ReceivedNewest
    <3>2. (k \in unconfirmed' <=> k \in unconfirmed) \/ k \notin unconfirmed'
      BY <1>2, <2>3 DEF TransferFail, TransferDone
    <3> QED
      BY <2>1, <3>1, <3>2
  <2> QED
    BY <2>2, <2>3
<1>3. CASE UNCHANGED <<pushed, delivered, unconfirmed>>
  BY <1>3
<1> QED
  BY <1>1, <1>2, <1>3 DEF Next, vars, espVars, Peek, Commit

(* Each outbound ring, with its overflow, its rejected frames and its      *)
(* retries of transfers that may have arrived, implements RetryChannel: no *)
(* record is reordered or invented, and only the newest one is repeated,   *)
(* until a transfer has succeeded, whatever the sizes of the rings.        *)
THEOREM ChannelsCorrect == Spec => ChannelsImplemented
<1>1. Init => Control!RcInit /\ Audio!RcInit
  BY DEF Init, Control!RcInit, Audio!RcInit, Queues
<1>2. ASSUME NEW m \in Nat, NEW m2 \in Nat, m2 = m + 1
      PROVE  m2 \in 1..m2 /\ (\A g \in 1..m : g < m2) /\ 1..m2 = (1..m) \cup {m2}
  BY <1>2
<1>3. TypeOK /\ OrderInv /\ [Next]_vars => [Control!RcNext]_(Control!rcVars)
  <2> SUFFICES ASSUME TypeOK, OrderInv, [Next]_vars PROVE [Control!RcNext]_(Control!rcVars)
    OBVIOUS
  <2> DEFINE k == "control"
  <2>0. k \in Queues /\ pushed[k] \in Nat
    BY DEF Queues, TypeOK
  <2>1. CASE /\ pushed'[k] = pushed[k] /\ delivered'[k] = delivered[k]
             /\ k \in unconfirmed' <=> k \in unconfirmed
    BY <2>1 DEF Control!rcVars
  <2>2. CASE /\ pushed'[k] = pushed[k] + 1 /\ delivered'[k] = delivered[k]
             /\ k \in unconfirmed' <=> k \in unconfirmed
    BY <1>2, <2>0, <2>2 DEF Control!RcNext, Control!RcAccept
  <2>3. CASE /\ pushed'[k] = pushed[k] /\ Due(k, tx_buf) /\ tx_buf \in 1..pushed[k]
             /\ delivered'[k] = Append(delivered[k], tx_buf)
    BY <2>0, <2>3 DEF Control!RcNext, Control!RcDeliver, Control!Newest, Newest, Due
  <2>4. CASE /\ pushed'[k] = pushed[k] /\ delivered'[k] = delivered[k]
             /\ k \notin unconfirmed'
    BY <2>4 DEF Control!RcNext, Control!RcConfirm
  <2> QED
    BY <2>0, <2>1, <2>2, <2>3, <2>4, ChannelStep
<1>4. TypeOK /\ OrderInv /\ [Next]_vars => [Audio!RcNext]_(Audio!rcVars)
  <2> SUFFICES ASSUME TypeOK, OrderInv, [Next]_vars PROVE [Audio!RcNext]_(Audio!rcVars)
    OBVIOUS
  <2> DEFINE k == "audio"
  <2>0. k \in Queues /\ pushed[k] \in Nat
    BY DEF Queues, TypeOK
  <2>1. CASE /\ pushed'[k] = pushed[k] /\ delivered'[k] = delivered[k]
             /\ k \in unconfirmed' <=> k \in unconfirmed
    BY <2>1 DEF Audio!rcVars
  <2>2. CASE /\ pushed'[k] = pushed[k] + 1 /\ delivered'[k] = delivered[k]
             /\ k \in unconfirmed' <=> k \in unconfirmed
    BY <1>2, <2>0, <2>2 DEF Audio!RcNext, Audio!RcAccept
  <2>3. CASE /\ pushed'[k] = pushed[k] /\ Due(k, tx_buf) /\ tx_buf \in 1..pushed[k]
             /\ delivered'[k] = Append(delivered[k], tx_buf)
    BY <2>0, <2>3 DEF Audio!RcNext, Audio!RcDeliver, Audio!Newest, Newest, Due
  <2>4. CASE /\ pushed'[k] = pushed[k] /\ delivered'[k] = delivered[k]
             /\ k \notin unconfirmed'
    BY <2>4 DEF Audio!RcNext, Audio!RcConfirm
  <2> QED
    BY <2>0, <2>1, <2>2, <2>3, <2>4, ChannelStep
<1>5. Safe => TypeOK
  BY DEF Safe
<1> QED
  BY <1>1, <1>3, <1>4, <1>5, OrderInit, OrderInduction, SafeAlways, PTL
     DEF Spec, ChannelsImplemented, Control!RcSpec, Audio!RcSpec

=============================================================================
