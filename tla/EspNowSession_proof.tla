------------------------ MODULE EspNowSession_proof ------------------------
(***************************************************************************)
(* The ESP-NOW session, proved for any number of nodes, any table size and *)
(* queue capacity, and any loss and interleaving of packets.               *)
(***************************************************************************)
EXTENDS EspNowSession, FiniteSetTheorems, WellFoundedInduction, TLAPS

NodeType == [state : {"idle", "scanning", "joining", "active"},
             role : {"none", "coordinator", "participant"},
             id : 0..MaxNodes, slot : -1..MaxNodes - 1, coord : 0..MaxNodes,
             cmac : Addr \cup {NoAddr}, count : 0..MaxNodes, armed : BOOLEAN]

(* Only a coordinator sends SYNC, and its id is 1; what it assigns, in a   *)
(* JOIN_ACK or a SLOT_MAP, follows from the id alone.                      *)
Packets == {p \in PacketType :
              /\ p.kind = "SYNC" => p.src = 1
              /\ p.kind = "JOIN_ACK" => p.id \in Ids /\ p.slot = p.id - 1
              /\ p.kind = "SLOT_MAP" => \A s \in Index : p.map[s] \in {0, s + 1}}

(* The control queue holds assignments; LEAVE is sent at once.             *)
Controls == {p \in Packets : p.kind \in {"JOIN_ACK", "SLOT_MAP"}}

InUse(table) == {i \in Index : table[i].active}

(* One node: its record r, its table t, the entries s it has not heard of  *)
(* and the packets o it has queued.                                        *)
GoodNode(r) ==
    /\ r \in NodeType
    /\ r.role = "coordinator" => r.state = "active" /\ r.id = 1
    /\ r.state = "active" => r.id \in Ids /\ r.slot = r.id - 1
    /\ r.state # "active" => r.role = "none"

OwnTable(n, t) ==
    /\ \A i \in Index : t[i].id \in {0, i + 1} /\ (t[i].active => t[i].id = i + 1 /\ t[i].slot = i)
    /\ t[0].addr = n /\ t[0].active
    /\ \A i, j \in Index : t[i].active /\ t[j].active /\ t[i].addr = t[j].addr => i = j

Good(n, r, t, s, o) ==
    /\ GoodNode(r)
    /\ t \in [Index -> PeerEntry] /\ s \in SUBSET Index /\ o \in SUBSET Controls
    /\ r.role = "coordinator" => OwnTable(n, t) /\ r.count = Cardinality(InUse(t))
    /\ r.state \in {"idle", "scanning"} =>
         r = Unassigned(r.state) /\ t = NoPeers /\ s = {} /\ o = {}

NodesInv ==
    /\ node \in [Addr -> NodeType] /\ peers \in [Addr -> [Index -> PeerEntry]]
    /\ silent \in [Addr -> SUBSET Index] /\ outbox \in [Addr -> SUBSET Controls]
    /\ \A n \in Addr : Good(n, node[n], peers[n], silent[n], outbox[n])
    /\ upsets \in Nat

RxInv ==
    /\ rx_queue \in [Addr -> Seq(Packets)]
    /\ \A n \in Addr : Len(rx_queue[n]) <= RxQueue

(* A listed member is in its coordinator's table under its id, and no      *)
(* LEAVE of it waits there.                                                *)
MembersInv ==
    /\ members \in [Addr -> SUBSET Addr]
    /\ \A c \in Addr : \A n \in members[c] :
         /\ IsCoordinator(c) /\ Active(n) /\ IsParticipant(n)
         /\ \E i \in ActiveAt(c, n) : peers[c][i].id = node[n].id
         /\ \A k \in DOMAIN rx_queue[c] : ~(rx_queue[c][k].kind = "LEAVE" /\ rx_queue[c][k].from = n)
-----------------------------------------------------------------------------
(* The table's indexes, and how many entries are in use.                   *)
LEMMA TableSize ==
  ASSUME NEW S \in SUBSET Index
  PROVE  /\ IsFiniteSet(S) /\ Cardinality(S) \in 0..MaxNodes
         /\ S # Index => Cardinality(S) < MaxNodes
<1>1. 0 \in Int /\ MaxNodes - 1 \in Int /\ MaxNodes \in Nat /\ ~(0 > MaxNodes - 1)
  BY SessionAssumption
<1>2. IsFiniteSet(Index) /\ Cardinality(Index) = MaxNodes
  BY <1>1, FS_Interval DEF Index
<1>3. /\ IsFiniteSet(S) /\ Cardinality(S) <= Cardinality(Index)
      /\ Cardinality(Index) = Cardinality(S) => Index = S
  BY <1>2, FS_Subset
<1>4. Cardinality(S) \in Nat
  BY <1>3, FS_CardinalityType
<1>5. QED
  BY <1>1, <1>2, <1>3, <1>4

(* The constants of a fresh node.                                          *)
LEMMA Fresh ==
  /\ 0 \in Index /\ 1 \in Ids /\ 0 \in 0..MaxNodes /\ 1 \in 0..MaxNodes
  /\ NoPeers \in [Index -> PeerEntry] /\ NoMap \in [Index -> 0..MaxNodes]
  /\ \A i \in Index : NoPeers[i] = NoPeer /\ i \in 0..MaxNodes /\ i + 1 \in Ids /\ i + 1 \in 0..MaxNodes
<1>1. /\ 0 \in Index /\ 1 \in Ids /\ 0 \in 0..MaxNodes /\ 1 \in 0..MaxNodes
      /\ \A i \in Index : i \in 0..MaxNodes /\ i + 1 \in Ids /\ i + 1 \in 0..MaxNodes
  BY SessionAssumption DEF Index, Ids
<1>2. NoPeer \in PeerEntry
  BY <1>1 DEF NoPeer, PeerEntry
<1>3. QED
  BY <1>1, <1>2 DEF NoPeers, NoMap

(* A node without a session is good in any of the states that have none.   *)
LEMMA FreshGood ==
  ASSUME NEW n \in Addr, NEW state \in {"idle", "scanning"}
  PROVE  Good(n, Unassigned(state), NoPeers, {}, {})
<1>1. Unassigned(state).state = state /\ Unassigned(state).role = "none"
  BY DEF Unassigned
<1>2. -1 \in -1..MaxNodes - 1 /\ NoAddr \in Addr \cup {NoAddr}
  BY SessionAssumption
<1>3. Unassigned(state) \in NodeType
  BY <1>2, Fresh DEF Unassigned, NodeType
<1>4. QED
  BY <1>1, <1>3, Fresh DEF Good, GoodNode
-----------------------------------------------------------------------------
(* Packets.                                                                *)
LEMMA PlainPacket ==
  ASSUME NodesInv, NEW n \in Addr, NEW kind \in {"ALIVE", "LEAVE", "SYNC"},
         kind = "SYNC" => IsCoordinator(n)
  PROVE  Packet(kind, n) \in Packets /\ Packet(kind, n).kind = kind /\ Packet(kind, n).from = n
<1>1. node[n].id \in 0..MaxNodes /\ (kind = "SYNC" => node[n].id = 1)
  BY DEF NodesInv, Good, GoodNode, NodeType, IsCoordinator
<1>2. 0 \in Index /\ 0 \in 0..MaxNodes /\ NoMap \in [Index -> 0..MaxNodes]
  BY Fresh
<1>3. Packet(kind, n) \in PacketType
  BY <1>1, <1>2 DEF Packet, PacketType
<1>4. QED
  BY <1>1, <1>3 DEF Packet, Packets

(* JOIN is a packet, from any node.                                        *)
LEMMA JoinPacket ==
  ASSUME NodesInv, NEW n \in Addr
  PROVE  Join(n) \in Packets /\ Join(n).kind = "JOIN"
<1>1. 0 \in Index /\ 0 \in 0..MaxNodes /\ NoMap \in [Index -> 0..MaxNodes]
  BY Fresh
<1>2. Join(n) = [kind |-> "JOIN", from |-> n, src |-> 0, to |-> NoAddr, id |-> 0, slot |-> 0, map |-> NoMap]
  BY DEF Join, Packet
<1>3. QED
  BY <1>1, <1>2 DEF PacketType, Packets

(* A JOIN_ACK built from a table entry names an id and its slot.           *)
LEMMA JoinAckPacket ==
  ASSUME NodesInv, NEW n \in Addr, NEW e \in PeerEntry, e.id \in Ids, e.slot = e.id - 1
  PROVE  JoinAck(n, e) \in Controls
<1>1. node[n].id \in 0..MaxNodes
  BY DEF NodesInv, NodeType
<1>2. NoMap \in [Index -> 0..MaxNodes]
  BY Fresh
<1> DEFINE p(to, id, slot) == [kind |-> "JOIN_ACK", from |-> n, src |-> node[n].id, to |-> to, id |-> id,
                               slot |-> slot, map |-> NoMap]
<1>a. [p(NoAddr, 0, 0) EXCEPT !.to = e.addr] = p(e.addr, 0, 0)
  OBVIOUS
<1>b. [p(e.addr, 0, 0) EXCEPT !.id = e.id] = p(e.addr, e.id, 0)
  OBVIOUS
<1>c. [p(e.addr, e.id, 0) EXCEPT !.slot = e.slot] = p(e.addr, e.id, e.slot)
  OBVIOUS
<1>d. JoinAck(n, e) = [p(NoAddr, 0, 0) EXCEPT !.to = e.addr, !.id = e.id, !.slot = e.slot]
  BY DEF JoinAck, Packet
<1>3. JoinAck(n, e) = p(e.addr, e.id, e.slot)
  BY <1>a, <1>b, <1>c, <1>d
<1>4. e.addr \in Addr \cup {NoAddr} /\ e.id \in 0..MaxNodes /\ e.slot \in Index
  BY DEF PeerEntry
<1>5. JoinAck(n, e) \in PacketType
  BY <1>1, <1>2, <1>3, <1>4 DEF PacketType
<1>6. QED
  BY <1>3, <1>5 DEF Packets, Controls

(* The map of a coordinator's table lists each id at its own slot.         *)
LEMMA SlotMapPacket ==
  ASSUME NodesInv, NEW n \in Addr, NEW t \in [Index -> PeerEntry], OwnTable(n, t)
  PROVE  SlotMap(n, t) \in Controls
<1> DEFINE at(s) == {i \in Index : t[i].active /\ t[i].slot = s}
           map == [s \in Index |-> IF \E i \in Index : t[i].active /\ t[i].slot = s
                                   THEN t[CHOOSE i \in Index : t[i].active /\ t[i].slot = s].id
                                   ELSE 0]
<1>1. node[n].id \in 0..MaxNodes
  BY DEF NodesInv, NodeType
<1>2. ASSUME NEW s \in Index PROVE map[s] \in {0, s + 1} /\ map[s] \in 0..MaxNodes
  <2>1. CASE \E i \in Index : t[i].active /\ t[i].slot = s
    <3> DEFINE c == CHOOSE i \in Index : t[i].active /\ t[i].slot = s
    <3>1. c \in Index /\ t[c].active /\ t[c].slot = s
      BY <2>1
    <3>2. map[s] = t[c].id
      BY <2>1
    <3> HIDE DEF c, map
    <3>3. t[c].id = c + 1 /\ t[c].slot = c
      BY <3>1 DEF OwnTable
    <3>4. QED
      BY <3>1, <3>2, <3>3, Fresh
  <2>2. CASE ~(\E i \in Index : t[i].active /\ t[i].slot = s)
    <3>1. map[s] = 0
      BY <2>2
    <3>2. QED
      BY <3>1, Fresh
  <2>3. QED
    BY <2>1, <2>2
<1>3. SlotMap(n, t) = [kind |-> "SLOT_MAP", from |-> n, src |-> node[n].id, to |-> NoAddr, id |-> 0,
                       slot |-> 0, map |-> map]
  BY DEF SlotMap, Packet
<1>4. map = [s \in Index |-> map[s]]
  OBVIOUS
<1> HIDE DEF map
<1>5. map \in [Index -> 0..MaxNodes]
  BY <1>2, <1>4
<1>6. SlotMap(n, t) \in PacketType
  BY <1>1, <1>3, <1>5, Fresh DEF PacketType
<1>7. QED
  BY <1>2, <1>3, <1>6 DEF Packets, Controls

(* enqueue_control_packet.                                                 *)
LEMMA QueueType ==
  ASSUME NEW o \in SUBSET Controls, NEW p \in Controls
  PROVE  Queue(o, p) \in SUBSET Controls
BY DEF Queue
-----------------------------------------------------------------------------
(* What a step adds to the receive queues.                                 *)
LeaveWaits(q, n) == \E k \in DOMAIN q : q[k].kind = "LEAVE" /\ q[k].from = n

(* A LEAVE waiting after an append waited before it, or was appended.      *)
LEMMA LeaveAppended ==
  ASSUME NEW q \in Seq(Packets), NEW p \in Packets, NEW n, LeaveWaits(Append(q, p), n)
  PROVE  LeaveWaits(q, n) \/ (p.kind = "LEAVE" /\ p.from = n)
<1>1. PICK k \in DOMAIN Append(q, p) : Append(q, p)[k].kind = "LEAVE" /\ Append(q, p)[k].from = n
  BY DEF LeaveWaits
<1>2. k \in 1..(Len(q) + 1) /\ Len(q) \in Nat /\ DOMAIN q = 1..Len(q)
  OBVIOUS
<1>3. CASE k = Len(q) + 1
  <2>1. Append(q, p)[k] = p
    BY <1>2, <1>3
  <2>2. QED
    BY <1>1, <2>1
<1>4. CASE k # Len(q) + 1
  <2>1. k \in DOMAIN q /\ Append(q, p)[k] = q[k]
    BY <1>2, <1>4
  <2>2. QED
    BY <1>1, <2>1 DEF LeaveWaits
<1>5. QED
  BY <1>3, <1>4

(* A LEAVE behind the head of a queue was waiting in the queue.            *)
LEMMA LeaveTaken ==
  ASSUME NEW q \in Seq(Packets), q # <<>>, NEW n, LeaveWaits(Tail(q), n)
  PROVE  LeaveWaits(q, n)
<1>1. PICK k \in DOMAIN Tail(q) : Tail(q)[k].kind = "LEAVE" /\ Tail(q)[k].from = n
  BY DEF LeaveWaits
<1>2. k + 1 \in DOMAIN q /\ Tail(q)[k] = q[k + 1]
  BY <1>1
<1>3. QED
  BY <1>1, <1>2 DEF LeaveWaits

(* A transmission appends to some of the queues, within their capacity.    *)
LEMMA HeardRx ==
  ASSUME RxInv, NEW p \in Packets, NEW heard
  PROVE  /\ Heard(p, heard) \in [Addr -> Seq(Packets)]
         /\ \A m \in Addr : /\ Len(Heard(p, heard)[m]) <= RxQueue
                            /\ \A n : LeaveWaits(Heard(p, heard)[m], n) =>
                                 LeaveWaits(rx_queue[m], n) \/ (p.kind = "LEAVE" /\ p.from = n)
<1> DEFINE h == Heard(p, heard)
<1>1. h = [m \in Addr |-> IF m \in heard /\ Len(rx_queue[m]) < RxQueue
                          THEN Append(rx_queue[m], p) ELSE rx_queue[m]]
  BY DEF Heard
<1>2. ASSUME NEW m \in Addr
      PROVE  /\ h[m] \in Seq(Packets) /\ Len(h[m]) <= RxQueue
             /\ \A n : LeaveWaits(h[m], n) => LeaveWaits(rx_queue[m], n) \/ (p.kind = "LEAVE" /\ p.from = n)
  <2>1. rx_queue[m] \in Seq(Packets) /\ Len(rx_queue[m]) <= RxQueue /\ RxQueue \in Nat
    BY SessionAssumption DEF RxInv
  <2>2. CASE m \in heard /\ Len(rx_queue[m]) < RxQueue
    <3>1. h[m] = Append(rx_queue[m], p)
      BY <1>1, <2>2
    <3>2. Append(rx_queue[m], p) \in Seq(Packets) /\ Len(Append(rx_queue[m], p)) <= RxQueue
      BY <2>1, <2>2
    <3>3. QED
      BY <2>1, <3>1, <3>2, LeaveAppended
  <2>3. CASE ~(m \in heard /\ Len(rx_queue[m]) < RxQueue)
    BY <1>1, <2>1, <2>3
  <2>4. QED
    BY <2>2, <2>3
<1> HIDE DEF h
<1>3. h \in [Addr -> Seq(Packets)]
  BY <1>1, <1>2
<1>4. QED
  BY <1>2, <1>3 DEF h

(* The queues after a step of n, which may have sent a LEAVE.              *)
RxStep(n, leaves) ==
    /\ RxInv'
    /\ \A m, k \in Addr : LeaveWaits(rx_queue'[m], k) => LeaveWaits(rx_queue[m], k) \/ (leaves /\ k = n)

(* A broadcast keeps the receive queues typed and bounded.                 *)
LEMMA BroadcastRx ==
  ASSUME RxInv, NEW n \in Addr, NEW p \in Packets, p.kind # "LEAVE", Broadcast(p)
  PROVE  RxStep(n, FALSE)
<1>1. PICK heard \in Receptions(p) : rx_queue' = Heard(p, heard)
  BY DEF Broadcast
<1>2. QED
  BY <1>1, HeardRx DEF RxStep, RxInv

(* So does taking the head of a queue.                                     *)
LEMMA TakeRx ==
  ASSUME RxInv, NEW n \in Addr, rx_queue[n] # <<>>, rx_queue' = [rx_queue EXCEPT ![n] = Tail(@)]
  PROVE  RxStep(n, FALSE) /\ Head(rx_queue[n]) \in Packets
<1>1. /\ rx_queue[n] \in Seq(Packets) /\ Len(rx_queue[n]) <= RxQueue /\ RxQueue \in Nat
      /\ rx_queue \in [Addr -> Seq(Packets)]
  BY SessionAssumption DEF RxInv
<1>2. Tail(rx_queue[n]) \in Seq(Packets) /\ Len(Tail(rx_queue[n])) <= RxQueue /\ Head(rx_queue[n]) \in Packets
  BY <1>1
<1>3. rx_queue'[n] = Tail(rx_queue[n]) /\ (\A m \in Addr \ {n} : rx_queue'[m] = rx_queue[m])
      /\ rx_queue' \in [Addr -> Seq(Packets)]
  BY <1>1, <1>2
<1>4. RxInv'
  BY <1>2, <1>3 DEF RxInv
<1>5. \A m, k \in Addr : LeaveWaits(rx_queue'[m], k) => LeaveWaits(rx_queue[m], k)
  BY <1>1, <1>3, LeaveTaken
<1>6. QED
  BY <1>2, <1>4, <1>5 DEF RxStep

(* So does a step that leaves the queues alone.                            *)
LEMMA SameRx ==
  ASSUME RxInv, NEW n \in Addr, UNCHANGED rx_queue
  PROVE  RxStep(n, FALSE)
BY DEF RxStep, RxInv

(* A queue that is emptied.                                                *)
LEMMA ClearedRx ==
  ASSUME NEW n \in Addr, NEW leaves \in BOOLEAN, NEW q \in [Addr -> Seq(Packets)],
         \A m \in Addr : Len(q[m]) <= RxQueue,
         \A m, k \in Addr : LeaveWaits(q[m], k) => LeaveWaits(rx_queue[m], k) \/ (leaves /\ k = n),
         rx_queue' = [q EXCEPT ![n] = <<>>]
  PROVE  RxStep(n, leaves)
<1>1. <<>> \in Seq(Packets) /\ Len(<<>>) <= RxQueue /\ \A k : ~LeaveWaits(<<>>, k)
  BY SessionAssumption DEF LeaveWaits
<1>2. /\ rx_queue'[n] = <<>> /\ (\A m \in Addr \ {n} : rx_queue'[m] = q[m])
      /\ rx_queue' \in [Addr -> Seq(Packets)]
  BY <1>1
<1>3. RxInv'
  BY <1>1, <1>2 DEF RxInv
<1>4. QED
  BY <1>1, <1>2, <1>3 DEF RxStep
-----------------------------------------------------------------------------
(* A step of node n replaces its record, table, silence and queue, or      *)
(* leaves them.                                                            *)
Replaces(n, r, t, s, o) ==
    /\ node' = [node EXCEPT ![n] = r] \/ (node' = node /\ r = node[n])
    /\ peers' = [peers EXCEPT ![n] = t] \/ (peers' = peers /\ t = peers[n])
    /\ silent' = [silent EXCEPT ![n] = s] \/ (silent' = silent /\ s = silent[n])
    /\ outbox' = [outbox EXCEPT ![n] = o] \/ (outbox' = outbox /\ o = outbox[n])

(* A step that gives one node a good record, table and outbox.             *)
LEMMA Replaced ==
  ASSUME NodesInv, NEW n \in Addr, NEW r, NEW t, NEW s, NEW o, Replaces(n, r, t, s, o),
         Good(n, r, t, s, o), upsets' \in Nat
  PROVE  /\ NodesInv'
         /\ node'[n] = r /\ peers'[n] = t /\ silent'[n] = s /\ outbox'[n] = o
         /\ \A m \in Addr \ {n} : node'[m] = node[m] /\ peers'[m] = peers[m]
<1>1. r \in NodeType /\ t \in [Index -> PeerEntry] /\ s \in SUBSET Index /\ o \in SUBSET Controls
  BY DEF Good, GoodNode
<1>2. /\ node' \in [Addr -> NodeType] /\ node'[n] = r /\ \A m \in Addr \ {n} : node'[m] = node[m]
  BY <1>1 DEF NodesInv, Replaces
<1>3. /\ peers' \in [Addr -> [Index -> PeerEntry]] /\ peers'[n] = t /\ \A m \in Addr \ {n} : peers'[m] = peers[m]
  BY <1>1 DEF NodesInv, Replaces
<1>4. /\ silent' \in [Addr -> SUBSET Index] /\ silent'[n] = s /\ \A m \in Addr \ {n} : silent'[m] = silent[m]
  BY <1>1 DEF NodesInv, Replaces
<1>5. /\ outbox' \in [Addr -> SUBSET Controls] /\ outbox'[n] = o /\ \A m \in Addr \ {n} : outbox'[m] = outbox[m]
  BY <1>1 DEF NodesInv, Replaces
<1>6. \A m \in Addr : Good(m, node'[m], peers'[m], silent'[m], outbox'[m])
  BY <1>2, <1>3, <1>4, <1>5 DEF NodesInv
<1>7. QED
  BY <1>2, <1>3, <1>4, <1>5, <1>6 DEF NodesInv

(* Fewer silent entries and packets leave a node good.                     *)
LEMMA GoodLess ==
  ASSUME NEW n, NEW r, NEW t, NEW s, NEW o, Good(n, r, t, s, o),
         NEW s1 \in SUBSET s, NEW o1 \in SUBSET o
  PROVE  Good(n, r, t, s1, o1)
BY DEF Good

(* Outside idle and scanning the two sets are free.                        *)
LEMMA GoodActive ==
  ASSUME NEW n, NEW r, NEW t, NEW s, NEW o, Good(n, r, t, s, o), r.state \notin {"idle", "scanning"},
         NEW s1 \in SUBSET Index, NEW o1 \in SUBSET Controls
  PROVE  Good(n, r, t, s1, o1)
BY DEF Good
-----------------------------------------------------------------------------
(* Who can be listed.                                                      *)
LEMMA Unlisted ==
  ASSUME NodesInv, MembersInv, NEW n \in Addr
  PROVE  /\ ~IsCoordinator(n) => members[n] = {}
         /\ ~(Active(n) /\ IsParticipant(n)) => \A c \in Addr : n \notin members[c]
         /\ ~Active(n) => ~IsCoordinator(n)
BY DEF MembersInv, NodesInv, Good, GoodNode, IsCoordinator, Active

(* A step of n keeps the members that it does not strike out, when n keeps *)
(* their entries, as a coordinator, and its identity, as a member.         *)
LEMMA MembersKept ==
  ASSUME NodesInv, MembersInv, NEW n \in Addr, NEW leaves \in BOOLEAN, RxStep(n, leaves),
         members' \in [Addr -> SUBSET Addr],
         \A m \in Addr \ {n} : node'[m] = node[m] /\ peers'[m] = peers[m],
         \A c \in Addr : members'[c] \subseteq members[c],
         leaves => \A c \in Addr : n \notin members'[c],
         \/ members'[n] = {}
         \/ /\ node'[n].role = "coordinator"
            /\ \A m \in members'[n], i \in Index :
                 peers[n][i].active /\ peers[n][i].addr = m =>
                   peers'[n][i].active /\ peers'[n][i].addr = m /\ peers'[n][i].id = peers[n][i].id,
         \/ \A c \in Addr : n \notin members'[c]
         \/ node'[n].state = "active" /\ node'[n].role = "participant" /\ node'[n].id = node[n].id
  PROVE  MembersInv'
<1> SUFFICES ASSUME NEW c \in Addr, NEW m \in members'[c]
             PROVE  /\ IsCoordinator(c)' /\ Active(m)' /\ IsParticipant(m)'
                    /\ \E i \in ActiveAt(c, m)' : peers'[c][i].id = node'[m].id
                    /\ ~LeaveWaits(rx_queue'[c], m)
  BY DEF MembersInv, LeaveWaits
<1>1. m \in members[c] /\ m \in Addr
  BY DEF MembersInv
<1>2. /\ node[c].role = "coordinator" /\ node[m].state = "active" /\ node[m].role = "participant"
      /\ ~LeaveWaits(rx_queue[c], m)
  BY <1>1 DEF MembersInv, IsCoordinator, Active, IsParticipant, LeaveWaits
<1>3. PICK i \in Index : peers[c][i].active /\ peers[c][i].addr = m /\ peers[c][i].id = node[m].id
  BY <1>1 DEF MembersInv, ActiveAt
<1>4. m # c
  BY <1>2
<1>5. node'[c].role = "coordinator" /\ peers'[c][i].active /\ peers'[c][i].addr = m
      /\ peers'[c][i].id = peers[c][i].id
  BY <1>2, <1>3
<1>6. node'[m].state = "active" /\ node'[m].role = "participant" /\ node'[m].id = node[m].id
  BY <1>1, <1>2
<1>7. ~LeaveWaits(rx_queue'[c], m)
  BY <1>1, <1>2 DEF RxStep
<1>8. i \in ActiveAt(c, m)' /\ peers'[c][i].id = node'[m].id
  BY <1>3, <1>5, <1>6 DEF ActiveAt
<1>9. IsCoordinator(c)' /\ Active(m)' /\ IsParticipant(m)'
  BY <1>5, <1>6 DEF IsCoordinator, Active, IsParticipant
<1>10. QED
  BY <1>7, <1>8, <1>9

(* The same for a step that only changes queues and what is silent.        *)
LEMMA MembersSame ==
  ASSUME NodesInv, MembersInv, NEW n \in Addr, RxStep(n, FALSE), UNCHANGED <<node, peers, members>>
  PROVE  MembersInv'
<1>1. members \in [Addr -> SUBSET Addr]
  BY DEF MembersInv
<1>2. members[n] = {} \/ node[n].role = "coordinator"
  BY DEF MembersInv, IsCoordinator
<1>3. (\A c \in Addr : n \notin members[c]) \/ (node[n].state = "active" /\ node[n].role = "participant")
  BY Unlisted DEF Active, IsParticipant
<1>4. QED
  BY <1>1, <1>2, <1>3, MembersKept

(* clear_transient_mesh_state.                                             *)
LEMMA MembersCleared ==
  ASSUME NodesInv, MembersInv, NEW n \in Addr, NEW leaves \in BOOLEAN, RxStep(n, leaves), ClearSession(n),
         \A m \in Addr \ {n} : node'[m] = node[m] /\ peers'[m] = peers[m]
  PROVE  MembersInv'
<1>1. members' = [c \in Addr |-> IF c = n THEN {} ELSE members[c] \ {n}]
  BY DEF ClearSession
<1>2. members \in [Addr -> SUBSET Addr]
  BY DEF MembersInv
<1>3. /\ members' \in [Addr -> SUBSET Addr] /\ members'[n] = {}
      /\ \A c \in Addr : members'[c] \subseteq members[c] /\ n \notin members'[c]
  BY <1>1, <1>2
<1>4. QED
  BY <1>3, MembersKept
-----------------------------------------------------------------------------
SessionInv == NodesInv /\ RxInv /\ MembersInv

(* Every way out of a session: mesh_stop, the join deadline, the loss of   *)
(* the coordinator.                                                        *)
LEMMA Leaves ==
  ASSUME SessionInv, NEW n \in Addr, NEW state \in {"idle", "scanning"}, NEW leaves \in BOOLEAN,
         node' = [node EXCEPT ![n] = Unassigned(state)], ClearSession(n), RxStep(n, leaves), upsets' \in Nat
  PROVE  SessionInv'
<1> USE DEF SessionInv
<1>1. Replaces(n, Unassigned(state), NoPeers, {}, {})
  BY DEF Replaces, ClearSession
<1>2. Good(n, Unassigned(state), NoPeers, {}, {})
  BY FreshGood
<1>3. NodesInv' /\ \A m \in Addr \ {n} : node'[m] = node[m] /\ peers'[m] = peers[m]
  BY <1>1, <1>2, Replaced
<1>4. MembersInv'
  BY <1>3, MembersCleared
<1>5. QED
  BY <1>3, <1>4 DEF RxStep

(* mesh_stop preserves the invariant.                                      *)
LEMMA StopStep ==
  ASSUME SessionInv, NEW n \in Addr, Stop(n)
  PROVE  SessionInv'
<1>1. PICK heard : rx_queue' = [Heard(Packet("LEAVE", n), heard) EXCEPT ![n] = <<>>]
  BY DEF Stop
<1>2. Packet("LEAVE", n) \in Packets /\ Packet("LEAVE", n).kind = "LEAVE" /\ Packet("LEAVE", n).from = n
  BY PlainPacket DEF SessionInv
<1> DEFINE p == Packet("LEAVE", n)
           q == Heard(p, heard)
<1>a. p \in Packets /\ p.from = n
  BY <1>2
<1> HIDE DEF p
<1>b. /\ q \in [Addr -> Seq(Packets)]
      /\ \A m \in Addr : /\ Len(q[m]) <= RxQueue
                         /\ \A k : LeaveWaits(q[m], k) => LeaveWaits(rx_queue[m], k) \/ (p.kind = "LEAVE" /\ p.from = k)
  BY <1>a, HeardRx DEF SessionInv
<1> HIDE DEF q
<1>3. /\ q \in [Addr -> Seq(Packets)]
      /\ \A m \in Addr : Len(q[m]) <= RxQueue
      /\ \A m, k \in Addr : LeaveWaits(q[m], k) => LeaveWaits(rx_queue[m], k) \/ k = n
  BY <1>a, <1>b
<1>4. rx_queue' = [q EXCEPT ![n] = <<>>]
  BY <1>1 DEF q, p
<1>5. RxStep(n, TRUE)
  BY <1>3, <1>4, ClearedRx
<1>6. node' = [node EXCEPT ![n] = Unassigned("idle")] /\ ClearSession(n) /\ upsets' = upsets + 1
  BY DEF Stop
<1>7. upsets' \in Nat
  BY <1>6 DEF SessionInv, NodesInv
<1>8. QED
  BY <1>5, <1>6, <1>7, Leaves

(* The end of the join deadline preserves the invariant.                   *)
LEMMA JoinDeadlineStep ==
  ASSUME SessionInv, NEW n \in Addr, JoinDeadline(n)
  PROVE  SessionInv'
<1>1. node' = [node EXCEPT ![n] = Unassigned("scanning")] /\ ClearSession(n) /\ UNCHANGED <<rx_queue, upsets>>
  BY DEF JoinDeadline
<1>2. RxStep(n, FALSE) /\ upsets' \in Nat
  BY <1>1, SameRx DEF SessionInv, NodesInv
<1>3. QED
  BY <1>1, <1>2, Leaves

(* Losing SYNC preserves the invariant.                                    *)
LEMMA CoordinatorLostStep ==
  ASSUME SessionInv, NEW n \in Addr, CoordinatorLost(n)
  PROVE  SessionInv'
<1>1. /\ node' = [node EXCEPT ![n] = Unassigned("scanning")] /\ ClearSession(n)
      /\ rx_queue' = [rx_queue EXCEPT ![n] = <<>>] /\ UNCHANGED upsets
  BY DEF CoordinatorLost
<1>2. upsets' \in Nat /\ rx_queue \in [Addr -> Seq(Packets)] /\ \A m \in Addr : Len(rx_queue[m]) <= RxQueue
  BY <1>1 DEF SessionInv, NodesInv, RxInv
<1>3. RxStep(n, FALSE)
  BY <1>1, <1>2, ClearedRx
<1>4. QED
  BY <1>1, <1>2, <1>3, Leaves

(* A step that changes nothing but queues and what n has not heard of.     *)
LEMMA Listens ==
  ASSUME SessionInv, NEW n \in Addr, NEW s, NEW o, RxStep(n, FALSE),
         UNCHANGED <<node, peers, members>>, Replaces(n, node[n], peers[n], s, o),
         Good(n, node[n], peers[n], s, o), upsets' \in Nat
  PROVE  SessionInv'
<1>1. NodesInv'
  BY Replaced DEF SessionInv
<1>2. MembersInv'
  BY MembersSame DEF SessionInv
<1>3. QED
  BY <1>1, <1>2 DEF SessionInv, RxStep

(* A direct transmission preserves the invariant.                          *)
LEMMA SendStep ==
  ASSUME SessionInv, NEW n \in Addr, SendJoin(n) \/ SendSync(n) \/ SendAlive(n)
  PROVE  SessionInv'
<1>1. PICK p \in Packets : p.kind # "LEAVE" /\ Broadcast(p)
  <2>1. CASE SendJoin(n)
    BY <2>1, JoinPacket DEF SendJoin, SessionInv
  <2>2. CASE SendSync(n)
    BY <2>2, PlainPacket DEF SendSync, SessionInv
  <2>3. CASE SendAlive(n)
    BY <2>3, PlainPacket DEF SendAlive, SessionInv
  <2>4. QED
    BY <2>1, <2>2, <2>3
<1>2. RxStep(n, FALSE)
  BY <1>1, BroadcastRx DEF SessionInv
<1>3. UNCHANGED <<node, peers, silent, outbox, members, upsets>>
  BY DEF SendJoin, SendSync, SendAlive
<1>4. Replaces(n, node[n], peers[n], silent[n], outbox[n]) /\ upsets' \in Nat
      /\ Good(n, node[n], peers[n], silent[n], outbox[n])
  BY <1>3 DEF Replaces, SessionInv, NodesInv
<1>5. QED
  BY <1>2, <1>3, <1>4, Listens

(* Sending a queued control record preserves the invariant.                *)
LEMMA SendControlStep ==
  ASSUME SessionInv, NEW n \in Addr, SendControl(n)
  PROVE  SessionInv'
<1>1. PICK p \in outbox[n] : Broadcast(p) /\ outbox' = [outbox EXCEPT ![n] = @ \ {p}]
  BY DEF SendControl
<1>2. /\ Good(n, node[n], peers[n], silent[n], outbox[n]) /\ p \in Packets /\ p.kind # "LEAVE"
      /\ upsets \in Nat /\ outbox \in [Addr -> SUBSET Controls]
  BY <1>1 DEF SessionInv, NodesInv, Controls
<1>3. UNCHANGED <<node, peers, silent, members, upsets>>
  BY DEF SendControl
<1>4. Replaces(n, node[n], peers[n], silent[n], outbox[n] \ {p})
  BY <1>1, <1>2, <1>3 DEF Replaces
<1>5. Good(n, node[n], peers[n], silent[n], outbox[n] \ {p})
  BY <1>2, GoodLess
<1>6. RxStep(n, FALSE)
  BY <1>1, <1>2, BroadcastRx DEF SessionInv
<1>7. QED
  BY <1>2, <1>3, <1>4, <1>5, <1>6, Listens

(* A refreshed table is silent about no more than before.                  *)
LEMMA RefreshedLess == \A n, id : Refreshed(n, id) \subseteq silent[n]
BY DEF Refreshed

(* The receptions that change nothing else: an ignored JOIN, KEEPALIVE and *)
(* STATUS, a SYNC while joining, and any SYNC at a coordinator, which never *)
(* yields because every SYNC carries the id 1, its own.                    *)
LEMMA ListenStep ==
  ASSUME SessionInv, NEW n \in Addr,
         RxJoinIgnored(n) \/ RxAlive(n) \/ RxSyncJoining(n) \/ RxSyncCoordinator(n)
  PROVE  SessionInv' /\ UNCHANGED node
<1> DEFINE p == Head(rx_queue[n])
<1>1. rx_queue[n] # <<>>
  BY DEF RxJoinIgnored, RxAlive, RxSyncJoining, RxSyncCoordinator, Take
<1>2. p \in Packets
  BY <1>1 DEF SessionInv, RxInv
<1>3. RxSyncCoordinator(n) => p.src = node[n].id
  BY <1>2 DEF RxSyncCoordinator, Packets, SessionInv, NodesInv, Good, GoodNode, IsCoordinator
<1>4. /\ UNCHANGED <<node, peers, outbox, members, upsets>>
      /\ rx_queue' = [rx_queue EXCEPT ![n] = Tail(@)]
      /\ silent' = [silent EXCEPT ![n] = Refreshed(n, p.src)] \/ silent' = silent
  BY <1>3 DEF RxJoinIgnored, RxAlive, RxSyncJoining, RxSyncCoordinator, Take
<1>5. RxStep(n, FALSE)
  BY <1>1, <1>4, TakeRx DEF SessionInv
<1>6. Good(n, node[n], peers[n], silent[n], outbox[n]) /\ upsets' \in Nat
  BY <1>4 DEF SessionInv, NodesInv
<1>7. PICK s \in SUBSET silent[n] : Replaces(n, node[n], peers[n], s, outbox[n])
  BY <1>4, RefreshedLess DEF Replaces
<1>8. Good(n, node[n], peers[n], s, outbox[n])
  BY <1>6, GoodLess
<1>9. QED
  BY <1>4, <1>5, <1>6, <1>7, <1>8, Listens

(* A peer falling silent preserves the invariant.                          *)
LEMMA PeerSilentStep ==
  ASSUME SessionInv, NEW n \in Addr, PeerSilent(n)
  PROVE  SessionInv'
<1>1. PICK i \in Others(n) \ silent[n] :
        /\ Active(n) /\ upsets' = (IF StillHeard(n, i) THEN upsets + 1 ELSE upsets)
        /\ silent' = [silent EXCEPT ![n] = @ \cup {i}]
        /\ UNCHANGED <<node, peers, outbox, rx_queue, members>>
  BY DEF PeerSilent
<1>2. /\ i \in Index /\ upsets \in Nat /\ silent \in [Addr -> SUBSET Index] /\ outbox[n] \in SUBSET Controls
      /\ Good(n, node[n], peers[n], silent[n], outbox[n]) /\ silent[n] \in SUBSET Index
  BY DEF Others, SessionInv, NodesInv
<1>3. upsets' \in Nat
  BY <1>1, <1>2
<1>4. Replaces(n, node[n], peers[n], silent[n] \cup {i}, outbox[n])
  BY <1>1, <1>2 DEF Replaces
<1>5. Good(n, node[n], peers[n], silent[n] \cup {i}, outbox[n])
  BY <1>1, <1>2, GoodActive DEF Active
<1>6. RxStep(n, FALSE)
  BY <1>1, SameRx DEF SessionInv
<1>7. QED
  BY <1>1, <1>3, <1>4, <1>5, <1>6, Listens

(* The steps that enter a session, or leave idle: nobody lists the node.   *)
LEMMA Enters ==
  ASSUME SessionInv, NEW n \in Addr, ~Active(n), NEW r, NEW t, NEW s, NEW o, Replaces(n, r, t, s, o),
         Good(n, r, t, s, o), RxStep(n, FALSE), UNCHANGED members, upsets' \in Nat
  PROVE  SessionInv'
<1>1. NodesInv' /\ \A m \in Addr \ {n} : node'[m] = node[m] /\ peers'[m] = peers[m]
  BY Replaced DEF SessionInv
<1>2. members[n] = {} /\ \A c \in Addr : n \notin members[c]
  BY Unlisted DEF SessionInv
<1>3. members \in [Addr -> SUBSET Addr]
  BY DEF SessionInv, MembersInv
<1>4. MembersInv'
  BY <1>1, <1>2, <1>3, MembersKept DEF SessionInv
<1>5. QED
  BY <1>1, <1>4 DEF SessionInv, RxStep

(* mesh_start preserves the invariant.                                     *)
LEMMA StartStep ==
  ASSUME SessionInv, NEW n \in Addr, Start(n)
  PROVE  SessionInv'
<1>1. /\ node[n].state = "idle" /\ node' = [node EXCEPT ![n].state = "scanning"]
      /\ UNCHANGED <<peers, silent, outbox, rx_queue, members, upsets>>
  BY DEF Start
<1>2. /\ node[n] = Unassigned("idle") /\ peers[n] = NoPeers /\ silent[n] = {} /\ outbox[n] = {}
      /\ upsets \in Nat /\ node \in [Addr -> NodeType]
  BY <1>1 DEF SessionInv, NodesInv, Good
<1> DEFINE u(state, slot, armed) == [state |-> state, role |-> "none", id |-> 0, slot |-> slot, coord |-> 0,
                                     cmac |-> NoAddr, count |-> 0, armed |-> armed]
<1>a. \A slot, armed : [u("idle", slot, armed) EXCEPT !.state = "scanning"] = u("scanning", slot, armed)
  OBVIOUS
<1>b. Unassigned("idle") = u("idle", -1, FALSE) /\ Unassigned("scanning") = u("scanning", -1, FALSE)
  BY DEF Unassigned
<1> HIDE DEF u
<1>3. [Unassigned("idle") EXCEPT !.state = "scanning"] = Unassigned("scanning")
  BY <1>a, <1>b, Zenon
<1>4. node' = [node EXCEPT ![n] = Unassigned("scanning")]
  BY <1>1, <1>2, <1>3
<1>5. Replaces(n, Unassigned("scanning"), NoPeers, {}, {})
  BY <1>1, <1>2, <1>4 DEF Replaces
<1>6. RxStep(n, FALSE)
  BY <1>1, SameRx DEF SessionInv
<1>7. QED
  BY <1>1, <1>2, <1>5, <1>6, FreshGood, Enters DEF Active

(* become_coordinator: the table holds the node itself.                    *)
LEMMA ScanTimeoutStep ==
  ASSUME SessionInv, NEW n \in Addr, ScanTimeout(n)
  PROVE  SessionInv'
<1> DEFINE r == [node[n] EXCEPT !.state = "active", !.role = "coordinator", !.id = 1, !.slot = 0,
                                !.coord = 1, !.count = 1, !.armed = TRUE]
           e == [id |-> 1, addr |-> n, slot |-> 0, active |-> TRUE]
           t == [NoPeers EXCEPT ![0] = e]
<1>1. /\ node[n].state = "scanning" /\ node' = [node EXCEPT ![n] = r]
      /\ peers' = [peers EXCEPT ![n][0] = e] /\ upsets' = upsets + 1
      /\ UNCHANGED <<silent, outbox, rx_queue, members>>
  BY DEF ScanTimeout
<1>2. /\ node[n] = Unassigned("scanning") /\ peers[n] = NoPeers /\ silent[n] = {} /\ outbox[n] = {}
      /\ upsets \in Nat /\ peers \in [Addr -> [Index -> PeerEntry]] /\ node[n] \in NodeType
  BY <1>1 DEF SessionInv, NodesInv, Good
<1>3. e \in PeerEntry
  BY Fresh DEF PeerEntry
<1>4. t \in [Index -> PeerEntry] /\ t[0] = e /\ \A i \in Index \ {0} : t[i] = NoPeer
  BY <1>3, Fresh
<1>5. peers' = [peers EXCEPT ![n] = t]
  BY <1>1, <1>2
<1> HIDE DEF t
<1>6. InUse(t) = {0} /\ Cardinality(InUse(t)) = 1
  <2>1. InUse(t) = {0}
    BY <1>4, Fresh DEF InUse, NoPeer
  <2>2. QED
    BY <2>1, FS_Singleton
<1>7. OwnTable(n, t)
  BY <1>4, Fresh DEF OwnTable, NoPeer
<1>8. r \in NodeType
  <2>1. 0 \in -1..MaxNodes - 1 /\ 1 \in 0..MaxNodes
    BY SessionAssumption
  <2>2. QED
    BY <1>2, <2>1 DEF NodeType
<1>9. /\ r.state = "active" /\ r.role = "coordinator" /\ r.id = 1 /\ r.slot = 0 /\ r.count = 1
  BY <1>2 DEF NodeType
<1> HIDE DEF r
<1>10. GoodNode(r)
  BY <1>8, <1>9, Fresh DEF GoodNode
<1>11. Good(n, r, t, {}, {})
  BY <1>4, <1>6, <1>7, <1>9, <1>10 DEF Good
<1>12. Replaces(n, r, t, {}, {})
  BY <1>1, <1>2, <1>5 DEF Replaces
<1>13. RxStep(n, FALSE)
  BY <1>1, SameRx DEF SessionInv
<1>a. upsets' \in Nat
  BY <1>1, <1>2
<1>14. QED
  BY <1>1, <1>11, <1>12, <1>13, <1>a, Enters DEF Active

(* A SYNC ends the scan.                                                   *)
LEMMA RxSyncScanningStep ==
  ASSUME SessionInv, NEW n \in Addr, RxSyncScanning(n)
  PROVE  SessionInv'
<1> DEFINE p == Head(rx_queue[n])
           r == [node[n] EXCEPT !.state = "joining", !.coord = p.src, !.cmac = p.from]
<1>1. /\ rx_queue[n] # <<>> /\ rx_queue' = [rx_queue EXCEPT ![n] = Tail(@)] /\ node[n].state = "scanning"
      /\ node' = [node EXCEPT ![n] = r] /\ silent' = [silent EXCEPT ![n] = Refreshed(n, p.src)]
      /\ UNCHANGED <<peers, outbox, members, upsets>>
  BY DEF RxSyncScanning, Take
<1>2. /\ node[n] = Unassigned("scanning") /\ peers[n] = NoPeers /\ silent[n] = {} /\ outbox[n] = {}
      /\ upsets' \in Nat /\ node[n] \in NodeType
  BY <1>1 DEF SessionInv, NodesInv, Good
<1>3. RxStep(n, FALSE) /\ p \in Packets
  BY <1>1, TakeRx DEF SessionInv
<1>4. p.src \in 0..MaxNodes /\ p.from \in Addr
  BY <1>3 DEF Packets, PacketType
<1> HIDE DEF p
<1>a. node[n].role = "none"
  BY <1>2 DEF Unassigned
<1>b. node[n] \in NodeType
  BY <1>2
<1>5. r \in NodeType /\ r.state = "joining" /\ r.role = "none"
  BY ONLY <1>4, <1>a, <1>b DEF NodeType
<1> HIDE DEF r
<1>6. Refreshed(n, p.src) = {}
  BY <1>2, RefreshedLess
<1>7. Good(n, r, NoPeers, {}, {})
  BY <1>5, Fresh DEF Good, GoodNode
<1>8. Replaces(n, r, NoPeers, {}, {})
  BY <1>1, <1>2, <1>6 DEF Replaces
<1>9. QED
  BY <1>1, <1>2, <1>3, <1>7, <1>8, Enters DEF Active

(* What a participant does with its table and its schedule.                *)
LEMMA ParticipantStep ==
  ASSUME SessionInv, NEW n \in Addr, IsParticipant(n), NEW r, NEW t, NEW s, NEW o, Replaces(n, r, t, s, o),
         Good(n, r, t, s, o), r.state = "active", r.role = "participant", r.id = node[n].id,
         RxStep(n, FALSE), UNCHANGED upsets,
         members' \in [Addr -> SUBSET Addr], \A c \in Addr : members'[c] \subseteq members[c]
  PROVE  SessionInv'
<1>1. upsets' \in Nat
  BY DEF SessionInv, NodesInv
<1>2. NodesInv' /\ node'[n] = r /\ \A m \in Addr \ {n} : node'[m] = node[m] /\ peers'[m] = peers[m]
  BY <1>1, Replaced DEF SessionInv
<1>3. members[n] = {}
  BY Unlisted DEF SessionInv, IsCoordinator, IsParticipant
<1>4. MembersInv'
  BY <1>2, <1>3, MembersKept DEF SessionInv
<1>5. QED
  BY <1>2, <1>4 DEF SessionInv, RxStep

(* A participant taking a SYNC preserves the invariant.                    *)
LEMMA RxSyncParticipantStep ==
  ASSUME SessionInv, NEW n \in Addr, RxSyncParticipant(n)
  PROVE  SessionInv'
<1> DEFINE p == Head(rx_queue[n])
           r == [node[n] EXCEPT !.armed = TRUE]
<1>1. /\ rx_queue[n] # <<>> /\ rx_queue' = [rx_queue EXCEPT ![n] = Tail(@)]
      /\ node[n].state = "active" /\ node[n].role = "participant"
      /\ UNCHANGED <<peers, outbox, members, upsets>>
  BY DEF RxSyncParticipant, Take, Active, IsParticipant
<1>2. /\ Good(n, node[n], peers[n], silent[n], outbox[n]) /\ node \in [Addr -> NodeType]
      /\ silent[n] \in SUBSET Index /\ outbox[n] \in SUBSET Controls /\ members \in [Addr -> SUBSET Addr]
  BY DEF SessionInv, NodesInv, MembersInv
<1>3. RxStep(n, FALSE)
  BY <1>1, TakeRx DEF SessionInv
<1>4. CASE p.src = node[n].coord /\ p.from = node[n].cmac
  <2>1. node' = [node EXCEPT ![n].armed = TRUE] /\ silent' = [silent EXCEPT ![n] = Refreshed(n, p.src)]
    BY <1>4 DEF RxSyncParticipant
  <2>2. node' = [node EXCEPT ![n] = r]
    BY <1>2, <2>1
  <2>3. /\ r \in NodeType /\ r.state = "active" /\ r.role = "participant" /\ r.id = node[n].id /\ r.slot = node[n].slot
    BY <1>1, <1>2 DEF NodeType
  <2> HIDE DEF r
  <2>4. Replaces(n, r, peers[n], Refreshed(n, p.src), outbox[n])
    BY <1>1, <2>1, <2>2 DEF Replaces
  <2>5. Refreshed(n, p.src) \in SUBSET Index
    BY <1>2, RefreshedLess
  <2>6. Good(n, r, peers[n], Refreshed(n, p.src), outbox[n])
    BY <1>1, <1>2, <2>3, <2>5 DEF Good, GoodNode
  <2>7. QED
    BY <1>1, <1>2, <1>3, <2>3, <2>4, <2>6, ParticipantStep DEF IsParticipant
<1>5. CASE ~(p.src = node[n].coord /\ p.from = node[n].cmac)
  <2>1. UNCHANGED <<node, silent>>
    BY <1>5 DEF RxSyncParticipant
  <2>2. Replaces(n, node[n], peers[n], silent[n], outbox[n])
    BY <1>1, <2>1 DEF Replaces
  <2>3. QED
    BY <1>1, <1>2, <1>3, <2>2, ParticipantStep DEF IsParticipant
<1>6. QED
  BY <1>4, <1>5

(* A valid SLOT_MAP confirms the slot that follows from the id.            *)
LEMMA RxSlotMapStep ==
  ASSUME SessionInv, NEW n \in Addr, RxSlotMap(n)
  PROVE  SessionInv'
<1> DEFINE p == Head(rx_queue[n])
           taken == {s \in Index : p.map[s] # 0}
           r == [node[n] EXCEPT !.slot = SlotIn(p.map, node[n].id), !.count = Cardinality(taken) - 1]
           t == [i \in Index |-> IF peers[n][i].active /\ SlotsOf(p.map, peers[n][i].id) # {}
                                 THEN [peers[n][i] EXCEPT !.slot = SlotIn(p.map, peers[n][i].id)]
                                 ELSE peers[n][i]]
<1>1. /\ rx_queue[n] # <<>> /\ p.kind = "SLOT_MAP" /\ rx_queue' = [rx_queue EXCEPT ![n] = Tail(@)]
      /\ UNCHANGED <<silent, outbox, members, upsets>>
  BY DEF RxSlotMap, Take
<1>2. /\ Good(n, node[n], peers[n], silent[n], outbox[n]) /\ node \in [Addr -> NodeType]
      /\ peers \in [Addr -> [Index -> PeerEntry]] /\ members \in [Addr -> SUBSET Addr] /\ upsets' \in Nat
  BY <1>1 DEF SessionInv, NodesInv, MembersInv
<1>3. RxStep(n, FALSE) /\ p \in Packets
  BY <1>1, TakeRx DEF SessionInv
<1>4. CASE Active(n) /\ IsParticipant(n) /\ p.src = node[n].coord /\ SlotMapValid(n, p.map)
  <2>1. node' = [node EXCEPT ![n] = r] /\ peers' = [peers EXCEPT ![n] = t]
    BY <1>4 DEF RxSlotMap
  <2>2. \A s \in Index : p.map[s] \in {0, s + 1}
    BY <1>1, <1>3 DEF Packets
  <2>3. \A id : SlotsOf(p.map, id) # {} => SlotIn(p.map, id) \in SlotsOf(p.map, id)
    BY DEF SlotIn
  <2>4. /\ node[n].id \in Ids /\ node[n].slot = node[n].id - 1 /\ node[n].state = "active"
        /\ node[n].role = "participant" /\ node[n] \in NodeType
    BY <1>2, <1>4 DEF Good, GoodNode, Active, IsParticipant
  <2>5. SlotIn(p.map, node[n].id) \in Index /\ p.map[SlotIn(p.map, node[n].id)] = node[n].id
    BY <1>4, <2>3 DEF SlotMapValid, SlotsOf
  <2>6. SlotIn(p.map, node[n].id) = node[n].id - 1 /\ SlotIn(p.map, node[n].id) \in taken
    BY <2>2, <2>4, <2>5 DEF Ids, Index
  <2>7. Cardinality(taken) - 1 \in 0..MaxNodes
    <3>1. taken \in SUBSET Index /\ taken # {}
      BY <2>6
    <3> HIDE DEF taken
    <3>2. IsFiniteSet(taken) /\ Cardinality(taken) \in 0..MaxNodes
      BY <3>1, TableSize
    <3>3. Cardinality(taken) # 0
      BY <3>1, <3>2, FS_EmptySet
    <3>4. QED
      BY <3>2, <3>3, SessionAssumption
  <2>8. r \in NodeType /\ r.state = "active" /\ r.role = "participant" /\ r.id = node[n].id /\ r.slot = node[n].id - 1
    <3>1. node[n].slot \in -1..MaxNodes - 1
      BY <2>4 DEF NodeType
    <3>2. SlotIn(p.map, node[n].id) = node[n].slot
      BY <2>4, <2>6
    <3> HIDE DEF taken, p
    <3>3. QED
      BY <2>4, <2>7, <3>1, <3>2 DEF NodeType
  <2>9. t \in [Index -> PeerEntry]
    <3>1. ASSUME NEW i \in Index PROVE t[i] \in PeerEntry
      <4>1. peers[n][i] \in PeerEntry
        BY <1>2
      <4>2. CASE peers[n][i].active /\ SlotsOf(p.map, peers[n][i].id) # {}
        <5>1. SlotIn(p.map, peers[n][i].id) \in Index
          BY <2>3, <4>2 DEF SlotsOf
        <5>2. t[i] = [peers[n][i] EXCEPT !.slot = SlotIn(p.map, peers[n][i].id)]
          BY <4>2
        <5>3. QED
          BY <4>1, <5>1, <5>2 DEF PeerEntry
      <4>3. CASE ~(peers[n][i].active /\ SlotsOf(p.map, peers[n][i].id) # {})
        BY <4>1, <4>3
      <4>4. QED
        BY <4>2, <4>3
    <3>2. QED
      BY <3>1
  <2> HIDE DEF r, t
  <2>10. Good(n, r, t, silent[n], outbox[n])
    BY <1>2, <2>4, <2>8, <2>9 DEF Good, GoodNode
  <2>11. Replaces(n, r, t, silent[n], outbox[n])
    BY <1>1, <2>1 DEF Replaces
  <2>12. QED
    BY <1>1, <1>2, <1>3, <1>4, <2>8, <2>10, <2>11, ParticipantStep
<1>5. CASE ~(Active(n) /\ IsParticipant(n) /\ p.src = node[n].coord /\ SlotMapValid(n, p.map))
  <2>1. UNCHANGED <<node, peers>>
    BY <1>5 DEF RxSlotMap
  <2>2. Replaces(n, node[n], peers[n], silent[n], outbox[n])
    BY <1>1, <2>1 DEF Replaces
  <2>3. QED
    BY <1>1, <1>2, <1>3, <2>1, <2>2, Listens
<1>6. QED
  BY <1>4, <1>5

(* A node takes the id and the slot that its coordinator entered for it.   *)
LEMMA RxJoinAckStep ==
  ASSUME SessionInv, NEW n \in Addr, RxJoinAck(n)
  PROVE  SessionInv'
<1> DEFINE p == Head(rx_queue[n])
           r == [node[n] EXCEPT !.state = "active", !.role = "participant", !.id = p.id,
                                !.slot = p.slot, !.coord = p.src, !.cmac = p.from, !.count = 1]
           e == [id |-> p.src, addr |-> p.from, slot |-> 0, active |-> TRUE]
           t == [peers[n] EXCEPT ![0] = e]
<1>1. /\ rx_queue[n] # <<>> /\ p.kind = "JOIN_ACK" /\ rx_queue' = [rx_queue EXCEPT ![n] = Tail(@)]
      /\ UNCHANGED <<outbox, upsets>>
  BY DEF RxJoinAck, Take
<1>2. /\ Good(n, node[n], peers[n], silent[n], outbox[n]) /\ node \in [Addr -> NodeType]
      /\ node[n] \in NodeType /\ peers[n] \in [Index -> PeerEntry] /\ silent[n] \in SUBSET Index
      /\ outbox[n] \in SUBSET Controls /\ upsets' \in Nat
      /\ peers \in [Addr -> [Index -> PeerEntry]] /\ members \in [Addr -> SUBSET Addr]
  BY <1>1 DEF SessionInv, NodesInv, MembersInv
<1>3. RxStep(n, FALSE) /\ p \in Packets
  BY <1>1, TakeRx DEF SessionInv
<1>4. CASE JoinAckAccepted(n, p)
  <2>1. /\ node' = [node EXCEPT ![n] = r] /\ peers' = [peers EXCEPT ![n][0] = e]
        /\ silent' = [silent EXCEPT ![n] = @ \ {0}]
        /\ members' = IF StillHolds(n, p) THEN [members EXCEPT ![p.from] = @ \cup {n}] ELSE members
    BY <1>4 DEF RxJoinAck
  <2>2. /\ p.id \in Ids /\ p.id \in 0..MaxNodes /\ p.slot = p.id - 1 /\ p.slot \in Index /\ p.slot \in -1..MaxNodes - 1
        /\ p.src \in 0..MaxNodes /\ p.from \in Addr
    BY <1>1, <1>3 DEF Packets, PacketType, Index
  <2>3. 1 \in 0..MaxNodes /\ 0 \in Index
    BY Fresh
  <2>4. e \in PeerEntry
    BY <2>2, <2>3 DEF PeerEntry
  <2>5. t \in [Index -> PeerEntry]
    BY <1>2, <2>4
  <2>6. peers' = [peers EXCEPT ![n] = t]
    BY <1>2, <2>1
  <2>7. ~Active(n)
    BY <1>4 DEF JoinAckAccepted, Active
  <2> HIDE DEF p, e
  <2>8. /\ r \in NodeType /\ r.state = "active" /\ r.role = "participant" /\ r.id = p.id /\ r.slot = p.slot
    BY ONLY <1>2, <2>2, <2>3 DEF NodeType
  <2> HIDE DEF r, t
  <2>9. Good(n, r, t, silent[n] \ {0}, outbox[n])
    BY <1>2, <2>2, <2>5, <2>8 DEF Good, GoodNode
  <2>10. Replaces(n, r, t, silent[n] \ {0}, outbox[n])
    BY <1>1, <2>1, <2>6 DEF Replaces
  <2>11. CASE ~StillHolds(n, p)
    BY <1>2, <1>3, <2>1, <2>7, <2>9, <2>10, <2>11, Enters
  <2>12. CASE StillHolds(n, p)
    <3> DEFINE c == p.from
    <3>1. IsCoordinator(c) /\ c # n /\ c \in Addr
      BY <2>2, <2>7, <2>12, Unlisted DEF StillHolds, SessionInv
    <3>2. PICK i \in ActiveAt(c, n) : peers[c][i].id = p.id
      BY <2>12 DEF StillHolds
    <3>3. ~LeaveWaits(rx_queue[c], n)
      BY <2>12 DEF StillHolds, LeaveWaits
    <3>4. /\ NodesInv' /\ node'[n] = r
          /\ \A m \in Addr \ {n} : node'[m] = node[m] /\ peers'[m] = peers[m]
      BY <1>2, <2>9, <2>10, Replaced DEF SessionInv
    <3>5. /\ members' \in [Addr -> SUBSET Addr]
          /\ \A b \in Addr, m \in Addr : m \in members'[b] => m \in members[b] \/ (b = c /\ m = n)
      BY <1>2, <2>1, <2>12, <3>1
    <3>6. members[n] = {} /\ \A b \in Addr : n \notin members[b]
      BY <2>7, Unlisted DEF SessionInv
    <3>7. ASSUME NEW b \in Addr, NEW m \in members'[b]
          PROVE  /\ IsCoordinator(b)' /\ Active(m)' /\ IsParticipant(m)'
                 /\ \E j \in ActiveAt(b, m)' : peers'[b][j].id = node'[m].id
                 /\ ~LeaveWaits(rx_queue'[b], m)
      <4>1. CASE b = c /\ m = n
        <5>1. i \in ActiveAt(b, m)' /\ peers'[b][i].id = node'[m].id
          BY <2>8, <3>1, <3>2, <3>4, <4>1 DEF ActiveAt
        <5>2. ~LeaveWaits(rx_queue'[b], m)
          BY <1>3, <3>1, <3>3, <4>1 DEF RxStep
        <5>3. IsCoordinator(b)' /\ Active(m)' /\ IsParticipant(m)'
          BY <2>8, <3>1, <3>4, <4>1 DEF IsCoordinator, Active, IsParticipant
        <5>4. QED
          BY <5>1, <5>2, <5>3
      <4>2. CASE m \in members[b]
        <5>1. b # n /\ m # n /\ m \in Addr
          BY <1>2, <3>6, <4>2
        <5>2. /\ node'[b] = node[b] /\ peers'[b] = peers[b] /\ node'[m] = node[m]
          BY <3>4, <5>1
        <5>3. /\ IsCoordinator(b) /\ Active(m) /\ IsParticipant(m) /\ ~LeaveWaits(rx_queue[b], m)
              /\ \E j \in ActiveAt(b, m) : peers[b][j].id = node[m].id
          BY <4>2 DEF SessionInv, MembersInv, LeaveWaits
        <5>4. ~LeaveWaits(rx_queue'[b], m)
          BY <1>3, <5>1, <5>3 DEF RxStep
        <5>5. QED
          BY <5>2, <5>3, <5>4 DEF IsCoordinator, Active, IsParticipant, ActiveAt
      <4>3. QED
        BY <3>5, <4>1, <4>2
    <3>8. MembersInv'
      BY <3>5, <3>7 DEF MembersInv, LeaveWaits
    <3>9. QED
      BY <1>3, <3>4, <3>8 DEF SessionInv, RxStep
  <2>13. QED
    BY <2>11, <2>12
<1>5. CASE ~JoinAckAccepted(n, p)
  <2>1. UNCHANGED <<node, peers, silent, members>>
    BY <1>5 DEF RxJoinAck
  <2>2. Replaces(n, node[n], peers[n], silent[n], outbox[n])
    BY <1>1, <2>1 DEF Replaces
  <2>3. QED
    BY <1>1, <1>2, <1>3, <2>1, <2>2, Listens
<1>6. QED
  BY <1>4, <1>5
-----------------------------------------------------------------------------
(* A nonempty set of naturals has a least element.                         *)
LEMMA LeastExists ==
  ASSUME NEW T \in SUBSET Nat, T # {}
  PROVE  \E x \in T : \A y \in T : x <= y
<1> DEFINE R == {ss \in Nat \X Nat : ss[1] < ss[2]}
<1>1. IsWellFoundedOn(R, Nat)
  BY NatLessThanWellFounded, Zenon DEF OpToRel
<1>2. \A x, y \in T : y < x => <<y, x>> \in R
  OBVIOUS
<1> HIDE DEF R
<1>3. \E x \in T : \A y \in T : ~ (<<y, x>> \in R)
  BY <1>1, WFMin
<1>4. PICK x \in T : \A y \in T : ~ (<<y, x>> \in R)
  BY <1>3
<1>5. \A y \in T : ~(y < x)
  BY <1>2, <1>4, Zenon
<1>6. \A y \in T : x <= y
  BY <1>5
<1>7. QED
  BY <1>6

(* A JOIN repeated by a listed node is answered from its entry.            *)
LEMMA RxJoinKnownStep ==
  ASSUME SessionInv, NEW n \in Addr, RxJoinKnown(n)
  PROVE  SessionInv'
<1>1. /\ rx_queue[n] # <<>> /\ rx_queue' = [rx_queue EXCEPT ![n] = Tail(@)] /\ IsCoordinator(n)
      /\ UNCHANGED <<node, peers, members, upsets>>
  BY DEF RxJoinKnown, Take
<1>2. PICK i \in ActiveAt(n, Head(rx_queue[n]).from) :
        /\ silent' = [silent EXCEPT ![n] = @ \ {i}]
        /\ outbox' = [outbox EXCEPT ![n] = Queue(@, JoinAck(n, peers[n][i]))]
  BY DEF RxJoinKnown
<1>3. /\ Good(n, node[n], peers[n], silent[n], outbox[n]) /\ upsets' \in Nat
      /\ silent[n] \in SUBSET Index /\ outbox[n] \in SUBSET Controls
  BY <1>1 DEF SessionInv, NodesInv
<1>4. OwnTable(n, peers[n]) /\ node[n].state = "active" /\ peers[n] \in [Index -> PeerEntry]
  BY <1>1, <1>3 DEF Good, GoodNode, IsCoordinator
<1>5. i \in Index /\ peers[n][i].active
  BY DEF ActiveAt
<1>6. peers[n][i] \in PeerEntry /\ peers[n][i].id = i + 1 /\ peers[n][i].slot = i
  BY <1>4, <1>5 DEF OwnTable
<1>7. peers[n][i].id \in Ids /\ peers[n][i].slot = peers[n][i].id - 1
  BY <1>5, <1>6, Fresh DEF Index
<1>8. JoinAck(n, peers[n][i]) \in Controls
  BY <1>6, <1>7, JoinAckPacket DEF SessionInv
<1> DEFINE o == Queue(outbox[n], JoinAck(n, peers[n][i]))
<1>9. o \in SUBSET Controls
  BY <1>3, <1>8, QueueType
<1>10. Replaces(n, node[n], peers[n], silent[n] \ {i}, o)
  BY <1>1, <1>2 DEF Replaces
<1> HIDE DEF o
<1>11. Good(n, node[n], peers[n], silent[n] \ {i}, o)
  BY <1>3, <1>4, <1>9, GoodActive
<1>12. RxStep(n, FALSE)
  BY <1>1, TakeRx DEF SessionInv
<1>13. QED
  BY <1>1, <1>3, <1>10, <1>11, <1>12, Listens

(* The first free id belongs at the first inactive index: each id, in use  *)
(* or left, sits at its own index.                                         *)
LEMMA FreeId ==
  ASSUME SessionInv, NEW n \in Addr, IsCoordinator(n), Ids \ Occupied(n) # {}
  PROVE  \E k \in Index : /\ FirstInactive(n) = {k} /\ FirstFreeId(n) = k + 1 /\ ~peers[n][k].active
<1> DEFINE free == {i \in Index : ~peers[n][i].active}
<1>1. OwnTable(n, peers[n]) /\ node[n].id = 1
  BY DEF SessionInv, NodesInv, Good, GoodNode, IsCoordinator
<1>2. \A i \in Index : peers[n][i].active => peers[n][i].id = i + 1
  BY <1>1 DEF OwnTable
<1>3. \A id \in Ids : id - 1 \in Index /\ (id - 1) + 1 = id
  BY SessionAssumption DEF Ids, Index
<1>4. \A i \in Index : i \in Int /\ i + 1 \in Ids
  BY Fresh DEF Index
<1>5. \A id \in Ids : id \in Occupied(n) <=> peers[n][id - 1].active
  <2> SUFFICES ASSUME NEW id \in Ids PROVE id \in Occupied(n) <=> peers[n][id - 1].active
    OBVIOUS
  <2>1. ASSUME peers[n][id - 1].active PROVE id \in Occupied(n)
    BY <1>2, <1>3, <2>1 DEF Occupied
  <2>2. ASSUME id \in Occupied(n) PROVE peers[n][id - 1].active
    <3>1. CASE id = node[n].id
      BY <1>1, <3>1 DEF OwnTable
    <3>2. CASE id # node[n].id
      <4>1. PICK i \in Index : peers[n][i].active /\ peers[n][i].id = id
        BY <2>2, <3>2 DEF Occupied
      <4>2. id = i + 1 /\ i \in Int
        BY <1>2, <1>4, <4>1
      <4>3. id - 1 = i
        BY <4>2
      <4>4. QED
        BY <4>1, <4>3
    <3>3. QED
      BY <3>1, <3>2
  <2>3. QED
    BY <2>1, <2>2
<1>6. \A i \in Index : i \in free <=> i + 1 \in Ids \ Occupied(n)
  <2> SUFFICES ASSUME NEW i \in Index PROVE i \in free <=> i + 1 \in Ids \ Occupied(n)
    OBVIOUS
  <2>1. i + 1 \in Ids /\ (i + 1) - 1 = i
    BY <1>4
  <2>2. QED
    BY <1>5, <2>1
<1>7. free # {} /\ free \in SUBSET Nat
  <2>1. PICK id \in Ids : id \notin Occupied(n)
    OBVIOUS
  <2>2. id - 1 \in free
    BY <1>3, <1>5, <2>1
  <2>3. QED
    BY <2>2 DEF Index
<1>8. PICK k \in free : \A i \in free : k <= i
  BY <1>7, LeastExists
<1>9. k \in Index /\ ~peers[n][k].active /\ k \in Int
  BY <1>8 DEF Index
<1>10. FirstInactive(n) = {k}
  <2>1. FirstInactive(n) = {i \in free : \A j \in free : i <= j}
    BY DEF FirstInactive
  <2>2. \A i \in free : i \in Int
    BY <1>7
  <2>3. ASSUME NEW i \in free, \A j \in free : i <= j PROVE i = k
    <3>1. i <= k /\ k <= i
      BY <1>8, <2>3
    <3>2. QED
      BY <2>2, <3>1
  <2>4. QED
    BY <1>8, <2>1, <2>3
<1>11. \A id \in Ids \ Occupied(n) : k + 1 <= id
  <2> SUFFICES ASSUME NEW id \in Ids, id \notin Occupied(n) PROVE k + 1 <= id
    OBVIOUS
  <2>1. id - 1 \in free
    BY <1>3, <1>5
  <2>2. k <= id - 1 /\ id \in Int
    BY <1>8, <2>1 DEF Ids
  <2>3. QED
    BY <1>9, <2>2
<1>12. k + 1 \in Ids \ Occupied(n)
  BY <1>6, <1>8, <1>9
<1>13. FirstFreeId(n) = k + 1
  <2> DEFINE first(id) == id \in Ids \ Occupied(n) /\ \A other \in Ids \ Occupied(n) : id <= other
  <2>1. FirstFreeId(n) = CHOOSE id \in Ids \ Occupied(n) : \A other \in Ids \ Occupied(n) : id <= other
    BY DEF FirstFreeId
  <2>2. FirstFreeId(n) \in Ids \ Occupied(n) /\ \A other \in Ids \ Occupied(n) : FirstFreeId(n) <= other
    BY ONLY <1>11, <1>12, <2>1
  <2>3. FirstFreeId(n) <= k + 1 /\ k + 1 <= FirstFreeId(n) /\ FirstFreeId(n) \in Int
    BY <1>11, <1>12, <2>2 DEF Ids
  <2>4. QED
    BY <1>9, <2>3
<1>14. QED
  BY <1>9, <1>10, <1>13

(* A new node is entered at its index: handle_join_packet.                 *)
LEMMA RxJoinNewStep ==
  ASSUME SessionInv, NEW n \in Addr, RxJoinNew(n)
  PROVE  SessionInv'
<1> DEFINE from == Head(rx_queue[n]).from
           e == Entry(n, from)
           t == [i \in Index |-> IF i \in FirstInactive(n) THEN e ELSE peers[n][i]]
           o == Queue(Queue(outbox[n], JoinAck(n, e)), SlotMap(n, t))
           r == [node[n] EXCEPT !.count = @ + 1]
<1>1. /\ rx_queue[n] # <<>> /\ rx_queue' = [rx_queue EXCEPT ![n] = Tail(@)] /\ IsCoordinator(n)
      /\ ActiveAt(n, from) = {} /\ Ids \ Occupied(n) # {}
      /\ peers' = [peers EXCEPT ![n] = t] /\ outbox' = [outbox EXCEPT ![n] = o]
      /\ silent' = [silent EXCEPT ![n] = @ \ FirstInactive(n)]
      /\ node' = [node EXCEPT ![n].count = @ + 1]
      /\ UNCHANGED <<members, upsets>>
  BY DEF RxJoinNew, Take
<1>2. RxStep(n, FALSE) /\ Head(rx_queue[n]) \in Packets
  BY <1>1, TakeRx DEF SessionInv
<1>3. /\ Good(n, node[n], peers[n], silent[n], outbox[n]) /\ upsets' \in Nat /\ node \in [Addr -> NodeType]
      /\ silent[n] \in SUBSET Index /\ outbox[n] \in SUBSET Controls /\ members \in [Addr -> SUBSET Addr]
  BY <1>1 DEF SessionInv, NodesInv, MembersInv
<1>4. /\ OwnTable(n, peers[n]) /\ node[n].count = Cardinality(InUse(peers[n])) /\ node[n].role = "coordinator"
      /\ node[n].state = "active" /\ node[n].id = 1 /\ node[n].slot = 0
      /\ peers[n] \in [Index -> PeerEntry] /\ node[n] \in NodeType
  BY <1>1, <1>3 DEF Good, GoodNode, IsCoordinator
<1>5. PICK k \in Index : FirstInactive(n) = {k} /\ FirstFreeId(n) = k + 1 /\ ~peers[n][k].active
  BY <1>1, FreeId
<1>6. from \in Addr
  BY <1>2 DEF Packets, PacketType
<1>7. e = [id |-> k + 1, addr |-> from, slot |-> k, active |-> TRUE]
  BY <1>5 DEF Entry, SlotForNodeId, Index
<1>8. e \in PeerEntry /\ e.id = k + 1 /\ e.slot = k /\ e.addr = from /\ e.active /\ e.id \in Ids /\ e.slot = e.id - 1
  <2>1. k \in Int /\ k + 1 \in Ids /\ k + 1 \in 0..MaxNodes /\ k = (k + 1) - 1
    BY Fresh DEF Index
  <2> HIDE DEF e, from
  <2>2. e.id = k + 1 /\ e.slot = k /\ e.addr = from /\ e.active
    BY <1>7
  <2>3. e \in PeerEntry
    BY <1>6, <1>7, <2>1 DEF PeerEntry
  <2>4. QED
    BY <2>1, <2>2, <2>3
<1> HIDE DEF e
<1>9. t \in [Index -> PeerEntry] /\ t[k] = e /\ \A i \in Index \ {k} : t[i] = peers[n][i]
  BY <1>4, <1>5, <1>8
<1>10. k # 0
  BY <1>4, <1>5 DEF OwnTable
<1>a. \A i \in Index : peers[n][i].active => peers[n][i].addr # from
  BY <1>1 DEF ActiveAt
<1> HIDE DEF t, from
<1>11. OwnTable(n, t)
  <2>1. \A i \in Index : t[i].id \in {0, i + 1} /\ (t[i].active => t[i].id = i + 1 /\ t[i].slot = i)
    BY <1>4, <1>8, <1>9 DEF OwnTable
  <2>2. t[0].addr = n /\ t[0].active
    BY <1>4, <1>9, <1>10, Fresh DEF OwnTable
  <2>3. ASSUME NEW i \in Index, NEW j \in Index, t[i].active, t[j].active, t[i].addr = t[j].addr
        PROVE  i = j
    BY <1>4, <1>8, <1>9, <1>a, <2>3 DEF OwnTable
  <2>4. QED
    BY <2>1, <2>2, <2>3 DEF OwnTable
<1>12. Cardinality(InUse(t)) = node[n].count + 1 /\ node[n].count + 1 \in 0..MaxNodes
  <2>1. InUse(t) = InUse(peers[n]) \cup {k} /\ k \notin InUse(peers[n])
    BY <1>5, <1>8, <1>9 DEF InUse
  <2>2. InUse(peers[n]) \in SUBSET Index /\ InUse(peers[n]) # Index
    BY <2>1 DEF InUse
  <2>3. /\ IsFiniteSet(InUse(peers[n])) /\ Cardinality(InUse(peers[n])) \in 0..MaxNodes
        /\ Cardinality(InUse(peers[n])) < MaxNodes
    BY <2>2, TableSize
  <2>4. Cardinality(InUse(t)) = Cardinality(InUse(peers[n])) + 1
    BY <2>1, <2>3, FS_AddElement
  <2>5. QED
    BY <1>4, <2>3, <2>4, SessionAssumption
<1>13. node' = [node EXCEPT ![n] = r]
  BY <1>1, <1>3
<1>14. /\ r \in NodeType /\ r.count = node[n].count + 1 /\ r.state = "active" /\ r.role = "coordinator"
       /\ r.id = 1 /\ r.slot = 0
  BY ONLY <1>4, <1>12 DEF NodeType
<1>15. o \in SUBSET Controls
  <2>1. JoinAck(n, e) \in Controls /\ SlotMap(n, t) \in Controls
    BY <1>8, <1>9, <1>11, JoinAckPacket, SlotMapPacket DEF SessionInv
  <2>2. Queue(outbox[n], JoinAck(n, e)) \in SUBSET Controls
    BY <1>3, <2>1, QueueType
  <2>3. QED
    BY <2>1, <2>2, QueueType
<1> HIDE DEF o, r
<1>16. Replaces(n, r, t, silent[n] \ FirstInactive(n), o)
  BY <1>1, <1>13 DEF Replaces
<1>17. Good(n, r, t, silent[n] \ FirstInactive(n), o)
  BY <1>3, <1>9, <1>11, <1>12, <1>14, <1>15, Fresh DEF Good, GoodNode
<1>18. /\ NodesInv' /\ node'[n] = r /\ peers'[n] = t
       /\ \A m \in Addr \ {n} : node'[m] = node[m] /\ peers'[m] = peers[m]
  BY <1>3, <1>16, <1>17, Replaced DEF SessionInv
<1>19. \A c \in Addr : n \notin members[c]
  BY <1>4, Unlisted DEF SessionInv, IsParticipant
<1>20. \A m \in members[n], i \in Index :
         peers[n][i].active /\ peers[n][i].addr = m =>
           peers'[n][i].active /\ peers'[n][i].addr = m /\ peers'[n][i].id = peers[n][i].id
  BY <1>5, <1>9, <1>18
<1>21. MembersInv'
  BY <1>1, <1>2, <1>3, <1>14, <1>18, <1>19, <1>20, MembersKept DEF SessionInv
<1>22. QED
  BY <1>2, <1>18, <1>21 DEF SessionInv, RxStep

(* Entries taken out of use.                                               *)
LEMMA CountWithout ==
  ASSUME NEW S \in SUBSET Index, NEW gone \in SUBSET S
  PROVE  /\ Cardinality(gone) \in Nat /\ Cardinality(S \ gone) = Cardinality(S) - Cardinality(gone)
         /\ S \ gone # {} => Cardinality(S) > Cardinality(gone)
<1>1. gone \in SUBSET Index /\ S \ gone \in SUBSET Index
  OBVIOUS
<1>2. /\ IsFiniteSet(gone) /\ Cardinality(gone) \in Nat /\ IsFiniteSet(S \ gone) /\ Cardinality(S \ gone) \in Nat
      /\ Cardinality(S) \in Nat
  BY <1>1, TableSize, SessionAssumption
<1>3. (S \ gone) \cup gone = S /\ (S \ gone) \cap gone = {}
  OBVIOUS
<1>4. Cardinality((S \ gone) \cup gone) = Cardinality(S \ gone) + Cardinality(gone) - Cardinality((S \ gone) \cap gone)
  BY <1>2, FS_Union
<1>5. Cardinality((S \ gone) \cap gone) = 0
  BY <1>3, FS_EmptySet
<1>a. Cardinality(S) = Cardinality(S \ gone) + Cardinality(gone) - 0
  BY <1>3, <1>4, <1>5, Zenon
<1>6. Cardinality(S) = Cardinality(S \ gone) + Cardinality(gone)
  BY <1>2, <1>a
<1>7. S \ gone # {} => Cardinality(S \ gone) # 0
  BY <1>2, FS_EmptySet
<1>8. QED
  BY <1>2, <1>6, <1>7

(* handle_leave_packet and check_peer_timeouts drop entries in use: never  *)
(* a coordinator's own, and none of a member that stays.                   *)
LEMMA RemoveStep ==
  ASSUME SessionInv, NEW n \in Addr, NEW gone \in SUBSET InUse(peers[n]), Remove(n, gone),
         RxStep(n, FALSE), UNCHANGED upsets,
         members' \in [Addr -> SUBSET Addr], \A c \in Addr : members'[c] \subseteq members[c],
         IsCoordinator(n) => /\ 0 \notin gone
                             /\ \A m \in members'[n], i \in gone : peers[n][i].addr # m
  PROVE  SessionInv'
<1> DEFINE t == Without(peers[n], gone)
           k == Cardinality(gone)
           r == [node[n] EXCEPT !.count = IF @ > k THEN @ - k ELSE 0]
           o == IF IsCoordinator(n) THEN Queue(outbox[n], SlotMap(n, t)) ELSE outbox[n]
<1>1. /\ Good(n, node[n], peers[n], silent[n], outbox[n]) /\ upsets' \in Nat /\ node \in [Addr -> NodeType]
      /\ silent[n] \in SUBSET Index /\ outbox[n] \in SUBSET Controls
      /\ node[n] \in NodeType /\ peers[n] \in [Index -> PeerEntry]
  BY DEF SessionInv, NodesInv
<1>2. /\ peers' = [peers EXCEPT ![n] = t] /\ silent' = [silent EXCEPT ![n] = @ \ gone]
      /\ node' = [node EXCEPT ![n].count = IF @ > k THEN @ - k ELSE 0]
      /\ outbox' = [outbox EXCEPT ![n] = IF IsCoordinator(n) THEN Queue(@, SlotMap(n, t)) ELSE @]
  BY DEF Remove
<1>3. node' = [node EXCEPT ![n] = r] /\ outbox' = [outbox EXCEPT ![n] = o]
  BY <1>1, <1>2
<1>4. gone \in SUBSET Index /\ InUse(peers[n]) \in SUBSET Index
  BY DEF InUse
<1>5. \A i \in Index : t[i] = IF i \in gone THEN [peers[n][i] EXCEPT !.active = FALSE] ELSE peers[n][i]
  BY DEF Without
<1>6. /\ k \in Nat /\ Cardinality(InUse(peers[n]) \ gone) = Cardinality(InUse(peers[n])) - k
      /\ InUse(peers[n]) \ gone # {} => Cardinality(InUse(peers[n])) > k
  BY <1>4, CountWithout
<1>7. \A i \in Index : /\ t[i] \in PeerEntry
                       /\ t[i].id = peers[n][i].id /\ t[i].addr = peers[n][i].addr /\ t[i].slot = peers[n][i].slot
                       /\ t[i].active <=> peers[n][i].active /\ i \notin gone
  <2> SUFFICES ASSUME NEW i \in Index
               PROVE  /\ t[i] \in PeerEntry
                      /\ t[i].id = peers[n][i].id /\ t[i].addr = peers[n][i].addr /\ t[i].slot = peers[n][i].slot
                      /\ t[i].active <=> peers[n][i].active /\ i \notin gone
    OBVIOUS
  <2>1. peers[n][i] \in PeerEntry
    BY <1>1
  <2>2. CASE i \in gone
    <3>1. t[i] = [peers[n][i] EXCEPT !.active = FALSE]
      BY <1>5, <2>2
    <3>2. t[i] \in PeerEntry /\ t[i].id = peers[n][i].id /\ t[i].addr = peers[n][i].addr
          /\ t[i].slot = peers[n][i].slot /\ ~t[i].active
      BY ONLY <2>1, <3>1 DEF PeerEntry
    <3>3. QED
      BY <2>2, <3>2
  <2>3. CASE i \notin gone
    BY <1>5, <2>1, <2>3
  <2>4. QED
    BY <2>2, <2>3
<1>8. t \in [Index -> PeerEntry]
  <2>1. t = [i \in Index |-> t[i]]
    BY DEF Without
  <2> HIDE DEF t
  <2>2. QED
    BY <1>7, <2>1
<1>9. InUse(t) = InUse(peers[n]) \ gone
  BY <1>7 DEF InUse
<1> HIDE DEF t, k
<1>10. /\ r \in NodeType /\ r.state = node[n].state /\ r.role = node[n].role /\ r.id = node[n].id
       /\ r.slot = node[n].slot /\ r.count = (IF node[n].count > k THEN node[n].count - k ELSE 0)
  <2>1. node[n].count \in 0..MaxNodes
    BY <1>1 DEF NodeType
  <2>2. (IF node[n].count > k THEN node[n].count - k ELSE 0) \in 0..MaxNodes
    BY <1>6, <2>1, SessionAssumption
  <2>3. QED
    BY ONLY <1>1, <2>2 DEF NodeType
<1>11. RxInv'
  BY DEF RxStep
<1>12. CASE node[n].state \in {"idle", "scanning"}
  <2>1. node[n] = Unassigned(node[n].state) /\ peers[n] = NoPeers /\ silent[n] = {} /\ outbox[n] = {}
    BY <1>1, <1>12 DEF Good
  <2>2. InUse(peers[n]) = {} /\ gone = {}
    BY <2>1, Fresh DEF InUse, NoPeer
  <2>3. t = peers[n]
    BY <1>1, <2>2 DEF t, Without
  <2>4. node[n].count = 0 /\ node[n].role = "none"
    BY <2>1 DEF Unassigned
  <2>5. r = node[n]
    <3>1. (IF node[n].count > k THEN node[n].count - k ELSE 0) = node[n].count
      BY <1>6, <2>4
    <3>2. r = [node[n] EXCEPT !.count = node[n].count]
      BY <3>1
    <3> HIDE DEF r
    <3>3. QED
      BY ONLY <1>1, <3>2 DEF NodeType
  <2>6. silent[n] \ gone = silent[n] /\ o = outbox[n]
    BY <2>1, <2>4 DEF IsCoordinator
  <2>7. Replaces(n, node[n], peers[n], silent[n], outbox[n])
    BY <1>2, <1>3, <2>3, <2>5, <2>6 DEF Replaces
  <2>8. ~Active(n) /\ members[n] = {} /\ \A c \in Addr : n \notin members[c]
    BY <1>12, Unlisted DEF Active, SessionInv
  <2>9. NodesInv' /\ \A m \in Addr \ {n} : node'[m] = node[m] /\ peers'[m] = peers[m]
    BY <1>1, <2>7, Replaced DEF SessionInv
  <2>10. MembersInv'
    BY <2>8, <2>9, MembersKept DEF SessionInv
  <2>11. QED
    BY <1>11, <2>9, <2>10 DEF SessionInv
<1>13. CASE node[n].state \notin {"idle", "scanning"}
  <2>1. IsCoordinator(n) => OwnTable(n, t) /\ r.count = Cardinality(InUse(t))
    <3> SUFFICES ASSUME IsCoordinator(n) PROVE OwnTable(n, t) /\ r.count = Cardinality(InUse(t))
      OBVIOUS
    <3>1. OwnTable(n, peers[n]) /\ node[n].count = Cardinality(InUse(peers[n]))
      BY <1>1 DEF Good, IsCoordinator
    <3>2. OwnTable(n, t)
      BY <1>7, <3>1, Fresh DEF OwnTable
    <3>3. 0 \in InUse(peers[n]) \ gone
      BY <3>1, Fresh DEF OwnTable, InUse
    <3>4. node[n].count > k
      BY <1>6, <3>1, <3>3
    <3>5. QED
      BY <1>6, <1>9, <1>10, <3>1, <3>2, <3>4
  <2>2. o \in SUBSET Controls
    BY <1>1, <1>8, <2>1, SlotMapPacket, QueueType DEF SessionInv
  <2>3. Replaces(n, r, t, silent[n] \ gone, o)
    BY <1>2, <1>3 DEF Replaces
  <2> HIDE DEF r, o
  <2>4. GoodNode(r)
    BY <1>1, <1>10 DEF Good, GoodNode
  <2>5. r.role = "coordinator" => OwnTable(n, t) /\ r.count = Cardinality(InUse(t))
    BY <1>10, <2>1 DEF IsCoordinator
  <2>6. Good(n, r, t, silent[n] \ gone, o)
    BY <1>1, <1>8, <1>10, <1>13, <2>2, <2>4, <2>5 DEF Good
  <2>7. /\ NodesInv' /\ node'[n] = r /\ peers'[n] = t
        /\ \A m \in Addr \ {n} : node'[m] = node[m] /\ peers'[m] = peers[m]
    BY <1>1, <2>3, <2>6, Replaced DEF SessionInv
  <2>8. \/ members'[n] = {}
        \/ /\ node'[n].role = "coordinator"
           /\ \A m \in members'[n], i \in Index :
                peers[n][i].active /\ peers[n][i].addr = m =>
                  peers'[n][i].active /\ peers'[n][i].addr = m /\ peers'[n][i].id = peers[n][i].id
    <3>1. CASE IsCoordinator(n)
      BY <1>7, <1>10, <2>7, <3>1 DEF IsCoordinator
    <3>2. CASE ~IsCoordinator(n)
      BY <3>2, Unlisted DEF SessionInv
    <3>3. QED
      BY <3>1, <3>2
  <2>9. \/ \A c \in Addr : n \notin members'[c]
        \/ node'[n].state = "active" /\ node'[n].role = "participant" /\ node'[n].id = node[n].id
    BY <1>10, <2>7, Unlisted DEF SessionInv, Active, IsParticipant
  <2>10. MembersInv'
    BY <2>7, <2>8, <2>9, MembersKept DEF SessionInv
  <2>11. QED
    BY <1>11, <2>7, <2>10 DEF SessionInv
<1>14. QED
  BY <1>12, <1>13

(* Taking a LEAVE preserves the invariant.                                 *)
LEMMA RxLeaveStep ==
  ASSUME SessionInv, NEW n \in Addr, RxLeave(n)
  PROVE  SessionInv'
<1> DEFINE p == Head(rx_queue[n])
<1>1. /\ rx_queue[n] # <<>> /\ p.kind = "LEAVE" /\ rx_queue' = [rx_queue EXCEPT ![n] = Tail(@)]
      /\ UNCHANGED <<members, upsets>>
  BY DEF RxLeave, Take
<1>2. /\ Good(n, node[n], peers[n], silent[n], outbox[n]) /\ upsets' \in Nat /\ members \in [Addr -> SUBSET Addr]
      /\ rx_queue[n] \in Seq(Packets)
  BY <1>1 DEF SessionInv, NodesInv, MembersInv, RxInv
<1>3. RxStep(n, FALSE)
  BY <1>1, TakeRx DEF SessionInv
<1>4. CASE p.src = node[n].id
  <2>1. UNCHANGED <<node, peers, silent, outbox>>
    BY <1>4 DEF RxLeave
  <2>2. Replaces(n, node[n], peers[n], silent[n], outbox[n])
    BY <2>1 DEF Replaces
  <2>3. QED
    BY <1>1, <1>2, <1>3, <2>1, <2>2, Listens
<1>5. CASE p.src # node[n].id
  <2> DEFINE gone == Leaving(n, p)
  <2>1. Remove(n, gone)
    BY <1>5 DEF RxLeave
  <2>2. gone \in SUBSET InUse(peers[n])
    BY DEF Leaving, InUse
  <2>3. \A i \in gone : peers[n][i].id = p.src /\ peers[n][i].addr = p.from /\ peers[n][i].active /\ i \in Index
    BY DEF Leaving
  <2>4. 1 \in DOMAIN rx_queue[n] /\ rx_queue[n][1] = p
    BY <1>1, <1>2
  <2>5. LeaveWaits(rx_queue[n], p.from)
    BY <1>1, <2>4 DEF LeaveWaits
  <2>6. \A m \in members[n] : m # p.from
    BY <2>5 DEF SessionInv, MembersInv, LeaveWaits
  <2>7. IsCoordinator(n) => 0 \notin gone
    <3>1. IsCoordinator(n) => node[n].id = 1 /\ peers[n][0].active /\ (peers[n][0].active => peers[n][0].id = 0 + 1)
      BY <1>2, Fresh DEF Good, GoodNode, OwnTable, IsCoordinator
    <3>2. QED
      BY <1>5, <2>3, <3>1
  <2> HIDE DEF gone, p
  <2>8. QED
    BY <1>1, <1>2, <1>3, <2>1, <2>2, <2>3, <2>6, <2>7, RemoveStep
<1>6. QED
  BY <1>4, <1>5

(* Dropping silent peers preserves the invariant.                          *)
LEMMA PeerTimeoutStep ==
  ASSUME SessionInv, NEW n \in Addr, PeerTimeout(n)
  PROVE  SessionInv'
<1> DEFINE gone == silent[n] \cap Others(n)
           lost == {peers[n][i].addr : i \in gone}
<1>1. /\ Remove(n, gone) /\ members' = [members EXCEPT ![n] = @ \ lost]
      /\ UNCHANGED <<rx_queue, upsets>>
  BY DEF PeerTimeout
<1>2. /\ Good(n, node[n], peers[n], silent[n], outbox[n]) /\ members \in [Addr -> SUBSET Addr]
  BY DEF SessionInv, NodesInv, MembersInv
<1>3. RxStep(n, FALSE)
  BY <1>1, SameRx DEF SessionInv
<1>4. gone \in SUBSET InUse(peers[n])
  BY DEF Others, InUse
<1>5. IsCoordinator(n) => 0 \notin gone
  <2>1. IsCoordinator(n) => node[n].id = 1 /\ peers[n][0].active /\ (peers[n][0].active => peers[n][0].id = 0 + 1)
    BY <1>2, Fresh DEF Good, GoodNode, OwnTable, IsCoordinator
  <2>2. QED
    BY <2>1 DEF Others
<1>6. /\ members' \in [Addr -> SUBSET Addr] /\ (\A c \in Addr : members'[c] \subseteq members[c])
      /\ \A m \in members'[n], i \in gone : peers[n][i].addr # m
  BY <1>1, <1>2
<1> HIDE DEF gone, lost
<1>7. QED
  BY <1>1, <1>3, <1>4, <1>5, <1>6, RemoveStep
-----------------------------------------------------------------------------
(* The initial state satisfies the invariant.                              *)
LEMMA InitSession == Init => SessionInv
<1> SUFFICES ASSUME Init PROVE SessionInv
  OBVIOUS
<1>1. \A n \in Addr : /\ node[n] = Unassigned("idle") /\ peers[n] = NoPeers /\ silent[n] = {} /\ outbox[n] = {}
                      /\ rx_queue[n] = <<>> /\ members[n] = {}
  BY DEF Init
<1>2. \A n \in Addr : Good(n, node[n], peers[n], silent[n], outbox[n])
  BY <1>1, FreshGood
<1>3. Unassigned("idle") \in NodeType \/ Addr = {}
  BY FreshGood DEF Good, GoodNode
<1>4. NodesInv
  BY <1>2, <1>3, Fresh DEF Init, NodesInv
<1>5. RxInv
  BY <1>1, SessionAssumption DEF Init, RxInv
<1>6. MembersInv
  BY <1>1 DEF Init, MembersInv
<1>7. QED
  BY <1>4, <1>5, <1>6 DEF SessionInv

(* Every step preserves the invariant.                                     *)
LEMMA SessionInduction == SessionInv /\ [Next]_vars => SessionInv'
<1> SUFFICES ASSUME SessionInv, [Next]_vars PROVE SessionInv'
  OBVIOUS
<1>1. CASE UNCHANGED vars
  BY <1>1 DEF vars, SessionInv, NodesInv, RxInv, MembersInv, IsCoordinator, Active, IsParticipant, ActiveAt
<1>2. CASE Next
  <2>1. PICK n \in Addr :
          \/ Start(n) \/ Stop(n) \/ SendJoin(n) \/ ScanTimeout(n) \/ JoinDeadline(n)
          \/ SendSync(n) \/ SendControl(n) \/ SendAlive(n) \/ Receive(n)
          \/ PeerSilent(n) \/ PeerTimeout(n) \/ CoordinatorLost(n)
    BY <1>2 DEF Next
  <2>2. CASE Receive(n)
    BY <2>2, RxJoinKnownStep, RxJoinNewStep, ListenStep, RxJoinAckStep, RxSyncScanningStep,
       RxSyncParticipantStep, RxSlotMapStep, RxLeaveStep DEF Receive
  <2>3. CASE ~Receive(n)
    BY <2>1, <2>3, StartStep, StopStep, SendStep, ScanTimeoutStep, JoinDeadlineStep, SendControlStep,
       PeerSilentStep, PeerTimeoutStep, CoordinatorLostStep
  <2>4. QED
    BY <2>2, <2>3
<1>3. QED
  BY <1>1, <1>2

(* The invariant holds in every reachable state.                           *)
LEMMA SessionInvariant == Spec => []SessionInv
BY InitSession, SessionInduction, PTL DEF Spec

(* Types: ids, slots and counts stay within the table, queues within their *)
(* capacity, for any number of nodes and any table size.                   *)
THEOREM TypeCorrect == Spec => []TypeOK
<1>1. SessionInv => TypeOK
  <2> SUFFICES ASSUME SessionInv PROVE TypeOK
    OBVIOUS
  <2>1. Controls \subseteq PacketType /\ Packets \subseteq PacketType
    BY DEF Controls, Packets
  <2>2. \A n \in Addr : outbox[n] \subseteq PacketType
    BY <2>1 DEF SessionInv, NodesInv
  <2>3. \A n \in Addr : rx_queue[n] \in Seq(PacketType) /\ Len(rx_queue[n]) <= RxQueue
    <3> SUFFICES ASSUME NEW n \in Addr PROVE rx_queue[n] \in Seq(PacketType) /\ Len(rx_queue[n]) <= RxQueue
      OBVIOUS
    <3>1. rx_queue[n] \in Seq(Packets) /\ Len(rx_queue[n]) <= RxQueue
      BY DEF SessionInv, RxInv
    <3>2. QED
      BY <2>1, <3>1
  <2>4. QED
    BY <2>2, <2>3 DEF SessionInv, NodesInv, MembersInv, TypeOK, NodeType
<1>2. QED
  BY SessionInvariant, <1>1, PTL

(* A coordinator's table: every entry, left or in use, sits at the index   *)
(* of its id, no address is listed twice, and s_peer_count counts the      *)
(* entries in use, however joins, leaves and timeouts are mixed.           *)
THEOREM CoordinatorTableCorrect == Spec => []CoordinatorTable
<1>1. SessionInv => CoordinatorTable
  BY DEF SessionInv, NodesInv, Good, OwnTable, InUse, CoordinatorTable, IsCoordinator
<1>2. QED
  BY SessionInvariant, <1>1, PTL

(* A participant whose JOIN_ACK held stays listed under the id and the     *)
(* slot it uses.                                                           *)
THEOREM MembersListedCorrect == Spec => []MembersListed
<1>1. SessionInv => MembersListed
  <2> SUFFICES ASSUME SessionInv, NEW c \in Addr, NEW n \in members[c]
               PROVE  \E i \in ActiveAt(c, n) : peers[c][i].id = node[n].id /\ peers[c][i].slot = node[n].slot
    BY DEF MembersListed
  <2>1. n \in Addr /\ IsCoordinator(c) /\ Active(n)
    BY DEF SessionInv, MembersInv
  <2>2. PICK i \in ActiveAt(c, n) : peers[c][i].id = node[n].id
    BY DEF SessionInv, MembersInv
  <2>3. i \in Index /\ peers[c][i].active
    BY DEF ActiveAt
  <2>4. peers[c][i].id = i + 1 /\ peers[c][i].slot = i
    BY <2>1, <2>3 DEF SessionInv, NodesInv, Good, OwnTable, IsCoordinator
  <2>5. node[n].slot = node[n].id - 1
    BY <2>1 DEF SessionInv, NodesInv, Good, GoodNode, Active
  <2>a. i \in Int /\ (i + 1) - 1 = i
    BY <2>3 DEF Index
  <2>6. peers[c][i].slot = node[n].slot
    BY <2>2, <2>4, <2>5, <2>a, Zenon
  <2>7. QED
    BY <2>2, <2>6
<1>2. QED
  BY SessionInvariant, <1>1, PTL

(* A node that scans has forgotten its last session, whichever way it left *)
(* it.                                                                     *)
THEOREM CleanScanCorrect == Spec => []CleanScan
<1>1. SessionInv => CleanScan
  BY DEF SessionInv, NodesInv, Good, CleanScan
<1>2. QED
  BY SessionInvariant, <1>1, PTL

(* A coordinator gives up its role only in mesh_stop: a second coordinator *)
(* of the same mesh never makes it yield, since every SYNC carries its own *)
(* id, 1, and demote_to_participant asks for another.                      *)
NeverYields == \A n \in Addr : IsCoordinator(n) /\ ~IsCoordinator(n)' => Stop(n)
(* A coordinator gives its role up only in mesh_stop.                      *)
THEOREM NeverYieldsCorrect == Spec => [][NeverYields]_vars
<1>1. SessionInv /\ [Next]_vars => [NeverYields]_vars
  <2> SUFFICES ASSUME SessionInv, Next, NEW m \in Addr, IsCoordinator(m), ~IsCoordinator(m)'
               PROVE  Stop(m)
    BY DEF NeverYields
  <2>1. PICK n \in Addr :
          \/ Start(n) \/ Stop(n) \/ SendJoin(n) \/ ScanTimeout(n) \/ JoinDeadline(n)
          \/ SendSync(n) \/ SendControl(n) \/ SendAlive(n) \/ Receive(n)
          \/ PeerSilent(n) \/ PeerTimeout(n) \/ CoordinatorLost(n)
    BY DEF Next
  <2>2. node[m].role = "coordinator" /\ node[m].state = "active" /\ node'[m].role # "coordinator"
        /\ node \in [Addr -> NodeType]
    BY DEF SessionInv, NodesInv, Good, GoodNode, IsCoordinator
  <2>3. node[n] \in NodeType
    BY <2>2
  <2>4. node' # node
    BY <2>2
  <2>5. CASE Start(n) \/ ScanTimeout(n) \/ JoinDeadline(n) \/ CoordinatorLost(n)
    BY <2>2, <2>5 DEF Start, ScanTimeout, JoinDeadline, CoordinatorLost, IsParticipant
  <2>6. CASE SendJoin(n) \/ SendSync(n) \/ SendControl(n) \/ SendAlive(n) \/ PeerSilent(n)
    BY <2>4, <2>6 DEF SendJoin, SendSync, SendControl, SendAlive, PeerSilent
  <2>7. CASE RxJoinKnown(n) \/ RxJoinIgnored(n) \/ RxAlive(n) \/ RxSyncJoining(n) \/ RxSyncCoordinator(n)
    BY <2>4, <2>7, ListenStep DEF RxJoinKnown
  <2>8. CASE RxJoinNew(n) \/ RxLeave(n) \/ PeerTimeout(n)
    BY <2>2, <2>3, <2>8 DEF RxJoinNew, RxLeave, PeerTimeout, Remove, NodeType
  <2>9. CASE RxJoinAck(n) \/ RxSyncScanning(n) \/ RxSyncParticipant(n) \/ RxSlotMap(n)
    BY <2>2, <2>9 DEF RxJoinAck, JoinAckAccepted, RxSyncScanning, RxSyncParticipant, RxSlotMap, IsParticipant
  <2>10. CASE Stop(n)
    BY <2>2, <2>10 DEF Stop
  <2>11. QED
    BY <2>1, <2>5, <2>6, <2>7, <2>8, <2>9, <2>10 DEF Receive
<1>2. QED
  BY SessionInvariant, <1>1, PTL DEF Spec
=============================================================================
