------------------------ MODULE NrfMembership_proof ------------------------
(***************************************************************************)
(* The coordinator's peer table, what its JOIN_ACKs promise and the slots  *)
(* and ids of the nodes, proved for every number of nodes, table size,     *)
(* ring size and bound.                                                    *)
(***************************************************************************)
EXTENDS NrfMembership, FiniteSetTheorems, WellFoundedInduction, TLAPS

(* The snapshots a node is reset to.                                       *)
LEMMA IdleType == Idle \in Snapshots /\ Scanning \in Snapshots
BY MembershipAssumption DEF Idle, Scanning, Snapshots

(* The empty entry, table, speaker list and slot map.                      *)
LEMMA EmptyTypes ==
  /\ NoPeer \in Entries /\ EmptyTable \in [Index -> Entries]
  /\ NoSpeakers \in [SpkIdx -> 0..MaxNodes] /\ EmptyMap \in [Index -> 0..MaxNodes]
BY MembershipAssumption
   DEF NoPeer, Entries, EmptyTable, NoSpeakers, EmptyMap, NoAddr, Index, SpkIdx

(* Packets carry the sender's id and nothing out of range.                 *)
LEMMA PacketType ==
  ASSUME TypeOK, NEW n \in Addr, NEW kind \in Kinds
  PROVE  /\ Packet(kind, n) \in Packets
         /\ \A spk \in [SpkIdx -> 0..MaxNodes] : Speak(kind, n, spk) \in Packets
<1>1. node[n].node_id \in 0..MaxNodes
  BY DEF TypeOK, Snapshots
<1>2. Packet(kind, n) \in Packets
  BY <1>1, EmptyTypes, MembershipAssumption DEF Packet, Packets, NoAddr
<1>3. QED
  BY <1>2 DEF Speak, Packets

(* A JOIN_ACK built from a table entry.                                    *)
LEMMA JoinAckType ==
  ASSUME TypeOK, NEW n \in Addr, NEW entry \in Entries
  PROVE  JoinAck(n, entry) \in Packets
<1>1. Packet("JOIN_ACK", n) \in Packets
  BY PacketType DEF Kinds
<1>2. QED
  BY <1>1 DEF JoinAck, Packets, Entries

(* A SLOT_MAP names an id in range for every slot.                         *)
LEMMA SlotMapType ==
  ASSUME TypeOK, NEW n \in Addr, NEW table \in [Index -> Entries],
         NEW spk \in [SpkIdx -> 0..MaxNodes]
  PROVE  SlotMap(n, table, spk) \in Packets
<1>1. Packet("SLOT_MAP", n) \in Packets
  BY PacketType DEF Kinds
<1>2. SlotIds(table) \in [Index -> 0..MaxNodes]
  <2> SUFFICES ASSUME NEW s \in Index
               PROVE  SlotIds(table)[s] \in 0..MaxNodes
    BY DEF SlotIds
  <2> DEFINE owners == {i \in Index : table[i].st = "announced" /\ table[i].slot = s}
  <2>1. SlotIds(table)[s] = IF owners = {} THEN 0 ELSE table[CHOOSE i \in owners : TRUE].id
    BY DEF SlotIds
  <2>2. CASE owners = {}
    BY <2>1, <2>2, MembershipAssumption
  <2>3. CASE owners # {}
    <3>1. (CHOOSE i \in owners : TRUE) \in Index
      BY <2>3
    <3>2. QED
      BY <2>1, <2>3, <3>1 DEF Entries
  <2>4. QED
    BY <2>2, <2>3
<1>3. QED
  BY <1>1, <1>2 DEF SlotMap, Packets

(* Queueing keeps a ring a ring, full or not.                              *)
LEMMA QueueType ==
  ASSUME NEW ring \in Seq(Packets), NEW pkt \in Packets
  PROVE  QueueControl(ring, pkt) \in Seq(Packets)
BY DEF QueueControl

(* So does reception, whoever hears the packet.                            *)
LEMMA BroadcastType ==
  ASSUME TypeOK, NEW n \in Addr, NEW pkt \in Packets, Broadcast(n, pkt)
  PROVE  rx_ring' \in [Addr -> Seq(Packets)]
<1>1. PICK heard \in Receptions(n) : rx_ring' = Heard(pkt, heard)
  BY DEF Broadcast
<1>2. QED
  BY <1>1 DEF Heard, TypeOK

(* The packet taken from rx_ring is one that was put there.                *)
LEMMA TakeType ==
  ASSUME TypeOK, NEW n \in Addr, NEW kind, Take(n, kind)
  PROVE  /\ rx_ring' \in [Addr -> Seq(Packets)]
         /\ Head(rx_ring[n]) \in Packets
BY DEF Take, TypeOK

(* Addresses in a table.                                                   *)
LEMMA AddrsOfType ==
  ASSUME NEW table \in [Index -> Entries]
  PROVE  AddrsOf(table) \subseteq Addr \cup {NoAddr}
BY DEF AddrsOf, InUse, Entries

(* reset_session_data leaves well-formed state.                            *)
LEMMA ResetType ==
  ASSUME TypeOK, NEW n \in Addr, ResetSession(n)
  PROVE  /\ peers' \in [Addr -> [Index -> Entries]]
         /\ forgotten' \in [Addr -> SUBSET (Addr \cup {NoAddr})]
         /\ speakers' \in [Addr -> [SpkIdx -> 0..MaxNodes]]
         /\ talking' \in [Addr -> SUBSET (0..MaxNodes)]
         /\ control_ring' \in [Addr -> Seq(Packets)]
<1>1. AddrsOf(peers[n]) \subseteq Addr \cup {NoAddr}
  BY AddrsOfType DEF TypeOK
<1>2. QED
  <2>1. peers' \in [Addr -> [Index -> Entries]] /\ speakers' \in [Addr -> [SpkIdx -> 0..MaxNodes]]
    BY EmptyTypes DEF ResetSession, TypeOK
  <2>2. forgotten' \in [Addr -> SUBSET (Addr \cup {NoAddr})]
    BY <1>1 DEF ResetSession, TypeOK
  <2>3. talking' \in [Addr -> SUBSET (0..MaxNodes)]
    BY DEF ResetSession, TypeOK
  <2>4. control_ring' \in [Addr -> Seq(Packets)]
    BY DEF ResetSession, TypeOK
  <2>5. QED
    BY <2>1, <2>2, <2>3, <2>4
-----------------------------------------------------------------------------
(* A nonempty set of naturals has a least element.                         *)
LEMMA LeastExists ==
  ASSUME NEW T \in SUBSET Nat, T # {}
  PROVE  \E x \in T : \A y \in T : x <= y
<1> DEFINE R == {ss \in Nat \X Nat : ss[1] < ss[2]}
<1>1. IsWellFoundedOn(R, Nat)
  BY NatLessThanWellFounded, Zenon DEF OpToRel
<1>2. \A x, y \in T : y < x => <<y, x>> \in R
  OBVIOUS
<1> HIDE DEF R
<1>3. \E x \in T : \A y \in T : ~ (<<y, x>> \in R)
  BY <1>1, WFMin
<1>4. PICK x \in T : \A y \in T : ~ (<<y, x>> \in R)
  BY <1>3
<1>5. \A y \in T : ~(y < x)
  BY <1>2, <1>4, Zenon
<1>6. \A y \in T : x <= y
  BY <1>5
<1>7. QED
  BY <1>6

(* first_free_node_id: while an id is free, the one chosen is in range and *)
(* neither the coordinator's nor that of a peer.                           *)
LEMMA FirstFreeType ==
  ASSUME NEW n \in Addr, FreeIds(n) # {}
  PROVE  /\ FirstFree(n) \in Ids \ Occupied(n)
         /\ \A addr \in Addr : Assigned(n, addr) \in Entries
<1>1. FreeIds(n) \in SUBSET Nat
  BY MembershipAssumption DEF FreeIds, Ids
<1>2. \E id \in FreeIds(n) : \A other \in FreeIds(n) : id <= other
  BY <1>1, LeastExists
<1>3. FirstFree(n) \in FreeIds(n)
  BY <1>2 DEF FirstFree
<1>4. QED
  BY <1>3, MembershipAssumption
     DEF FreeIds, Ids, Assigned, Entries, SlotForNodeId

(* The tables after an announcement, a removal and a join.                 *)
LEMMA TableTypes ==
  ASSUME TypeOK, NEW n \in Addr
  PROVE  /\ \A id : Announce(n, id) \in [Index -> Entries]
         /\ \A gone : Without(peers[n], gone) \in [Index -> Entries]
         /\ \A entry \in Entries : WithEntry(n, entry) \in [Index -> Entries]
<1>1. peers[n] \in [Index -> Entries]
  BY DEF TypeOK
<1>2. ASSUME NEW id PROVE Announce(n, id) \in [Index -> Entries]
  <2>1. \A i \in Index : [peers[n][i] EXCEPT !.st = "announced"] \in Entries
    BY <1>1 DEF Entries
  <2>2. QED
    BY <1>1, <2>1 DEF Announce
<1>3. ASSUME NEW gone PROVE Without(peers[n], gone) \in [Index -> Entries]
  BY <1>1, EmptyTypes DEF Without
<1>4. ASSUME NEW entry \in Entries PROVE WithEntry(n, entry) \in [Index -> Entries]
  BY <1>1 DEF WithEntry
<1>5. QED
  BY <1>2, <1>3, <1>4

(* Publishing grants and releases.                                         *)
LEMMA GrantRingType ==
  ASSUME TypeOK, NEW n \in Addr, NEW sel \in [SpkIdx -> 0..MaxNodes], NEW masks,
         NEW ring \in Seq(Packets)
  PROVE  GrantRing(n, sel, masks, ring) \in Seq(Packets)
<1> DEFINE released == Released(speakers[n], sel)
           ring1 == IF released = NoSpeakers THEN ring
                    ELSE QueueControl(ring, Speak("SPEAKER_RELEASE", n, released))
<1>1. released \in [SpkIdx -> 0..MaxNodes]
  BY MembershipAssumption DEF Released, TypeOK
<1>2. Speak("SPEAKER_RELEASE", n, released) \in Packets /\ Speak("SPEAKER_GRANT", n, sel) \in Packets
  BY <1>1, PacketType DEF Kinds
<1>3. ring1 \in Seq(Packets)
  BY <1>2, QueueType
<1>4. QueueControl(ring1, Speak("SPEAKER_GRANT", n, sel)) \in Seq(Packets)
  BY <1>2, <1>3, QueueType
<1>5. QED
  BY <1>4 DEF GrantRing

(* The control records of the other handlers.                              *)
LEMMA RingTypes ==
  ASSUME TypeOK, NEW n \in Addr
  PROVE  /\ \A id : RingAfter(n, id) \in Seq(Packets)
         /\ \A gone : StatusRing(n, gone) \in Seq(Packets)
         /\ \A ring \in Seq(Packets) : Heartbeat(n, ring) \in Seq(Packets)
<1>1. control_ring[n] \in Seq(Packets) /\ speakers[n] \in [SpkIdx -> 0..MaxNodes]
  BY DEF TypeOK
<1>2. ASSUME NEW id PROVE RingAfter(n, id) \in Seq(Packets)
  <2>1. SlotMap(n, Announce(n, id), speakers[n]) \in Packets
    BY <1>1, SlotMapType, TableTypes
  <2>2. QED
    BY <1>1, <2>1, QueueType DEF RingAfter
<1>3. ASSUME NEW gone PROVE StatusRing(n, gone) \in Seq(Packets)
  <2>1. SlotMap(n, Without(peers[n], gone), speakers[n]) \in Packets
    BY <1>1, SlotMapType, TableTypes
  <2>2. QED
    BY <1>1, <2>1, QueueType DEF StatusRing
<1>4. ASSUME NEW ring \in Seq(Packets) PROVE Heartbeat(n, ring) \in Seq(Packets)
  <2>1. Packet("STATUS", n) \in Packets /\ Packet("KEEPALIVE", n) \in Packets
    BY PacketType DEF Kinds
  <2>2. QED
    BY <2>1, QueueType DEF Heartbeat
<1>5. QED
  BY <1>2, <1>3, <1>4

(* Peers are counted over a finite table.                                  *)
LEMMA CountTypes ==
  ASSUME TypeOK, NEW n \in Addr
  PROVE  /\ \A id : Cardinality(Unannounced(n, id)) \in Nat
         /\ \A gone \in SUBSET Index : CountAfter(n, gone) \in Int
<1>1. IsFiniteSet(Index)
  BY FS_Interval, MembershipAssumption DEF Index
<1>2. ASSUME NEW id PROVE Cardinality(Unannounced(n, id)) \in Nat
  <2>1. Unannounced(n, id) \subseteq Index
    BY DEF Unannounced
  <2>2. QED
    BY <1>1, <2>1, FS_Subset, FS_CardinalityType
<1>3. ASSUME NEW gone \in SUBSET Index PROVE CountAfter(n, gone) \in Int
  <2> DEFINE left == {i \in gone : peers[n][i].st = "announced"}
  <2>1. Cardinality(left) \in Nat
    BY <1>1, FS_Subset, FS_CardinalityType
  <2>2. QED
    BY <2>1 DEF CountAfter, TypeOK, Snapshots
<1>4. QED
  BY <1>2, <1>3

(* JOIN_ACK and SLOT_MAP are queued behind each other.                     *)
LEMMA AcknowledgeType ==
  ASSUME TypeOK, NEW n \in Addr, NEW entry \in Entries, NEW table \in [Index -> Entries],
         Acknowledge(n, entry, table)
  PROVE  control_ring' \in [Addr -> Seq(Packets)]
<1>1. JoinAck(n, entry) \in Packets /\ SlotMap(n, table, speakers[n]) \in Packets
  BY JoinAckType, SlotMapType DEF TypeOK
<1>2. QueueControl(QueueControl(control_ring[n], JoinAck(n, entry)),
                   SlotMap(n, table, speakers[n])) \in Seq(Packets)
  BY <1>1, QueueType DEF TypeOK
<1>3. QED
  BY <1>2 DEF Acknowledge, TypeOK

(* A snapshot with another peer count.                                     *)
LEMMA SnapCount ==
  ASSUME TypeOK, NEW n \in Addr, NEW v \in Int
  PROVE  [node EXCEPT ![n].peer_count = v] \in [Addr -> Snapshots]
BY DEF TypeOK, Snapshots

(* Removing peers.                                                         *)
LEMMA RemoveType ==
  ASSUME TypeOK, NEW n \in Addr, NEW gone \in SUBSET Index, RemovePeers(n, gone)
  PROVE  /\ peers' \in [Addr -> [Index -> Entries]]
         /\ node' \in [Addr -> Snapshots]
         /\ forgotten' \in [Addr -> SUBSET (Addr \cup {NoAddr})]
<1>1. peers' \in [Addr -> [Index -> Entries]]
  BY TableTypes DEF RemovePeers, TypeOK
<1>2. node' \in [Addr -> Snapshots]
  <2>1. CountAfter(n, gone) \in Int
    BY CountTypes
  <2> DEFINE v == IF gone = {} THEN node[n].peer_count ELSE CountAfter(n, gone)
  <2>2. v \in Int
    BY <2>1 DEF TypeOK, Snapshots
  <2>3. node' = [node EXCEPT ![n].peer_count = v]
    BY DEF RemovePeers
  <2> HIDE DEF v
  <2>4. QED
    BY <2>2, <2>3, SnapCount
<1>3. {peers[n][i].addr : i \in gone} \subseteq Addr \cup {NoAddr}
  BY DEF TypeOK, Entries
<1>4. QED
  BY <1>1, <1>2, <1>3 DEF RemovePeers, TypeOK

(* Hearing a peer.                                                         *)
LEMMA HearType ==
  ASSUME TypeOK, NEW n \in Addr, NEW id, HearPeer(n, id)
  PROVE  /\ peers' \in [Addr -> [Index -> Entries]]
         /\ node' \in [Addr -> Snapshots]
<1>1. peers' \in [Addr -> [Index -> Entries]]
  BY TableTypes DEF HearPeer, TypeOK
<1>2. Cardinality(Unannounced(n, id)) \in Nat
  BY CountTypes
<1> DEFINE v == node[n].peer_count + Cardinality(Unannounced(n, id))
<1>3. v \in Int
  BY <1>2 DEF TypeOK, Snapshots
<1>4. node' = [node EXCEPT ![n].peer_count = v]
  BY DEF HearPeer
<1> HIDE DEF v
<1>5. QED
  BY <1>1, <1>3, <1>4, SnapCount

(* Updating the grants.                                                    *)
LEMMA GrantsType ==
  ASSUME TypeOK, NEW n \in Addr, NEW talk, NEW ring \in Seq(Packets),
         UpdateSpeakerGrants(n, talk, ring)
  PROVE  /\ speakers' \in [Addr -> [SpkIdx -> 0..MaxNodes]]
         /\ control_ring' \in [Addr -> Seq(Packets)]
<1>1. PICK sel \in Selections(speakers[n], talk), masks \in Masks :
        /\ speakers' = [speakers EXCEPT ![n] = sel]
        /\ control_ring' = [control_ring EXCEPT ![n] = GrantRing(n, sel, masks, ring)]
  BY DEF UpdateSpeakerGrants
<1>2. sel \in [SpkIdx -> 0..MaxNodes]
  BY DEF Selections
<1>3. GrantRing(n, sel, masks, ring) \in Seq(Packets)
  BY <1>2, GrantRingType
<1>4. QED
  BY <1>1, <1>2, <1>3 DEF TypeOK

(* The grants read from a packet.                                          *)
LEMMA GrantedType ==
  ASSUME NEW pkt \in Packets
  PROVE  Granted(pkt) \in [SpkIdx -> 0..MaxNodes]
BY MembershipAssumption DEF Granted, Packets
-----------------------------------------------------------------------------
(* Every step keeps every variable in its domain.                          *)
LEMMA TypeInduction == TypeOK /\ [Next]_vars => TypeOK'
<1> SUFFICES ASSUME TypeOK, [Next]_vars PROVE TypeOK'
  OBVIOUS
<1> USE MembershipAssumption
<1>1. CASE UNCHANGED vars
  BY <1>1 DEF TypeOK, vars
<1>2. ASSUME NEW n \in Addr, Step(n) PROVE TypeOK'
  <2>1. CASE Start(n)
    <3>0. node[n] \in Snapshots
      BY DEF TypeOK
    <3>1. [node[n] EXCEPT !.state = "scanning"] \in Snapshots
      BY <3>0 DEF Snapshots
    <3>2. node' = [node EXCEPT ![n] = [node[n] EXCEPT !.state = "scanning"]]
      BY <2>1 DEF Start
    <3>3. node' \in [Addr -> Snapshots]
      BY <3>1, <3>2 DEF TypeOK
    <3>4. QED
      BY <2>1, <3>3 DEF Start, TypeOK
  <2>2. CASE Stop(n)
    <3>1. Packet("LEAVE", n) \in Packets
      BY PacketType DEF Kinds
    <3>2. PICK heard \in (IF Active(n) THEN Receptions(n) ELSE {{}}) :
            rx_ring' = [Heard(Packet("LEAVE", n), heard) EXCEPT ![n] = <<>>]
      BY <2>2 DEF Stop
    <3>3. Heard(Packet("LEAVE", n), heard) \in [Addr -> Seq(Packets)]
      BY <3>1 DEF Heard, TypeOK
    <3>4. rx_ring' \in [Addr -> Seq(Packets)]
      BY <3>2, <3>3
    <3>5. QED
      <4>1. node' \in [Addr -> Snapshots]
        BY <2>2, IdleType DEF Stop, TypeOK
      <4>2. sponsor' \in [Addr -> Addr \cup {NoAddr}] /\ upsets' \in Nat
        BY <2>2 DEF Stop, TypeOK
      <4>3. ResetSession(n)
        BY <2>2 DEF Stop
      <4>4. QED
        BY <2>2, <3>4, <4>1, <4>2, <4>3, ResetType DEF Stop, TypeOK
  <2>3. CASE ScanTimeout(n)
    <3>1. [id |-> 1, slot |-> 0, addr |-> n, st |-> "announced"] \in Entries
      BY DEF Entries
    <3>2. [state |-> "active", role |-> "coordinator", node_id |-> 1, slot_index |-> 0,
           coordinator_id |-> 1, peer_count |-> 0] \in Snapshots
      BY DEF Snapshots
    <3>3. QED
      <4> DEFINE self == [id |-> 1, slot |-> 0, addr |-> n, st |-> "announced"]
      <4>1. peers' = [peers EXCEPT ![n] = [peers[n] EXCEPT ![0] = self]]
        BY <2>3 DEF ScanTimeout
      <4>2. [peers[n] EXCEPT ![0] = self] \in [Index -> Entries]
        BY <3>1 DEF TypeOK
      <4>3. peers' \in [Addr -> [Index -> Entries]]
        BY <4>1, <4>2 DEF TypeOK
      <4>4. node' \in [Addr -> Snapshots] /\ upsets' \in Nat
        BY <2>3, <3>2 DEF ScanTimeout, TypeOK
      <4>5. QED
        BY <2>3, <4>3, <4>4 DEF ScanTimeout, TypeOK
  <2>4. CASE SendJoin(n)
    <3>1. Packet("JOIN", n) \in Packets
      BY PacketType DEF Kinds
    <3>2. rx_ring' \in [Addr -> Seq(Packets)]
      BY <2>4, <3>1, BroadcastType DEF SendJoin
    <3>3. QED
      <4>1. join_attempts' \in [Addr -> Nat]
        <5>1. join_attempts \in [Addr -> Nat]
          BY DEF TypeOK
        <5>2. join_attempts' = [join_attempts EXCEPT ![n] = @ + 1]
          BY <2>4 DEF SendJoin
        <5>3. QED
          BY <5>1, <5>2
      <4>2. QED
        BY <2>4, <3>2, <4>1 DEF SendJoin, TypeOK
  <2>5. CASE JoinTimeout(n)
    <3>1. [Scanning EXCEPT !.peer_count = node[n].peer_count] \in Snapshots
      BY IdleType DEF TypeOK, Snapshots
    <3>2. QED
      BY <2>5, <3>1 DEF JoinTimeout, TypeOK
  <2>6. CASE SendSync(n)
    <3>1. Packet("SYNC", n) \in Packets
      BY PacketType DEF Kinds
    <3>2. rx_ring' \in [Addr -> Seq(Packets)]
      BY <2>6, <3>1, BroadcastType DEF SendSync
    <3>3. QED
      BY <2>6, <3>2 DEF SendSync, TypeOK
  <2>7. CASE SendControl(n)
    <3>1. Head(control_ring[n]) \in Packets /\ Tail(control_ring[n]) \in Seq(Packets)
      <4>1. control_ring[n] \in Seq(Packets) /\ control_ring[n] # <<>>
        BY <2>7 DEF SendControl, TypeOK
      <4>2. QED
        BY <4>1
    <3>2. rx_ring' \in [Addr -> Seq(Packets)]
      BY <2>7, <3>1, BroadcastType DEF SendControl
    <3>3. QED
      BY <2>7, <3>1, <3>2 DEF SendControl, TypeOK
  <2>8. CASE DiscoverCoordinator(n)
    <3>1. rx_ring' \in [Addr -> Seq(Packets)] /\ Head(rx_ring[n]) \in Packets
      BY <2>8, TakeType DEF DiscoverCoordinator
    <3>2. Head(rx_ring[n]).src \in 0..MaxNodes
      BY <3>1 DEF Packets
    <3>3. QED
      <4> DEFINE snap == [node[n] EXCEPT !.state = "joining",
                                         !.coordinator_id = Head(rx_ring[n]).src]
      <4>1. snap \in Snapshots
        <5>1. node[n] \in Snapshots
          BY DEF TypeOK
        <5>2. QED
          BY <3>2, <5>1 DEF Snapshots
      <4>2. node' = [node EXCEPT ![n] = snap]
        BY <2>8 DEF DiscoverCoordinator, TypeOK
      <4> HIDE DEF snap
      <4>3. node' \in [Addr -> Snapshots]
        BY <4>1, <4>2 DEF TypeOK
      <4>4. join_attempts' \in [Addr -> Nat]
        BY <2>8 DEF DiscoverCoordinator, TypeOK
      <4>5. QED
        BY <2>8, <3>1, <4>3, <4>4 DEF DiscoverCoordinator, TypeOK
  <2>9. CASE DemoteCoordinator(n)
    <3>1. rx_ring' \in [Addr -> Seq(Packets)] /\ Head(rx_ring[n]) \in Packets
      BY <2>9, TakeType DEF DemoteCoordinator
    <3>2. [Idle EXCEPT !.state = "joining", !.coordinator_id = Head(rx_ring[n]).src]
            \in Snapshots
      BY <3>1, IdleType DEF Packets, Snapshots
    <3>3. QED
      <4>1. node' \in [Addr -> Snapshots] /\ join_attempts' \in [Addr -> Nat]
        BY <2>9, <3>2 DEF DemoteCoordinator, TypeOK
      <4>2. ResetSession(n)
        BY <2>9 DEF DemoteCoordinator
      <4>3. QED
        BY <2>9, <3>1, <4>1, <4>2, ResetType DEF DemoteCoordinator, TypeOK
  <2>10. CASE KeepOnSync(n)
    <3>1. rx_ring' \in [Addr -> Seq(Packets)]
      BY <2>10, TakeType DEF KeepOnSync
    <3>2. QED
      BY <2>10, <3>1 DEF KeepOnSync, TypeOK
  <2>11. CASE RxJoinKnown(n)
    <3>1. rx_ring' \in [Addr -> Seq(Packets)]
      BY <2>11, TakeType DEF RxJoinKnown
    <3>2. PICK i \in InUse(peers[n]) : Acknowledge(n, peers[n][i], peers[n])
      BY <2>11 DEF RxJoinKnown
    <3>3. peers[n] \in [Index -> Entries] /\ peers[n][i] \in Entries
      BY DEF TypeOK, InUse
    <3>4. control_ring' \in [Addr -> Seq(Packets)]
      BY <3>2, <3>3, AcknowledgeType
    <3>5. QED
      BY <2>11, <3>1, <3>4 DEF RxJoinKnown, TypeOK
  <2>12. CASE RxJoinNew(n)
    <3> DEFINE entry == Assigned(n, Head(rx_ring[n]).from)
    <3>1. rx_ring' \in [Addr -> Seq(Packets)] /\ Head(rx_ring[n]) \in Packets
      BY <2>12, TakeType DEF RxJoinNew
    <3>2. Head(rx_ring[n]).from \in Addr
      BY <3>1 DEF Packets
    <3>3. entry \in Entries
      BY <2>12, <3>2, FirstFreeType DEF RxJoinNew
    <3>4. WithEntry(n, entry) \in [Index -> Entries]
      BY <3>3, TableTypes
    <3>5. Acknowledge(n, entry, WithEntry(n, entry)) /\ peers' = [peers EXCEPT ![n] = WithEntry(n, entry)]
      BY <2>12 DEF RxJoinNew
    <3> HIDE DEF entry
    <3>6. control_ring' \in [Addr -> Seq(Packets)]
      BY <3>3, <3>4, <3>5, AcknowledgeType
    <3>7. QED
      <4>1. peers' \in [Addr -> [Index -> Entries]]
        BY <3>4, <3>5 DEF TypeOK
      <4>2. QED
        BY <2>12, <3>1, <3>6, <4>1 DEF RxJoinNew, TypeOK
  <2>13. CASE RxJoinIgnored(n)
    <3>1. rx_ring' \in [Addr -> Seq(Packets)]
      BY <2>13, TakeType DEF RxJoinIgnored
    <3>2. QED
      BY <2>13, <3>1 DEF RxJoinIgnored, TypeOK
  <2>14. CASE RxJoinAck(n)
    <3> DEFINE pkt == Head(rx_ring[n])
    <3>1. rx_ring' \in [Addr -> Seq(Packets)] /\ pkt \in Packets
      BY <2>14, TakeType DEF RxJoinAck
    <3>2. [state |-> "active", role |-> "participant", node_id |-> pkt.id,
           slot_index |-> pkt.slot, coordinator_id |-> pkt.src,
           peer_count |-> Unknown] \in Snapshots
      <4>1. /\ pkt.id \in 0..MaxNodes /\ pkt.src \in 0..MaxNodes
            /\ pkt.slot \in -1..(MaxNodes - 1)
        BY <3>1 DEF Packets
      <4>2. QED
        BY <4>1 DEF Snapshots, Unknown
    <3>3. pkt.from \in Addr
      BY <3>1 DEF Packets
    <3> HIDE DEF pkt
    <3>4. node' \in [Addr -> Snapshots] /\ sponsor' \in [Addr -> Addr \cup {NoAddr}]
      <4>1. CASE JoinAckValid(n, pkt)
        <5>1. /\ node' = [node EXCEPT ![n] =
                     [state |-> "active", role |-> "participant", node_id |-> pkt.id,
                      slot_index |-> pkt.slot, coordinator_id |-> pkt.src,
                      peer_count |-> Unknown]]
              /\ sponsor' = [sponsor EXCEPT ![n] = pkt.from]
          BY <2>14, <4>1 DEF RxJoinAck, pkt
        <5>2. QED
          BY <3>2, <3>3, <5>1 DEF TypeOK
      <4>2. CASE ~JoinAckValid(n, pkt)
        BY <2>14, <4>2 DEF RxJoinAck, TypeOK, pkt
      <4>3. QED
        BY <4>1, <4>2
    <3>5. QED
      BY <2>14, <3>1, <3>4 DEF RxJoinAck, TypeOK
  <2>15. CASE RxSlotMap(n)
    <3> DEFINE pkt == Head(rx_ring[n])
               apply == /\ Active(n) /\ IsParticipant(n) /\ pkt.src = node[n].coordinator_id
                        /\ SlotMapValid(pkt, node[n].node_id, node[n].coordinator_id)
    <3>1. rx_ring' \in [Addr -> Seq(Packets)] /\ pkt \in Packets
      BY <2>15, TakeType DEF RxSlotMap
    <3>2. node' \in [Addr -> Snapshots] /\ speakers' \in [Addr -> [SpkIdx -> 0..MaxNodes]]
      <4>1. CASE apply
        <5>1. LocalSlot(pkt, node[n].node_id) \in Index
          BY <4>1 DEF LocalSlot, SlotMapValid
        <5>2. Cardinality(Members(pkt)) - 1 \in Int
          <6>1. IsFiniteSet(0..MaxNodes) /\ Members(pkt) \subseteq 0..MaxNodes
            <7>1. pkt.slot_ids \in [Index -> 0..MaxNodes]
              BY <3>1 DEF Packets
            <7>2. Members(pkt) \subseteq 0..MaxNodes
              BY <7>1 DEF Members
            <7>3. IsFiniteSet(0..MaxNodes)
              BY FS_Interval
            <7>4. QED
              BY <7>2, <7>3
          <6>2. QED
            BY <6>1, FS_Subset, FS_CardinalityType
        <5>3. Granted(pkt) \in [SpkIdx -> 0..MaxNodes]
          BY <3>1, GrantedType
        <5>4. /\ node' = [node EXCEPT ![n].slot_index = LocalSlot(pkt, node[n].node_id),
                                     ![n].peer_count = Cardinality(Members(pkt)) - 1]
              /\ speakers' = [speakers EXCEPT ![n] = Granted(pkt)]
          BY <2>15, <4>1 DEF RxSlotMap
        <5>5. node' \in [Addr -> Snapshots]
          <6> HIDE DEF pkt
          <6>1. ASSUME NEW ls \in Index, NEW pc \in Int
                PROVE  [node EXCEPT ![n].slot_index = ls, ![n].peer_count = pc]
                         \in [Addr -> Snapshots]
            <7>1. [node[n] EXCEPT !.slot_index = ls, !.peer_count = pc] \in Snapshots
              <8>1. node[n] \in Snapshots
                BY DEF TypeOK
              <8>2. ls \in -1..(MaxNodes - 1)
                BY DEF Index
              <8>3. [node[n] EXCEPT !.slot_index = ls] \in Snapshots
                BY <8>1, <8>2 DEF Snapshots
              <8>4. QED
                BY <8>3 DEF Snapshots
            <7>2. [node EXCEPT ![n].slot_index = ls, ![n].peer_count = pc]
                    = [node EXCEPT ![n] = [node[n] EXCEPT !.slot_index = ls, !.peer_count = pc]]
              BY DEF TypeOK
            <7>3. QED
              BY <7>1, <7>2 DEF TypeOK
          <6>2. QED
            BY <5>1, <5>2, <5>4, <6>1
        <5>6. QED
          BY <5>3, <5>4, <5>5 DEF TypeOK
      <4>2. CASE ~apply
        BY <2>15, <4>2 DEF RxSlotMap, TypeOK
      <4>3. QED
        BY <4>1, <4>2
    <3>3. QED
      BY <2>15, <3>1, <3>2 DEF RxSlotMap, TypeOK
  <2>16. CASE RxAlive(n)
    <3> DEFINE id == Head(rx_ring[n]).src
    <3>1. rx_ring' \in [Addr -> Seq(Packets)]
      BY <2>16, TakeType DEF RxAlive
    <3>2. peers' \in [Addr -> [Index -> Entries]] /\ node' \in [Addr -> Snapshots]
      BY <2>16, HearType DEF RxAlive
    <3>3. RingAfter(n, id) \in Seq(Packets)
      BY RingTypes
    <3>4. control_ring' = [control_ring EXCEPT ![n] = RingAfter(n, id)]
      BY <2>16 DEF RxAlive
    <3> HIDE DEF id
    <3>5. control_ring' \in [Addr -> Seq(Packets)]
      BY <3>3, <3>4 DEF TypeOK
    <3>6. QED
      BY <2>16, <3>1, <3>2, <3>5 DEF RxAlive, TypeOK
  <2>17. CASE RxLeave(n)
    <3> DEFINE gone == Leavers(n, Head(rx_ring[n]))
    <3>1. rx_ring' \in [Addr -> Seq(Packets)]
      BY <2>17, TakeType DEF RxLeave
    <3>2. gone \in SUBSET Index
      BY DEF Leavers, InUse
    <3>3. RemovePeers(n, gone) /\ control_ring' = [control_ring EXCEPT ![n] = StatusRing(n, gone)]
      BY <2>17 DEF RxLeave, StatusRing
    <3>4. StatusRing(n, gone) \in Seq(Packets)
      BY RingTypes
    <3> HIDE DEF gone
    <3>5. control_ring' \in [Addr -> Seq(Packets)]
      BY <3>3, <3>4 DEF TypeOK
    <3>6. QED
      BY <2>17, <3>1, <3>2, <3>3, <3>5, RemoveType DEF RxLeave, TypeOK
  <2>18. CASE SendAudio(n)
    <3>1. Packet("AUDIO", n) \in Packets
      BY PacketType DEF Kinds
    <3>2. rx_ring' \in [Addr -> Seq(Packets)]
      BY <2>18, <3>1, BroadcastType DEF SendAudio
    <3>3. upsets' \in Nat
      BY <2>18 DEF SendAudio, TypeOK
    <3>4. QED
      BY <2>18, <3>2, <3>3 DEF SendAudio, TypeOK
  <2>19. CASE RxAudio(n)
    <3> DEFINE id == Head(rx_ring[n]).src
    <3>1. rx_ring' \in [Addr -> Seq(Packets)] /\ Head(rx_ring[n]) \in Packets
      BY <2>19, TakeType DEF RxAudio
    <3>2. id \in 0..MaxNodes
      BY <3>1 DEF Packets
    <3>3. peers' \in [Addr -> [Index -> Entries]] /\ node' \in [Addr -> Snapshots]
      BY <2>19, HearType DEF RxAudio
    <3>4. RingAfter(n, id) \in Seq(Packets)
      BY RingTypes
    <3>5. /\ talking' = [talking EXCEPT ![n] = @ \cup {id}]
          /\ UpdateSpeakerGrants(n, talking'[n], RingAfter(n, id))
      BY <2>19 DEF RxAudio
    <3> HIDE DEF id
    <3>6. /\ speakers' \in [Addr -> [SpkIdx -> 0..MaxNodes]]
          /\ control_ring' \in [Addr -> Seq(Packets)]
      BY <3>4, <3>5, GrantsType
    <3>7. talking' \in [Addr -> SUBSET (0..MaxNodes)]
      BY <3>2, <3>5 DEF TypeOK
    <3>8. QED
      BY <2>19, <3>1, <3>3, <3>6, <3>7 DEF RxAudio, TypeOK
  <2>20. CASE RxAudioIgnored(n)
    <3>1. rx_ring' \in [Addr -> Seq(Packets)]
      BY <2>20, TakeType DEF RxAudioIgnored
    <3>2. QED
      BY <2>20, <3>1 DEF RxAudioIgnored, TypeOK
  <2>21. CASE LocalAudio(n)
    <3>1. node[n].node_id \in 0..MaxNodes /\ control_ring[n] \in Seq(Packets)
      BY DEF TypeOK, Snapshots
    <3>2. /\ talking' = [talking EXCEPT ![n] = @ \cup {node[n].node_id}]
          /\ UpdateSpeakerGrants(n, talking'[n], control_ring[n])
      BY <2>21 DEF LocalAudio
    <3>3. /\ speakers' \in [Addr -> [SpkIdx -> 0..MaxNodes]]
          /\ control_ring' \in [Addr -> Seq(Packets)]
      BY <3>1, <3>2, GrantsType
    <3>4. talking' \in [Addr -> SUBSET (0..MaxNodes)]
      BY <3>1, <3>2 DEF TypeOK
    <3>5. upsets' \in Nat
      BY <2>21 DEF LocalAudio, TypeOK
    <3>6. QED
      BY <2>21, <3>3, <3>4, <3>5 DEF LocalAudio, TypeOK
  <2>22. CASE TalkExpires(n)
    <3>1. talking' \in [Addr -> SUBSET (0..MaxNodes)]
      BY <2>22 DEF TalkExpires, TypeOK
    <3>2. QED
      BY <2>22, <3>1 DEF TalkExpires, TypeOK
  <2>23. CASE RxGrant(n)
    <3>1. rx_ring' \in [Addr -> Seq(Packets)] /\ Head(rx_ring[n]) \in Packets
      BY <2>23, TakeType DEF RxGrant
    <3>2. Granted(Head(rx_ring[n])) \in [SpkIdx -> 0..MaxNodes]
      BY <3>1, GrantedType
    <3>3. speakers' \in [Addr -> [SpkIdx -> 0..MaxNodes]]
      BY <2>23, <3>2 DEF RxGrant, TypeOK
    <3>4. QED
      BY <2>23, <3>1, <3>3 DEF RxGrant, TypeOK
  <2>24. CASE RxRelease(n)
    <3> DEFINE pkt == Head(rx_ring[n])
               named == {pkt.speaker_ids[i] : i \in SpkIdx} \ {0}
               kept == [i \in SpkIdx |-> IF speakers[n][i] \in named THEN 0
                                         ELSE speakers[n][i]]
    <3>1. rx_ring' \in [Addr -> Seq(Packets)]
      BY <2>24, TakeType DEF RxRelease
    <3>2. kept \in [SpkIdx -> 0..MaxNodes]
      BY DEF TypeOK
    <3>3. speakers' = speakers \/ speakers' = [speakers EXCEPT ![n] = kept]
      BY <2>24 DEF RxRelease
    <3> HIDE DEF kept
    <3>4. speakers' \in [Addr -> [SpkIdx -> 0..MaxNodes]]
      BY <3>2, <3>3 DEF TypeOK
    <3>5. QED
      BY <2>24, <3>1, <3>4 DEF RxRelease, TypeOK
  <2>25. CASE StatusTick(n)
    <3>1. PICK gone \in SUBSET MaySilence(n) :
            /\ RemovePeers(n, gone)
            /\ upsets' = IF gone = {} THEN upsets ELSE upsets + 1
            /\ IF IsCoordinator(n)
               THEN \E sel \in Selections(speakers[n], talking[n]), masks \in Masks :
                      /\ speakers' = [speakers EXCEPT ![n] = sel]
                      /\ control_ring' = [control_ring EXCEPT ![n] =
                           Heartbeat(n, GrantRing(n, sel, masks, StatusRing(n, gone)))]
               ELSE /\ control_ring' = [control_ring EXCEPT ![n] = Heartbeat(n, @)]
                    /\ UNCHANGED speakers
      BY <2>25 DEF StatusTick
    <3>2. gone \in SUBSET Index
      BY DEF MaySilence, InUse
    <3>3. /\ peers' \in [Addr -> [Index -> Entries]]
          /\ node' \in [Addr -> Snapshots]
          /\ forgotten' \in [Addr -> SUBSET (Addr \cup {NoAddr})]
      BY <3>1, <3>2, RemoveType
    <3>4. upsets' \in Nat
      BY <3>1 DEF TypeOK
    <3>5. /\ speakers' \in [Addr -> [SpkIdx -> 0..MaxNodes]]
          /\ control_ring' \in [Addr -> Seq(Packets)]
      <4>1. CASE IsCoordinator(n)
        <5>1. PICK sel \in Selections(speakers[n], talking[n]), masks \in Masks :
                /\ speakers' = [speakers EXCEPT ![n] = sel]
                /\ control_ring' = [control_ring EXCEPT ![n] =
                     Heartbeat(n, GrantRing(n, sel, masks, StatusRing(n, gone)))]
          BY <3>1, <4>1
        <5>2. sel \in [SpkIdx -> 0..MaxNodes]
          BY DEF Selections
        <5>3. GrantRing(n, sel, masks, StatusRing(n, gone)) \in Seq(Packets)
          BY <5>2, RingTypes, GrantRingType
        <5>4. Heartbeat(n, GrantRing(n, sel, masks, StatusRing(n, gone))) \in Seq(Packets)
          BY <5>3, RingTypes
        <5>5. QED
          BY <5>1, <5>2, <5>4 DEF TypeOK
      <4>2. CASE ~IsCoordinator(n)
        <5>1. Heartbeat(n, control_ring[n]) \in Seq(Packets)
          BY RingTypes DEF TypeOK
        <5>2. QED
          BY <3>1, <4>2, <5>1 DEF TypeOK
      <4>3. QED
        BY <4>1, <4>2
    <3>6. QED
      BY <2>25, <3>3, <3>4, <3>5 DEF StatusTick, TypeOK
  <2>26. CASE CoordinatorLost(n)
    <3>1. node' \in [Addr -> Snapshots]
      BY <2>26, IdleType DEF CoordinatorLost, TypeOK
    <3>2. sponsor' \in [Addr -> Addr \cup {NoAddr}] /\ upsets' \in Nat
      BY <2>26 DEF CoordinatorLost, TypeOK
    <3>3. ResetSession(n)
      BY <2>26 DEF CoordinatorLost
    <3>4. QED
      BY <2>26, <3>1, <3>2, <3>3, ResetType DEF CoordinatorLost, TypeOK
  <2>27. QED
    BY <1>2, <2>1, <2>2, <2>3, <2>4, <2>5, <2>6, <2>7, <2>8, <2>9, <2>10, <2>11, <2>12,
       <2>13, <2>14, <2>15, <2>16, <2>17, <2>18, <2>19, <2>20, <2>21, <2>22, <2>23, <2>24,
       <2>25, <2>26 DEF Step, Receive
<1>3. QED
  BY <1>1, <1>2 DEF Next

-----------------------------------------------------------------------------
(* An action of n leaves the tables of the other nodes alone.              *)
LEMMA TableFrame ==
  ASSUME PeerTable, NEW n \in Addr,
         \A m \in Addr \ {n} : node'[m] = node[m] /\ peers'[m] = peers[m],
         IF IsCoordinator(n)' THEN CoordinatorTable(n)' ELSE peers'[n] = EmptyTable
  PROVE  PeerTable'
<1> SUFFICES ASSUME NEW m \in Addr
             PROVE  (IF IsCoordinator(m) THEN CoordinatorTable(m) ELSE peers[m] = EmptyTable)'
  BY DEF PeerTable
<1>1. CASE m = n
  BY <1>1
<1>2. CASE m # n
  <2>1. node'[m] = node[m] /\ peers'[m] = peers[m]
    BY <1>2
  <2>2. QED
    BY <2>1 DEF PeerTable, IsCoordinator, CoordinatorTable, InTable
<1>3. QED
  BY <1>1, <1>2

(* Parts of the table are finite.                                          *)
LEMMA AnnouncedFinite ==
  ASSUME NEW table
  PROVE  /\ IsFiniteSet(Announced(table)) /\ Cardinality(Announced(table)) \in Nat
         /\ \A T \in SUBSET Index : IsFiniteSet(T) /\ Cardinality(T) \in Nat
<1>1. IsFiniteSet(Index)
  BY FS_Interval, MembershipAssumption DEF Index
<1>2. \A T \in SUBSET Index : IsFiniteSet(T) /\ Cardinality(T) \in Nat
  BY <1>1, FS_Subset, FS_CardinalityType
<1>3. Announced(table) \in SUBSET Index
  BY DEF Announced
<1>4. QED
  BY <1>2, <1>3

(* Announcing a peer counts it; peers already announced are not counted    *)
(* again.                                                                  *)
LEMMA HearTable ==
  ASSUME TypeOK, PeerTable, NEW n \in Addr, NEW id, HearPeer(n, id)
  PROVE  PeerTable'
<1> DEFINE new == Unannounced(n, id)
           table == Announce(n, id)
<1>1. /\ node'[n] = [node[n] EXCEPT !.peer_count = @ + Cardinality(new)]
      /\ peers'[n] = table
      /\ \A m \in Addr \ {n} : node'[m] = node[m] /\ peers'[m] = peers[m]
  BY DEF HearPeer, TypeOK
<1>2. /\ node'[n].role = node[n].role /\ node'[n].state = node[n].state
      /\ node'[n].node_id = node[n].node_id
      /\ node'[n].peer_count = node[n].peer_count + Cardinality(new)
  BY <1>1 DEF TypeOK, Snapshots
<1>3. CASE ~IsCoordinator(n)
  <2>1. new = {} /\ peers[n] = EmptyTable
    BY <1>3 DEF Unannounced, PeerTable
  <2>2. table = EmptyTable
    BY <2>1 DEF Announce, EmptyTable
  <2>3. QED
    BY <1>1, <1>2, <1>3, <2>2, TableFrame DEF IsCoordinator
<1>4. CASE IsCoordinator(n)
  <2>1. CoordinatorTable(n)
    BY <1>4 DEF PeerTable
  <2>2. new \subseteq Index \ {0}
    BY <2>1 DEF CoordinatorTable, Unannounced
  <2>3. \A i \in Index : /\ table[i].id = peers[n][i].id /\ table[i].slot = peers[n][i].slot
                         /\ table[i].addr = peers[n][i].addr
                         /\ table[i].st = IF i \in new THEN "announced" ELSE peers[n][i].st
    BY DEF Announce, TypeOK, Entries
  <2>4. InUse(table) = InUse(peers[n])
    BY <2>3 DEF InUse, Unannounced
  <2>5. Announced(table) = Announced(peers[n]) \cup new
    BY <2>2, <2>3 DEF Announced
  <2>6. Announced(peers[n]) \cap new = {}
    BY DEF Announced, Unannounced
  <2>7. Cardinality(Announced(table)) = Cardinality(Announced(peers[n])) + Cardinality(new)
    <3>1. IsFiniteSet(Announced(peers[n])) /\ IsFiniteSet(new)
      BY <2>2, AnnouncedFinite
    <3>2. Cardinality(Announced(peers[n]) \cap new) = 0
      BY <2>6, FS_EmptySet
    <3>3. Cardinality(Announced(peers[n])) \in Nat /\ Cardinality(new) \in Nat
      BY <2>2, AnnouncedFinite
    <3> HIDE DEF new, table
    <3>4. Cardinality(Announced(peers[n]) \cup new)
            = Cardinality(Announced(peers[n])) + Cardinality(new)
              - Cardinality(Announced(peers[n]) \cap new)
      BY <3>1, FS_Union
    <3>5. QED
      BY <2>5, <3>2, <3>3, <3>4
  <2> HIDE DEF new, table
  <2>8. 0 \in Index /\ table[0].st = "announced"
    BY <2>1, <2>2, <2>3, MembershipAssumption DEF CoordinatorTable, Index
  <2>9. \A i \in InUse(table) : /\ table[i].id \in Ids /\ table[i].slot = table[i].id - 1
                                /\ table[i].addr \in Addr
                                /\ table[i].id = node[n].node_id <=> i = 0
                                /\ table[i].addr = n <=> i = 0
    BY <2>1, <2>3, <2>4 DEF CoordinatorTable, InTable, InUse
  <2>10. \A i, j \in InUse(table) :
            i # j => table[i].id # table[j].id /\ table[i].addr # table[j].addr
    BY <2>1, <2>3, <2>4 DEF CoordinatorTable, InUse
  <2>11. CoordinatorTable(n)'
    BY <1>1, <1>2, <2>1, <2>7, <2>8, <2>9, <2>10 DEF CoordinatorTable, InTable
  <2>12. QED
    BY <1>1, <1>2, <1>4, <2>11, TableFrame DEF IsCoordinator
<1>5. QED
  BY <1>3, <1>4

(* Removing peers uncounts the announced ones; the coordinator's own entry *)
(* stays.                                                                  *)
LEMMA RemoveTable ==
  ASSUME TypeOK, PeerTable, NEW n \in Addr, NEW gone \in SUBSET InUse(peers[n]),
         \A i \in gone : peers[n][i].id # node[n].node_id, RemovePeers(n, gone)
  PROVE  PeerTable'
<1> DEFINE table == Without(peers[n], gone)
           count == IF gone = {} THEN node[n].peer_count ELSE CountAfter(n, gone)
           left == {i \in gone : peers[n][i].st = "announced"}
<1>1. /\ node'[n] = [node[n] EXCEPT !.peer_count = count]
      /\ peers'[n] = table
      /\ \A m \in Addr \ {n} : node'[m] = node[m] /\ peers'[m] = peers[m]
  BY DEF RemovePeers, TypeOK
<1>2. /\ node'[n].role = node[n].role /\ node'[n].state = node[n].state
      /\ node'[n].node_id = node[n].node_id
      /\ node'[n].peer_count = count
  BY <1>1 DEF TypeOK, Snapshots
<1>3. CASE ~IsCoordinator(n)
  <2>1. peers[n] = EmptyTable
    BY <1>3 DEF PeerTable
  <2>2. table = EmptyTable
    BY <2>1 DEF Without, EmptyTable
  <2>3. QED
    BY <1>1, <1>2, <1>3, <2>2, TableFrame DEF IsCoordinator
<1>4. CASE IsCoordinator(n)
  <2>1. CoordinatorTable(n)
    BY <1>4 DEF PeerTable
  <2>2. gone \subseteq Index \ {0}
    BY <2>1 DEF CoordinatorTable, InTable, InUse
  <2>3. \A i \in Index : table[i] = IF i \in gone THEN NoPeer ELSE peers[n][i]
    BY DEF Without
  <2>4. InUse(table) = InUse(peers[n]) \ gone
    BY <2>3 DEF InUse, NoPeer
  <2>5. Announced(table) = Announced(peers[n]) \ left
    BY <2>2, <2>3 DEF Announced, NoPeer
  <2>6. left \subseteq Announced(peers[n])
    BY <2>2 DEF Announced
  <2>7. Cardinality(Announced(table)) = count
    <3>1. /\ IsFiniteSet(Announced(peers[n])) /\ Cardinality(Announced(peers[n])) \in Nat
          /\ IsFiniteSet(left) /\ Cardinality(left) \in Nat
      BY <2>2, AnnouncedFinite
    <3>2. Announced(peers[n]) \cap left = left
      BY <2>6
    <3>3. Cardinality(left) <= Cardinality(Announced(peers[n]))
      <4> HIDE DEF left
      <4>1. QED
        BY <2>6, <3>1, FS_Subset
    <3>4. Cardinality(Announced(table)) = Cardinality(Announced(peers[n])) - Cardinality(left)
      <4> HIDE DEF left, table
      <4>1. Cardinality(Announced(peers[n]) \ left)
              = Cardinality(Announced(peers[n])) - Cardinality(Announced(peers[n]) \cap left)
        BY <3>1, FS_Difference
      <4>2. QED
        BY <2>5, <3>2, <4>1
    <3>5. node[n].peer_count = Cardinality(Announced(peers[n]))
      BY <2>1 DEF CoordinatorTable
    <3>6. CASE gone = {}
      <4>1. left = {}
        BY <3>6
      <4>2. Cardinality(left) = 0
        BY <4>1, FS_EmptySet
      <4> HIDE DEF left, table
      <4>3. QED
        BY <3>1, <3>4, <3>5, <3>6, <4>2
    <3>7. CASE gone # {}
      <4>1. count = IF node[n].peer_count >= Cardinality(left)
                    THEN node[n].peer_count - Cardinality(left) ELSE 0
        BY <3>7 DEF CountAfter
      <4> HIDE DEF left, table, count
      <4>2. QED
        BY <3>1, <3>3, <3>4, <3>5, <4>1
    <3>8. QED
      BY <3>6, <3>7
  <2> HIDE DEF table, count, left
  <2>8. 0 \in Index /\ table[0].st = "announced"
    BY <2>1, <2>2, <2>3, MembershipAssumption DEF CoordinatorTable, Index
  <2>9. \A i \in InUse(table) : /\ table[i].id \in Ids /\ table[i].slot = table[i].id - 1
                                /\ table[i].addr \in Addr
                                /\ table[i].id = node[n].node_id <=> i = 0
                                /\ table[i].addr = n <=> i = 0
    BY <2>1, <2>3, <2>4 DEF CoordinatorTable, InTable, InUse
  <2>10. \A i, j \in InUse(table) :
            i # j => table[i].id # table[j].id /\ table[i].addr # table[j].addr
    BY <2>1, <2>3, <2>4 DEF CoordinatorTable, InUse
  <2>11. CoordinatorTable(n)'
    BY <1>1, <1>2, <2>1, <2>7, <2>8, <2>9, <2>10 DEF CoordinatorTable, InTable
  <2>12. QED
    BY <1>1, <1>2, <1>4, <2>11, TableFrame DEF IsCoordinator
<1>5. QED
  BY <1>3, <1>4

(* A new peer gets an id and an entry that nobody has.                     *)
LEMMA JoinTable ==
  ASSUME TypeOK, PeerTable, NEW n \in Addr, RxJoinNew(n)
  PROVE  PeerTable'
<1> DEFINE entry == Assigned(n, Head(rx_ring[n]).from)
           table == WithEntry(n, entry)
<1>1. Head(rx_ring[n]) \in Packets
  BY TakeType DEF RxJoinNew
<1>2. Head(rx_ring[n]).from \in Addr
  BY <1>1 DEF Packets
<1>3. /\ FirstFree(n) \in Ids /\ FirstFree(n) # node[n].node_id
      /\ \A i \in InUse(peers[n]) : peers[n][i].id # FirstFree(n)
  BY FirstFreeType DEF RxJoinNew, Occupied
<1>4. \A i \in InUse(peers[n]) : peers[n][i].addr # Head(rx_ring[n]).from
  BY DEF RxJoinNew, AddrsOf
<1>5. /\ entry.id = FirstFree(n) /\ entry.slot = FirstFree(n) - 1
      /\ entry.addr = Head(rx_ring[n]).from /\ entry.st = "active"
  BY DEF Assigned, SlotForNodeId
<1>6. CoordinatorTable(n)
  BY DEF RxJoinNew, PeerTable
<1>7. /\ node' = node /\ peers'[n] = table
      /\ \A m \in Addr \ {n} : peers'[m] = peers[m]
  BY DEF RxJoinNew, TypeOK
<1>8. 0 \in InUse(peers[n])
  BY <1>6, MembershipAssumption DEF CoordinatorTable, InUse, Index
<1>9. /\ FirstEntry(n) \subseteq Index \ InUse(peers[n])
      /\ \A i, j \in FirstEntry(n) : i = j
  BY MembershipAssumption DEF FirstEntry, Index
<1>10. \A i \in Index : table[i] = IF i \in FirstEntry(n) THEN entry ELSE peers[n][i]
  BY DEF WithEntry
<1> HIDE DEF entry, table
<1>11. InUse(table) = InUse(peers[n]) \cup FirstEntry(n)
  BY <1>5, <1>9, <1>10 DEF InUse
<1>12. Announced(table) = Announced(peers[n])
  BY <1>5, <1>9, <1>10 DEF Announced, InUse
<1>13. peers[n][0].addr = n
  BY <1>6, <1>8 DEF CoordinatorTable, InTable
<1>14. ASSUME NEW i \in InUse(table)
       PROVE  /\ table[i].id \in Ids /\ table[i].slot = table[i].id - 1
              /\ table[i].addr \in Addr
              /\ table[i].id = node[n].node_id <=> i = 0
              /\ table[i].addr = n <=> i = 0
  <2>1. CASE i \in FirstEntry(n)
    BY <1>2, <1>3, <1>4, <1>5, <1>8, <1>9, <1>10, <1>13, <2>1
  <2>2. CASE i \notin FirstEntry(n)
    <3>1. i \in InUse(peers[n]) /\ i \in Index /\ table[i] = peers[n][i]
      BY <1>10, <1>11, <2>2 DEF InUse
    <3>2. QED
      BY <1>6, <3>1 DEF CoordinatorTable, InTable
  <2>3. QED
    BY <2>1, <2>2
<1>15. \A i \in InUse(table) :
          IF i \in FirstEntry(n) THEN table[i] = entry
          ELSE i \in InUse(peers[n]) /\ table[i] = peers[n][i]
  BY <1>9, <1>10, <1>11 DEF InUse
<1>16. \A i, j \in InUse(table) :
          i # j => table[i].id # table[j].id /\ table[i].addr # table[j].addr
  BY <1>3, <1>4, <1>5, <1>6, <1>9, <1>15 DEF CoordinatorTable
<1>17. table[0].st = "announced"
  BY <1>6, <1>8, <1>9, <1>10 DEF CoordinatorTable, InUse
<1>18. CoordinatorTable(n)'
  BY <1>6, <1>7, <1>12, <1>14, <1>16, <1>17 DEF CoordinatorTable, InTable
<1>19. QED
  BY <1>7, <1>18, TableFrame DEF IsCoordinator, RxJoinNew

(* An elected coordinator starts with itself in an otherwise empty table.  *)
LEMMA ElectTable ==
  ASSUME TypeOK, PeerTable, NEW n \in Addr, ScanTimeout(n)
  PROVE  PeerTable'
<1> DEFINE self == [id |-> 1, slot |-> 0, addr |-> n, st |-> "announced"]
           table == [EmptyTable EXCEPT ![0] = self]
<1>1. peers[n] = EmptyTable
  BY DEF ScanTimeout, PeerTable, CoordinatorTable
<1>2. /\ node'[n] = [state |-> "active", role |-> "coordinator", node_id |-> 1,
                     slot_index |-> 0, coordinator_id |-> 1, peer_count |-> 0]
      /\ peers'[n] = table
      /\ \A m \in Addr \ {n} : node'[m] = node[m] /\ peers'[m] = peers[m]
  BY <1>1 DEF ScanTimeout, TypeOK
<1>3. 0 \in Index
  BY MembershipAssumption DEF Index
<1>4. \A i \in Index : table[i] = IF i = 0 THEN self ELSE NoPeer
  BY DEF EmptyTable
<1>5. InUse(table) = {0} /\ Announced(table) = {}
  BY <1>3, <1>4 DEF InUse, Announced, NoPeer
<1>6. Cardinality(Announced(table)) = 0
  BY <1>5, FS_EmptySet
<1>7. 1 \in Ids
  BY MembershipAssumption DEF Ids
<1>8. table[0] = self
  BY <1>3, <1>4
<1> HIDE DEF table
<1>9. CoordinatorTable(n)'
  BY <1>2, <1>5, <1>6, <1>7, <1>8 DEF CoordinatorTable, InTable
<1>10. QED
  BY <1>2, <1>9, TableFrame DEF IsCoordinator

(* Every step of every node keeps every table in order.                    *)
LEMMA TableInduction == TypeOK /\ PeerTable /\ [Next]_vars => PeerTable'
<1> SUFFICES ASSUME TypeOK, PeerTable, [Next]_vars PROVE PeerTable'
  OBVIOUS
<1>1. ASSUME UNCHANGED <<node, peers>> PROVE PeerTable'
  BY <1>1 DEF PeerTable, IsCoordinator, CoordinatorTable, InTable
<1>2. CASE UNCHANGED vars
  BY <1>1, <1>2 DEF vars
<1>3. ASSUME NEW n \in Addr, Step(n) PROVE PeerTable'
  <2>1. CASE \/ SendJoin(n) \/ SendSync(n) \/ SendControl(n) \/ SendAudio(n)
             \/ KeepOnSync(n) \/ RxJoinKnown(n) \/ RxJoinIgnored(n)
             \/ RxAudioIgnored(n) \/ LocalAudio(n) \/ TalkExpires(n)
             \/ RxGrant(n) \/ RxRelease(n)
    BY <1>1, <2>1 DEF SendJoin, SendSync, SendControl, SendAudio, KeepOnSync, RxJoinKnown,
       RxJoinIgnored, RxAudioIgnored, LocalAudio, TalkExpires, RxGrant, RxRelease
  <2>2. ~Active(n) \/ IsParticipant(n) => peers[n] = EmptyTable
    BY DEF PeerTable, CoordinatorTable, Active, IsCoordinator, IsParticipant
  <2>3. CASE Start(n)
    <3>1. /\ node'[n].role = node[n].role /\ peers' = peers /\ peers[n] = EmptyTable
          /\ \A m \in Addr \ {n} : node'[m] = node[m]
      BY <2>2, <2>3 DEF Start, TypeOK, Snapshots, Active
    <3>2. ~IsCoordinator(n)
      BY <2>3 DEF Start, PeerTable, CoordinatorTable
    <3>3. QED
      BY <3>1, <3>2, TableFrame DEF IsCoordinator
  <2>4. CASE Stop(n) \/ DemoteCoordinator(n) \/ CoordinatorLost(n)
    <3>1. peers' = [peers EXCEPT ![n] = EmptyTable]
      BY <2>4 DEF Stop, DemoteCoordinator, CoordinatorLost, ResetSession
    <3>2. node'[n].role = "none" /\ \A m \in Addr \ {n} : node'[m] = node[m]
      <4>1. CASE Stop(n)
        BY <4>1 DEF Stop, Idle, TypeOK
      <4>2. CASE DemoteCoordinator(n)
        BY <4>2 DEF DemoteCoordinator, Idle, TypeOK
      <4>3. CASE CoordinatorLost(n)
        BY <4>3 DEF CoordinatorLost, Idle, Scanning, TypeOK
      <4>4. QED
        BY <2>4, <4>1, <4>2, <4>3
    <3>3. peers'[n] = EmptyTable /\ \A m \in Addr \ {n} : peers'[m] = peers[m]
      BY <3>1 DEF TypeOK
    <3>4. QED
      BY <3>2, <3>3, TableFrame DEF IsCoordinator
  <2>5. CASE ScanTimeout(n)
    BY <2>5, ElectTable
  <2>6. CASE JoinTimeout(n)
    <3>1. peers' = peers /\ peers[n] = EmptyTable
      BY <2>2, <2>6 DEF JoinTimeout, Active
    <3>2. node'[n].role = "none" /\ \A m \in Addr \ {n} : node'[m] = node[m]
      BY <2>6 DEF JoinTimeout, Idle, Scanning, TypeOK
    <3>3. QED
      BY <3>1, <3>2, TableFrame DEF IsCoordinator
  <2>7. CASE DiscoverCoordinator(n)
    <3>1. /\ node'[n].role = node[n].role /\ peers' = peers /\ peers[n] = EmptyTable
          /\ \A m \in Addr \ {n} : node'[m] = node[m]
      BY <2>2, <2>7 DEF DiscoverCoordinator, TypeOK, Snapshots, Active
    <3>2. ~IsCoordinator(n)
      BY <2>7 DEF DiscoverCoordinator, PeerTable, CoordinatorTable
    <3>3. QED
      BY <3>1, <3>2, TableFrame DEF IsCoordinator
  <2>8. CASE RxJoinNew(n)
    BY <2>8, JoinTable
  <2>9. CASE RxJoinAck(n)
    <3>1. CASE UNCHANGED node
      BY <1>1, <2>9, <3>1 DEF RxJoinAck
    <3>2. CASE ~UNCHANGED node
      <4>1. node[n].state = "joining"
        BY <2>9, <3>2 DEF RxJoinAck, JoinAckValid
      <4>2. peers' = peers /\ peers[n] = EmptyTable
        BY <2>2, <2>9, <4>1 DEF RxJoinAck, Active
      <4>3. node'[n].role = "participant" /\ \A m \in Addr \ {n} : node'[m] = node[m]
        BY <2>9, <3>2 DEF RxJoinAck, TypeOK
      <4>4. QED
        BY <4>2, <4>3, TableFrame DEF IsCoordinator
    <3>3. QED
      BY <3>1, <3>2
  <2>10. CASE RxSlotMap(n)
    <3>1. CASE UNCHANGED node
      BY <1>1, <2>10, <3>1 DEF RxSlotMap
    <3>2. CASE ~UNCHANGED node
      <4>1. IsParticipant(n) /\ peers' = peers
        BY <2>10, <3>2 DEF RxSlotMap
      <4>2. PICK ls, pc : node' = [node EXCEPT ![n].slot_index = ls, ![n].peer_count = pc]
        BY <2>10, <3>2 DEF RxSlotMap
      <4>3. node'[n].role = node[n].role /\ \A m \in Addr \ {n} : node'[m] = node[m]
        BY <4>2 DEF TypeOK, Snapshots
      <4>4. QED
        BY <2>2, <4>1, <4>3, TableFrame DEF IsParticipant, IsCoordinator
    <3>3. QED
      BY <3>1, <3>2
  <2>11. CASE RxAlive(n) \/ RxAudio(n)
    BY <2>11, HearTable DEF RxAlive, RxAudio
  <2>12. CASE RxLeave(n)
    <3> DEFINE gone == Leavers(n, Head(rx_ring[n]))
    <3>1. /\ gone \in SUBSET InUse(peers[n])
          /\ \A i \in gone : peers[n][i].id # node[n].node_id
      BY DEF Leavers
    <3>2. RemovePeers(n, gone)
      BY <2>12 DEF RxLeave
    <3>3. QED
      BY <3>1, <3>2, RemoveTable
  <2>13. CASE StatusTick(n)
    <3>1. PICK gone \in SUBSET MaySilence(n) : RemovePeers(n, gone)
      BY <2>13 DEF StatusTick
    <3>2. /\ gone \in SUBSET InUse(peers[n])
          /\ \A i \in gone : peers[n][i].id # node[n].node_id
      BY DEF MaySilence
    <3>3. QED
      BY <3>1, <3>2, RemoveTable
  <2>14. QED
    BY <1>3, <2>1, <2>3, <2>4, <2>5, <2>6, <2>7, <2>8, <2>9, <2>10, <2>11, <2>12, <2>13
       DEF Step, Receive
<1>4. QED
  BY <1>2, <1>3 DEF Next

(* Of every coordinator, in every session of every number of nodes: no two *)
(* peers share an id, a slot or an address, entry 0 is the coordinator's   *)
(* own, peer_count counts the announced peers, and a node that stops       *)
(* coordinating keeps no table.                                            *)
THEOREM PeerTableCorrect == Spec => [](TypeOK /\ PeerTable)
<1>1. Init => TypeOK /\ PeerTable
  <2>1. Init => TypeOK
    BY MembershipAssumption, IdleType, EmptyTypes DEF Init, TypeOK, NoAddr
  <2>2. Init => PeerTable
    BY DEF Init, PeerTable, IsCoordinator, Idle
  <2>3. QED
    BY <2>1, <2>2
<1>2. TypeOK /\ PeerTable /\ [Next]_vars => (TypeOK /\ PeerTable)'
  BY TypeInduction, TableInduction
<1>3. QED
  BY <1>1, <1>2, PTL DEF Spec

(* Every node record, table, control ring and packet of every session      *)
(* stays in its domain, whatever is lost and in whatever order it arrives. *)
THEOREM TypeCorrect == Spec => []TypeOK
<1>1. TypeOK /\ PeerTable => TypeOK
  OBVIOUS
<1>2. QED
  BY <1>1, PeerTableCorrect, PTL
-----------------------------------------------------------------------------
(* Only coordinators and active nodes queue records or note speech, and a  *)
(* coordinator is active.                                                  *)
LEMMA SendInduction ==
  TypeOK /\ PeerTable /\ OnlyActiveSend /\ [Next]_vars => OnlyActiveSend'
<1> SUFFICES ASSUME TypeOK, PeerTable, OnlyActiveSend, [Next]_vars PROVE OnlyActiveSend'
  OBVIOUS
<1>1. CASE UNCHANGED vars
  BY <1>1 DEF vars, OnlyActiveSend, Active
<1>2. ASSUME NEW n \in Addr, Step(n) PROVE OnlyActiveSend'
  <2>1. IsCoordinator(n) => Active(n)
    BY DEF PeerTable, CoordinatorTable, Active
  <2>2. ASSUME \A m \in Addr \ {n} :
                 /\ node'[m] = node[m] /\ control_ring'[m] = control_ring[m]
                 /\ talking'[m] = talking[m],
               node'[n].state # "active" => control_ring'[n] = <<>> /\ talking'[n] = {}
        PROVE  OnlyActiveSend'
    <3> SUFFICES ASSUME NEW m \in Addr, ~Active(m)'
                 PROVE  control_ring'[m] = <<>> /\ talking'[m] = {}
      BY DEF OnlyActiveSend
    <3>1. CASE m = n
      BY <2>2, <3>1 DEF Active
    <3>2. CASE m # n
      BY <2>2, <3>2 DEF Active, OnlyActiveSend
    <3>3. QED
      BY <3>1, <3>2
  <2>3. CASE UNCHANGED <<node, control_ring, talking>>
    BY <2>3 DEF OnlyActiveSend, Active
  <2>4. CASE \/ SendJoin(n) \/ SendSync(n) \/ SendAudio(n) \/ KeepOnSync(n)
             \/ RxJoinIgnored(n) \/ RxAudioIgnored(n) \/ RxGrant(n) \/ RxRelease(n)
    BY <2>3, <2>4 DEF SendJoin, SendSync, SendAudio, KeepOnSync, RxJoinIgnored,
       RxAudioIgnored, RxGrant, RxRelease
  <2>5. CASE Stop(n) \/ DemoteCoordinator(n) \/ CoordinatorLost(n)
    <3>1. /\ control_ring' = [control_ring EXCEPT ![n] = <<>>]
          /\ talking' = [talking EXCEPT ![n] = {}]
      BY <2>5 DEF Stop, DemoteCoordinator, CoordinatorLost, ResetSession
    <3>2. \A m \in Addr \ {n} : node'[m] = node[m]
      BY <2>5 DEF Stop, DemoteCoordinator, CoordinatorLost, TypeOK
    <3>3. QED
      BY <2>2, <3>1, <3>2 DEF TypeOK
  <2>6. ASSUME Active(n), \A m \in Addr \ {n} :
                 /\ node'[m] = node[m] /\ control_ring'[m] = control_ring[m]
                 /\ talking'[m] = talking[m],
               node'[n].state = node[n].state
        PROVE  OnlyActiveSend'
    BY <2>2, <2>6 DEF Active
  <2>7. CASE SendControl(n) \/ RxJoinKnown(n) \/ RxJoinNew(n) \/ LocalAudio(n)
    <3>1. Active(n) /\ node' = node
      BY <2>1, <2>7 DEF SendControl, RxJoinKnown, RxJoinNew, LocalAudio
    <3>2. \A m \in Addr \ {n} : control_ring'[m] = control_ring[m] /\ talking'[m] = talking[m]
      BY <2>7 DEF SendControl, RxJoinKnown, RxJoinNew, LocalAudio, Acknowledge,
         UpdateSpeakerGrants, TypeOK
    <3>3. QED
      BY <2>6, <3>1, <3>2
  <2>8. CASE Start(n) \/ JoinTimeout(n) \/ ScanTimeout(n) \/ DiscoverCoordinator(n)
             \/ RxJoinAck(n)
    <3>1. UNCHANGED <<control_ring, talking>>
      BY <2>8 DEF Start, JoinTimeout, ScanTimeout, DiscoverCoordinator, RxJoinAck
    <3>2. \A m \in Addr \ {n} : node'[m] = node[m]
      BY <2>8 DEF Start, JoinTimeout, ScanTimeout, DiscoverCoordinator, RxJoinAck, TypeOK
    <3>3. ~Active(n) \/ UNCHANGED node
      BY <2>8 DEF Start, JoinTimeout, ScanTimeout, DiscoverCoordinator, RxJoinAck,
         JoinAckValid, Active
    <3>4. QED
      BY <2>2, <2>3, <3>1, <3>2, <3>3 DEF OnlyActiveSend
  <2>9. CASE RxSlotMap(n)
    <3>1. \A m \in Addr : node'[m].state = node[m].state
      <4>1. CASE UNCHANGED node
        BY <4>1
      <4>2. CASE ~UNCHANGED node
        <5>1. PICK ls, pc : node' = [node EXCEPT ![n].slot_index = ls, ![n].peer_count = pc]
          BY <2>9, <4>2 DEF RxSlotMap
        <5>2. QED
          BY <5>1 DEF TypeOK, Snapshots
      <4>3. QED
        BY <4>1, <4>2
    <3>2. QED
      BY <2>9, <3>1 DEF RxSlotMap, OnlyActiveSend, Active
  <2>10. CASE RxAlive(n)
    <3> DEFINE id == Head(rx_ring[n]).src
    <3>1. /\ \A m \in Addr : node'[m].state = node[m].state
          /\ control_ring' = [control_ring EXCEPT ![n] = RingAfter(n, id)]
          /\ talking' = talking
      BY <2>10 DEF RxAlive, HearPeer, TypeOK, Snapshots
    <3>2. ~Active(n) => RingAfter(n, id) = control_ring[n]
      BY <2>1 DEF RingAfter, Unannounced
    <3> HIDE DEF id
    <3>3. QED
      BY <3>1, <3>2 DEF OnlyActiveSend, Active, TypeOK
  <2>11. CASE RxLeave(n)
    <3> DEFINE gone == Leavers(n, Head(rx_ring[n]))
    <3>1. /\ \A m \in Addr : node'[m].state = node[m].state
          /\ control_ring' = [control_ring EXCEPT ![n] = StatusRing(n, gone)]
          /\ talking' = talking
      BY <2>11 DEF RxLeave, RemovePeers, StatusRing, TypeOK, Snapshots
    <3>2. ~Active(n) => StatusRing(n, gone) = control_ring[n]
      BY <2>1 DEF StatusRing
    <3> HIDE DEF gone
    <3>3. QED
      BY <3>1, <3>2 DEF OnlyActiveSend, Active, TypeOK
  <2>12. CASE RxAudio(n)
    <3>1. Active(n)
      BY <2>1, <2>12 DEF RxAudio
    <3>2. /\ \A m \in Addr : node'[m].state = node[m].state
          /\ \A m \in Addr \ {n} : node'[m] = node[m] /\ talking'[m] = talking[m]
      BY <2>12 DEF RxAudio, HearPeer, TypeOK, Snapshots
    <3>3. \A m \in Addr \ {n} : control_ring'[m] = control_ring[m]
      BY <2>12 DEF RxAudio, UpdateSpeakerGrants, TypeOK
    <3>4. QED
      BY <2>6, <3>1, <3>2, <3>3
  <2>13. CASE TalkExpires(n)
    <3>1. \A m \in Addr : talking'[m] \subseteq talking[m]
      BY <2>13 DEF TalkExpires, TypeOK
    <3>2. QED
      BY <2>13, <3>1 DEF TalkExpires, OnlyActiveSend, Active
  <2>14. CASE StatusTick(n)
    <3>1. Active(n) /\ talking' = talking
      BY <2>14 DEF StatusTick
    <3>2. /\ \A m \in Addr : node'[m].state = node[m].state
          /\ \A m \in Addr \ {n} : node'[m] = node[m]
      BY <2>14 DEF StatusTick, RemovePeers, TypeOK, Snapshots
    <3>3. \A m \in Addr \ {n} : control_ring'[m] = control_ring[m]
      BY <2>14 DEF StatusTick, TypeOK
    <3>4. QED
      BY <2>6, <3>1, <3>2, <3>3
  <2>15. QED
    BY <1>2, <2>4, <2>5, <2>7, <2>8, <2>9, <2>10, <2>11, <2>12, <2>13, <2>14
       DEF Step, Receive
<1>3. QED
  BY <1>1, <1>2 DEF Next

(* No node outside a session has a control record to send or speech to     *)
(* select from, whatever ended its session.                                *)
THEOREM OnlyActiveSendCorrect == Spec => []OnlyActiveSend
<1>1. Init => OnlyActiveSend
  BY DEF Init, OnlyActiveSend
<1>2. Spec => [](TypeOK /\ PeerTable)
  BY PeerTableCorrect
<1>3. QED
  BY <1>1, <1>2, SendInduction, PTL DEF Spec
-----------------------------------------------------------------------------
(* What a coordinator's JOIN_ACKs promise.  c has assigned id to addr: its *)
(* table says so, or it has removed addr since.                            *)
Assigns(c, addr, id) ==
    \/ addr \in forgotten[c]
    \/ \E i \in InUse(peers[c]) : peers[c][i].addr = addr /\ peers[c][i].id = id

(* Packets that promise nothing: every kind but JOIN_ACK, with SLOT_MAPs   *)
(* that name in each slot the id the slot belongs to.                      *)
Free == {p \in Packets :
           /\ p.kind # "JOIN_ACK"
           /\ p.kind = "SLOT_MAP" => \A s \in Index : p.slot_ids[s] \in {0, s + 1}}

(* JOIN_ACKs whose promise stands.                                         *)
Promises == {p \in Packets :
               /\ p.kind = "JOIN_ACK" /\ p.src = 1 /\ p.slot = p.id - 1
               /\ Assigns(p.from, p.to, p.id)}

Sound == Free \cup Promises

(* Whatever waits in a control ring or is on its way is sound.             *)
FlightInv == \A n \in Addr : control_ring[n] \in Seq(Sound) /\ rx_ring[n] \in Seq(Sound)

(* A sponsored node is a participant with the id its sponsor assigned.     *)
SponsorInv == \A n \in Addr : sponsor[n] # NoAddr =>
    /\ Active(n) /\ IsParticipant(n) /\ sponsor[n] \in Addr
    /\ Assigns(sponsor[n], n, node[n].node_id)

(* Wherever a node got its id, from JOIN_ACKs and SLOT_MAPs that were      *)
(* delayed, lost or sent by another coordinator, an active node owns the   *)
(* slot of its id and no participant owns the coordinator's.               *)
SlotFollowsId ==
    \A n \in Addr : Active(n) =>
        /\ node[n].slot_index = node[n].node_id - 1
        /\ IsParticipant(n) => node[n].node_id > 1 /\ node[n].coordinator_id = 1

JoinInv == FlightInv /\ SponsorInv /\ SlotFollowsId

(* A sequence over a set is one over any larger set.                       *)
LEMMA SeqLarger ==
  ASSUME NEW S, NEW T, S \subseteq T, NEW q \in Seq(S)
  PROVE  q \in Seq(T)
OBVIOUS

(* first_free_node_id and the table agree: while an id is free, so is an   *)
(* entry, for a full table holds as many ids as there are.                 *)
LEMMA EntryForId ==
  ASSUME TypeOK, PeerTable, NEW n \in Addr, IsCoordinator(n), FreeIds(n) # {}
  PROVE  FirstEntry(n) # {}
<1> DEFINE unused == Index \ InUse(peers[n])
<1>1. CASE unused = {}
  <2>1. PICK free \in Ids : free \notin Occupied(n)
    BY DEF FreeIds
  <2> DEFINE f == [i \in Index |-> peers[n][i].id]
             T == Ids \ {free}
  <2>2. CoordinatorTable(n) /\ \A i \in Index : i \in InUse(peers[n])
    BY <1>1 DEF PeerTable
  <2>3. f \in [Index -> T]
    BY <2>1, <2>2 DEF CoordinatorTable, InTable, Occupied
  <2>4. /\ IsFiniteSet(Index) /\ Cardinality(Index) = MaxNodes
        /\ IsFiniteSet(Ids) /\ Cardinality(Ids) = MaxNodes
    <3>1. /\ IsFiniteSet(0..(MaxNodes - 1)) /\ IsFiniteSet(1..MaxNodes)
          /\ Cardinality(0..(MaxNodes - 1)) = IF 0 > MaxNodes - 1 THEN 0 ELSE (MaxNodes - 1) - 0 + 1
          /\ Cardinality(1..MaxNodes) = IF 1 > MaxNodes THEN 0 ELSE MaxNodes - 1 + 1
      <4>1. 0 \in Int /\ 1 \in Int /\ MaxNodes \in Int /\ MaxNodes - 1 \in Int
        BY MembershipAssumption
      <4>2. QED
        BY <4>1, FS_Interval
    <3>2. QED
      BY <3>1, MembershipAssumption DEF Index, Ids
  <2>5. IsFiniteSet(T) /\ Cardinality(T) = MaxNodes - 1
    BY <2>1, <2>4, FS_RemoveElement
  <2>6. Cardinality(T) < Cardinality(Index)
    BY <2>4, <2>5, MembershipAssumption
  <2> HIDE DEF T, f
  <2>7. PICK i, j \in Index : i # j /\ f[i] = f[j]
    BY <2>3, <2>4, <2>5, <2>6, FS_PigeonHole
  <2>8. peers[n][i].id = peers[n][j].id
    BY <2>7 DEF f
  <2>9. QED
    BY <2>2, <2>7, <2>8 DEF CoordinatorTable
<1>2. CASE unused # {}
  <2>1. unused \in SUBSET Nat
    BY MembershipAssumption DEF Index
  <2>2. PICK x \in unused : \A y \in unused : x <= y
    BY <1>2, <2>1, LeastExists
  <2>3. QED
    BY <2>2 DEF FirstEntry
<1>3. QED
  BY <1>1, <1>2

(* The table after a JOIN from a new address holds the new entry and the   *)
(* old ones.                                                               *)
LEMMA JoinKeeps ==
  ASSUME TypeOK, PeerTable, NEW n \in Addr, RxJoinNew(n)
  PROVE  LET entry == Assigned(n, Head(rx_ring[n]).from)
         IN  /\ \A i \in InUse(peers[n]) : i \in InUse(WithEntry(n, entry))
                                           /\ WithEntry(n, entry)[i] = peers[n][i]
             /\ \E i \in InUse(WithEntry(n, entry)) : WithEntry(n, entry)[i] = entry
             /\ peers'[n] = WithEntry(n, entry)
<1> DEFINE entry == Assigned(n, Head(rx_ring[n]).from)
           table == WithEntry(n, entry)
<1>1. PICK k \in FirstEntry(n) : TRUE
  BY EntryForId DEF RxJoinNew
<1>2. FirstEntry(n) \subseteq Index \ InUse(peers[n])
  BY DEF FirstEntry
<1>3. \A i \in Index : table[i] = IF i \in FirstEntry(n) THEN entry ELSE peers[n][i]
  BY DEF WithEntry
<1>4. entry.st = "active"
  BY DEF Assigned
<1>5. peers'[n] = table
  BY DEF RxJoinNew, TypeOK
<1> HIDE DEF entry, table
<1>6. /\ \A i \in InUse(peers[n]) : i \in InUse(table) /\ table[i] = peers[n][i]
      /\ k \in InUse(table) /\ table[k] = entry
  BY <1>1, <1>2, <1>3, <1>4 DEF InUse
<1>7. QED
  BY <1>5, <1>6 DEF entry, table

(* A coordinator that removes an entry remembers the address.              *)
LEMMA RemoveKeeps ==
  ASSUME TypeOK, NEW n \in Addr, NEW gone \in SUBSET InUse(peers[n]), RemovePeers(n, gone),
         NEW c \in Addr, NEW addr, NEW id, Assigns(c, addr, id)
  PROVE  Assigns(c, addr, id)'
<1>1. /\ peers'[n] = Without(peers[n], gone) /\ \A m \in Addr \ {n} : peers'[m] = peers[m]
      /\ forgotten'[n] = forgotten[n] \cup {peers[n][i].addr : i \in gone}
      /\ \A m \in Addr \ {n} : forgotten'[m] = forgotten[m]
  BY DEF RemovePeers, TypeOK
<1>2. \A i \in InUse(peers[n]) : i \notin gone => i \in InUse(peers'[n]) /\ peers'[n][i] = peers[n][i]
  BY <1>1 DEF InUse, Without
<1>3. CASE c = n
  BY <1>1, <1>2, <1>3 DEF Assigns
<1>4. CASE c # n
  BY <1>1, <1>4 DEF Assigns
<1>5. QED
  BY <1>3, <1>4

(* So does one that resets its session.                                    *)
LEMMA ResetKeeps ==
  ASSUME TypeOK, NEW n \in Addr, ResetSession(n),
         NEW c \in Addr, NEW addr, NEW id, Assigns(c, addr, id)
  PROVE  Assigns(c, addr, id)'
<1>1. /\ \A m \in Addr \ {n} : peers'[m] = peers[m] /\ forgotten'[m] = forgotten[m]
      /\ forgotten'[n] = forgotten[n] \cup AddrsOf(peers[n])
  BY DEF ResetSession, TypeOK
<1>2. CASE c = n
  BY <1>1, <1>2 DEF Assigns, AddrsOf
<1>3. CASE c # n
  BY <1>1, <1>3 DEF Assigns
<1>4. QED
  BY <1>2, <1>3

(* Announcing a peer keeps its address and id.                             *)
LEMMA HearKeeps ==
  ASSUME TypeOK, NEW n \in Addr, NEW src, HearPeer(n, src), UNCHANGED forgotten,
         NEW c \in Addr, NEW addr, NEW id, Assigns(c, addr, id)
  PROVE  Assigns(c, addr, id)'
<1>1. /\ peers'[n] = Announce(n, src) /\ \A m \in Addr \ {n} : peers'[m] = peers[m]
  BY DEF HearPeer, TypeOK
<1>2. \A i \in Index : /\ peers'[n][i].id = peers[n][i].id /\ peers'[n][i].addr = peers[n][i].addr
                       /\ peers[n][i].st # "free" => peers'[n][i].st # "free"
  BY <1>1 DEF Announce, TypeOK, Entries
<1>3. \A i \in InUse(peers[n]) : /\ i \in InUse(peers'[n]) /\ peers'[n][i].id = peers[n][i].id
                                 /\ peers'[n][i].addr = peers[n][i].addr
  BY <1>2 DEF InUse
<1>4. CASE c = n
  BY <1>3, <1>4 DEF Assigns
<1>5. CASE c # n
  BY <1>1, <1>5 DEF Assigns
<1>6. QED
  BY <1>4, <1>5

(* A promise once made stands: no step removes or renumbers an entry       *)
(* without the removal being on record.                                    *)
LEMMA PromiseKept ==
  ASSUME TypeOK, PeerTable, [Next]_vars, NEW c \in Addr, NEW addr, NEW id, Assigns(c, addr, id)
  PROVE  Assigns(c, addr, id)'
<1>1. ASSUME UNCHANGED <<peers, forgotten>> PROVE Assigns(c, addr, id)'
  BY <1>1 DEF Assigns
<1>2. CASE UNCHANGED vars
  BY <1>1, <1>2 DEF vars
<1>3. ASSUME NEW n \in Addr, Step(n) PROVE Assigns(c, addr, id)'
  <2>1. CASE \/ Start(n) \/ SendJoin(n) \/ JoinTimeout(n) \/ SendSync(n) \/ SendControl(n)
             \/ DiscoverCoordinator(n) \/ KeepOnSync(n) \/ RxJoinKnown(n) \/ RxJoinIgnored(n)
             \/ RxJoinAck(n) \/ RxSlotMap(n) \/ SendAudio(n) \/ RxAudioIgnored(n)
             \/ LocalAudio(n) \/ TalkExpires(n) \/ RxGrant(n) \/ RxRelease(n)
    BY <1>1, <2>1 DEF Start, SendJoin, JoinTimeout, SendSync, SendControl, DiscoverCoordinator,
       KeepOnSync, RxJoinKnown, RxJoinIgnored, RxJoinAck, RxSlotMap, SendAudio, RxAudioIgnored,
       LocalAudio, TalkExpires, RxGrant, RxRelease
  <2>2. CASE Stop(n) \/ DemoteCoordinator(n) \/ CoordinatorLost(n)
    BY <2>2, ResetKeeps DEF Stop, DemoteCoordinator, CoordinatorLost
  <2>3. CASE ScanTimeout(n)
    <3>1. peers[n] = EmptyTable
      BY <2>3 DEF ScanTimeout, PeerTable, CoordinatorTable
    <3>2. forgotten' = forgotten /\ \A m \in Addr \ {n} : peers'[m] = peers[m]
      BY <2>3 DEF ScanTimeout, TypeOK
    <3>3. InUse(peers[n]) = {}
      BY <3>1 DEF InUse, EmptyTable, NoPeer
    <3>4. QED
      BY <3>2, <3>3 DEF Assigns
  <2>4. CASE RxJoinNew(n)
    <3>1. \A i \in InUse(peers[n]) : i \in InUse(peers'[n]) /\ peers'[n][i] = peers[n][i]
      BY <2>4, JoinKeeps
    <3>2. forgotten' = forgotten /\ \A m \in Addr \ {n} : peers'[m] = peers[m]
      BY <2>4 DEF RxJoinNew, TypeOK
    <3>3. QED
      BY <3>1, <3>2 DEF Assigns
  <2>5. CASE RxAlive(n) \/ RxAudio(n)
    BY <2>5, HearKeeps DEF RxAlive, RxAudio
  <2>6. CASE RxLeave(n)
    <3>1. Leavers(n, Head(rx_ring[n])) \in SUBSET InUse(peers[n])
      BY DEF Leavers
    <3>2. QED
      BY <2>6, <3>1, RemoveKeeps DEF RxLeave
  <2>7. CASE StatusTick(n)
    <3>1. PICK gone \in SUBSET MaySilence(n) : RemovePeers(n, gone)
      BY <2>7 DEF StatusTick
    <3>2. gone \in SUBSET InUse(peers[n])
      BY DEF MaySilence
    <3>3. QED
      BY <3>1, <3>2, RemoveKeeps
  <2>8. QED
    BY <1>3, <2>1, <2>2, <2>3, <2>4, <2>5, <2>6, <2>7 DEF Step, Receive
<1>4. QED
  BY <1>2, <1>3 DEF Next

(* So a sound packet stays sound, however long it is delayed.              *)
LEMMA SoundKept ==
  ASSUME TypeOK, PeerTable, [Next]_vars
  PROVE  /\ Sound \subseteq Sound'
         /\ \A q : q \in Seq(Sound) => q \in Seq(Sound')
<1>1. ASSUME NEW p \in Promises PROVE p \in Promises'
  <2>1. p \in Packets /\ p.from \in Addr /\ Assigns(p.from, p.to, p.id)
    BY DEF Promises, Packets
  <2>2. Assigns(p.from, p.to, p.id)'
    BY <2>1, PromiseKept
  <2>3. QED
    BY <2>2 DEF Promises
<1>2. Sound \subseteq Sound'
  BY <1>1 DEF Sound
<1>3. QED
  BY <1>2, SeqLarger

(* The kinds that carry neither an assignment nor a map are sound.         *)
LEMMA PlainFree ==
  ASSUME NEW p \in Packets, p.kind \notin {"JOIN_ACK", "SLOT_MAP"}
  PROVE  p \in Free
BY DEF Free

(* Packets as they are built.                                              *)
LEMMA BuiltFree ==
  ASSUME TypeOK, NEW n \in Addr, NEW kind \in Kinds \ {"JOIN_ACK", "SLOT_MAP"}
  PROVE  /\ Packet(kind, n) \in Free
         /\ \A spk \in [SpkIdx -> 0..MaxNodes] : Speak(kind, n, spk) \in Free
<1>1. Packet(kind, n).kind = kind /\ \A spk : Speak(kind, n, spk).kind = kind
  BY DEF Packet, Speak
<1>2. QED
  BY <1>1, PacketType, PlainFree

(* A SLOT_MAP of a table that keeps ids and slots together is sound.       *)
LEMMA MapFree ==
  ASSUME TypeOK, NEW n \in Addr, NEW table \in [Index -> Entries],
         \A i \in InUse(table) : table[i].slot = table[i].id - 1,
         NEW spk \in [SpkIdx -> 0..MaxNodes]
  PROVE  SlotMap(n, table, spk) \in Free
<1>1. SlotMap(n, table, spk) \in Packets
  BY SlotMapType
<1>2. SlotMap(n, table, spk).slot_ids = SlotIds(table) /\ SlotMap(n, table, spk).kind = "SLOT_MAP"
  BY DEF SlotMap, Packet
<1>3. ASSUME NEW s \in Index PROVE SlotIds(table)[s] \in {0, s + 1}
  <2> DEFINE owners == {i \in Index : table[i].st = "announced" /\ table[i].slot = s}
             o == CHOOSE i \in owners : TRUE
  <2>1. SlotIds(table)[s] = IF owners = {} THEN 0 ELSE table[o].id
    BY DEF SlotIds
  <2>2. CASE owners = {}
    BY <2>1, <2>2
  <2>3. CASE owners # {}
    <3>1. o \in owners
      BY <2>3
    <3>2. table[o].slot = s /\ o \in InUse(table) /\ table[o].id \in Int
      BY <3>1 DEF InUse, Entries
    <3> HIDE DEF o, owners
    <3>3. table[o].slot = table[o].id - 1
      BY <3>2
    <3>4. QED
      BY <2>1, <2>3, <3>2, <3>3
  <2>4. QED
    BY <2>2, <2>3
<1>4. QED
  BY <1>1, <1>2, <1>3 DEF Free

(* Queueing sound records.                                                 *)
LEMMA QueueSound ==
  ASSUME NEW S, NEW ring \in Seq(S), NEW pkt \in S
  PROVE  QueueControl(ring, pkt) \in Seq(S)
BY DEF QueueControl

(* Grants, releases and the heartbeat add sound records.                   *)
LEMMA RingsSound ==
  ASSUME TypeOK, NEW n \in Addr, NEW S, Free \subseteq S, NEW ring \in Seq(S)
  PROVE  /\ Heartbeat(n, ring) \in Seq(S)
         /\ \A sel \in [SpkIdx -> 0..MaxNodes] : \A masks : GrantRing(n, sel, masks, ring) \in Seq(S)
<1>1. Heartbeat(n, ring) \in Seq(S)
  <2>1. Packet("STATUS", n) \in S /\ Packet("KEEPALIVE", n) \in S
    BY BuiltFree DEF Kinds
  <2>2. QED
    BY <2>1, QueueSound DEF Heartbeat
<1>2. ASSUME NEW sel \in [SpkIdx -> 0..MaxNodes], NEW masks
      PROVE  GrantRing(n, sel, masks, ring) \in Seq(S)
  <2> DEFINE released == Released(speakers[n], sel)
             ring1 == IF released = NoSpeakers THEN ring
                      ELSE QueueControl(ring, Speak("SPEAKER_RELEASE", n, released))
  <2>1. released \in [SpkIdx -> 0..MaxNodes]
    BY MembershipAssumption DEF Released, TypeOK
  <2>2. Speak("SPEAKER_RELEASE", n, released) \in S /\ Speak("SPEAKER_GRANT", n, sel) \in S
    BY <2>1, BuiltFree DEF Kinds
  <2>3. ring1 \in Seq(S)
    BY <2>2, QueueSound
  <2>4. QueueControl(ring1, Speak("SPEAKER_GRANT", n, sel)) \in Seq(S)
    BY <2>2, <2>3, QueueSound
  <2>5. QED
    BY <2>4 DEF GrantRing
<1>3. QED
  BY <1>1, <1>2

(* Tables keep ids and slots together, before and after a step.            *)
LEMMA TableSlots ==
  ASSUME TypeOK, PeerTable, PeerTable', NEW n \in Addr
  PROVE  /\ \A i \in InUse(peers[n]) : peers[n][i].slot = peers[n][i].id - 1
         /\ \A i \in InUse(peers'[n]) : peers'[n][i].slot = peers'[n][i].id - 1
<1>1. InUse(EmptyTable) = {}
  BY DEF InUse, EmptyTable, NoPeer
<1>2. \A i \in InUse(peers[n]) : peers[n][i].slot = peers[n][i].id - 1
  BY <1>1 DEF PeerTable, CoordinatorTable, InTable
<1>3. \A i \in InUse(peers'[n]) : peers'[n][i].slot = peers'[n][i].id - 1
  BY <1>1 DEF PeerTable, CoordinatorTable, InTable
<1>4. QED
  BY <1>2, <1>3

(* Reception and transmission move sound packets only.                     *)
LEMMA TakeSound ==
  ASSUME TypeOK, PeerTable, FlightInv, [Next]_vars, NEW n \in Addr, NEW kind, Take(n, kind)
  PROVE  /\ \A m \in Addr : rx_ring'[m] \in Seq(Sound')
         /\ Head(rx_ring[n]) \in Sound /\ Head(rx_ring[n]).kind = kind
<1>1. /\ rx_ring[n] \in Seq(Sound) /\ rx_ring[n] # <<>> /\ Head(rx_ring[n]).kind = kind
      /\ rx_ring'[n] = Tail(rx_ring[n]) /\ \A m \in Addr \ {n} : rx_ring'[m] = rx_ring[m]
  BY DEF FlightInv, Take, TypeOK
<1>2. Head(rx_ring[n]) \in Sound /\ Tail(rx_ring[n]) \in Seq(Sound)
  BY <1>1
<1>3. QED
  BY <1>1, <1>2, SoundKept DEF FlightInv

(* Whoever hears a sound packet.                                           *)
LEMMA HeardSound ==
  ASSUME TypeOK, PeerTable, FlightInv, [Next]_vars, NEW pkt \in Sound, NEW heard
  PROVE  \A m \in Addr : Heard(pkt, heard)[m] \in Seq(Sound')
<1> SUFFICES ASSUME NEW m \in Addr PROVE Heard(pkt, heard)[m] \in Seq(Sound')
  OBVIOUS
<1>1. rx_ring[m] \in Seq(Sound) /\ Append(rx_ring[m], pkt) \in Seq(Sound)
  BY DEF FlightInv
<1>2. Heard(pkt, heard)[m] \in Seq(Sound)
  BY <1>1 DEF Heard
<1>3. QED
  BY <1>2, SoundKept

(* An action of n that sends a packet and leaves the control rings alone.  *)
LEMMA SendSound ==
  ASSUME TypeOK, PeerTable, FlightInv, [Next]_vars, NEW n \in Addr, NEW pkt \in Sound,
         Broadcast(n, pkt)
  PROVE  \A m \in Addr : rx_ring'[m] \in Seq(Sound')
BY HeardSound DEF Broadcast

(* The records an action of n may leave in its control ring.               *)
LEMMA FlightFrame ==
  ASSUME TypeOK, PeerTable, FlightInv, [Next]_vars, NEW n \in Addr, NEW ring,
         control_ring' = [control_ring EXCEPT ![n] = ring], ring \in Seq(Sound'),
         \A m \in Addr : rx_ring'[m] \in Seq(Sound')
  PROVE  FlightInv'
<1> SUFFICES ASSUME NEW m \in Addr PROVE control_ring'[m] \in Seq(Sound')
  BY DEF FlightInv
<1>1. CASE m = n
  BY <1>1 DEF TypeOK
<1>2. CASE m # n
  <2>1. control_ring'[m] = control_ring[m] /\ control_ring[m] \in Seq(Sound)
    BY <1>2 DEF TypeOK, FlightInv
  <2>2. QED
    BY <2>1, SoundKept
<1>3. QED
  BY <1>1, <1>2

(* A step that leaves the control rings alone.                             *)
LEMMA FlightSame ==
  ASSUME TypeOK, PeerTable, FlightInv, [Next]_vars, UNCHANGED control_ring,
         \A m \in Addr : rx_ring'[m] \in Seq(Sound')
  PROVE  FlightInv'
<1> SUFFICES ASSUME NEW m \in Addr PROVE control_ring'[m] \in Seq(Sound')
  BY DEF FlightInv
<1>1. QED
  BY SoundKept DEF FlightInv

(* The JOIN_ACK and SLOT_MAP that answer a JOIN are sound: the entry is in *)
(* the table the handler leaves.                                           *)
LEMMA AcknowledgeSound ==
  ASSUME TypeOK, PeerTable, FlightInv, [Next]_vars, TypeOK', PeerTable',
         NEW n \in Addr, IsCoordinator(n), NEW i \in InUse(peers'[n]), NEW entry,
         peers'[n][i] = entry, Acknowledge(n, entry, peers'[n]),
         \A m \in Addr : rx_ring'[m] \in Seq(Sound')
  PROVE  FlightInv'
<1> DEFINE ack == JoinAck(n, entry)
           map == SlotMap(n, peers'[n], speakers[n])
<1>1. peers'[n] \in [Index -> Entries] /\ entry \in Entries /\ speakers[n] \in [SpkIdx -> 0..MaxNodes]
  BY DEF TypeOK, InUse
<1>2. ack \in Packets
  BY <1>1, JoinAckType
<1>3. ack.kind = "JOIN_ACK" /\ ack.from = n /\ ack.src = node[n].node_id
      /\ ack.to = entry.addr /\ ack.id = entry.id /\ ack.slot = entry.slot
  <2> DEFINE p(to, id, slot) ==
               [kind |-> "JOIN_ACK", from |-> n, src |-> node[n].node_id, to |-> to, id |-> id,
                slot |-> slot, slot_ids |-> EmptyMap, speaker_ids |-> NoSpeakers]
  <2>a. [p(NoAddr, 0, 0) EXCEPT !.to = entry.addr] = p(entry.addr, 0, 0)
    OBVIOUS
  <2>b. [p(entry.addr, 0, 0) EXCEPT !.id = entry.id] = p(entry.addr, entry.id, 0)
    OBVIOUS
  <2>c. [p(entry.addr, entry.id, 0) EXCEPT !.slot = entry.slot] = p(entry.addr, entry.id, entry.slot)
    OBVIOUS
  <2>d. ack = p(entry.addr, entry.id, entry.slot)
    BY <2>a, <2>b, <2>c DEF JoinAck, Packet
  <2>e. QED
    BY <2>d
<1>4. node[n].node_id = 1
  BY DEF PeerTable, CoordinatorTable
<1>5. entry.slot = entry.id - 1
  BY TableSlots
<1>6. Assigns(n, entry.addr, entry.id)'
  BY DEF Assigns
<1>7. ack \in Sound'
  BY <1>2, <1>3, <1>4, <1>5, <1>6 DEF Sound, Promises
<1>8. map \in Sound'
  BY <1>1, TableSlots, MapFree DEF Sound
<1>9. control_ring[n] \in Seq(Sound')
  BY SoundKept DEF FlightInv
<1>10. control_ring' = [control_ring EXCEPT ![n] = QueueControl(QueueControl(control_ring[n], ack), map)]
  BY DEF Acknowledge
<1> HIDE DEF ack, map
<1>11. QueueControl(QueueControl(control_ring[n], ack), map) \in Seq(Sound')
  BY <1>7, <1>8, <1>9, QueueSound
<1>12. QED
  BY <1>10, <1>11, FlightFrame

(* Every step leaves sound packets only, in the rings and on the air.      *)
LEMMA FlightInduction ==
  ASSUME TypeOK, PeerTable, FlightInv, [Next]_vars
  PROVE  FlightInv'
<1>0. TypeOK' /\ PeerTable' /\ Sound \subseteq Sound' /\ Free \subseteq Sound'
  BY TypeInduction, TableInduction, SoundKept DEF Sound
<1>1. \A m \in Addr : control_ring[m] \in Seq(Sound') /\ rx_ring[m] \in Seq(Sound')
  BY SoundKept DEF FlightInv
<1>2. CASE UNCHANGED vars
  BY <1>1, <1>2 DEF vars, FlightInv
<1>3. ASSUME NEW n \in Addr, Step(n) PROVE FlightInv'
  <2>1. CASE Start(n) \/ ScanTimeout(n) \/ JoinTimeout(n) \/ TalkExpires(n)
    BY <1>1, <2>1 DEF Start, ScanTimeout, JoinTimeout, TalkExpires, FlightInv
  <2>2. CASE Stop(n)
    <3>1. PICK heard : rx_ring' = [Heard(Packet("LEAVE", n), heard) EXCEPT ![n] = <<>>]
      BY <2>2 DEF Stop
    <3>2. Packet("LEAVE", n) \in Sound
      BY BuiltFree DEF Sound, Kinds
    <3>3. \A m \in Addr : Heard(Packet("LEAVE", n), heard)[m] \in Seq(Sound')
      BY <3>2, HeardSound
    <3>4. DOMAIN Heard(Packet("LEAVE", n), heard) = Addr
      BY DEF Heard
    <3>5. \A m \in Addr : rx_ring'[m] \in Seq(Sound')
      BY <3>1, <3>3, <3>4
    <3>6. control_ring' = [control_ring EXCEPT ![n] = <<>>] /\ <<>> \in Seq(Sound')
      BY <2>2 DEF Stop, ResetSession
    <3>7. QED
      BY <3>5, <3>6, FlightFrame
  <2>3. CASE CoordinatorLost(n)
    <3>1. control_ring' = [control_ring EXCEPT ![n] = <<>>] /\ <<>> \in Seq(Sound') /\ rx_ring' = rx_ring
      BY <2>3 DEF CoordinatorLost, ResetSession
    <3>2. QED
      BY <1>1, <3>1, FlightFrame
  <2>4. CASE SendJoin(n) \/ SendSync(n) \/ SendAudio(n)
    <3>1. /\ Packet("JOIN", n) \in Sound /\ Packet("SYNC", n) \in Sound
          /\ Packet("AUDIO", n) \in Sound
      BY BuiltFree DEF Sound, Kinds
    <3>2. UNCHANGED control_ring /\ \E pkt \in Sound : Broadcast(n, pkt)
      BY <2>4, <3>1 DEF SendJoin, SendSync, SendAudio
    <3>3. QED
      BY <3>2, SendSound, FlightSame
  <2>5. CASE SendControl(n)
    <3>1. /\ control_ring[n] \in Seq(Sound) /\ control_ring[n] # <<>>
          /\ control_ring' = [control_ring EXCEPT ![n] = Tail(control_ring[n])]
          /\ Broadcast(n, Head(control_ring[n]))
      BY <2>5 DEF SendControl, FlightInv
    <3>2. Head(control_ring[n]) \in Sound /\ Tail(control_ring[n]) \in Seq(Sound)
      BY <3>1
    <3>3. \A m \in Addr : rx_ring'[m] \in Seq(Sound')
      BY <3>1, <3>2, SendSound
    <3>4. Tail(control_ring[n]) \in Seq(Sound')
      BY <3>2, SoundKept
    <3>5. QED
      BY <3>1, <3>3, <3>4, FlightFrame
  <2>6. ASSUME \E kind : Take(n, kind) PROVE \A m \in Addr : rx_ring'[m] \in Seq(Sound')
    BY <2>6, TakeSound
  <2>7. CASE \/ DiscoverCoordinator(n) \/ KeepOnSync(n) \/ RxJoinIgnored(n) \/ RxJoinAck(n)
             \/ RxSlotMap(n) \/ RxAudioIgnored(n) \/ RxGrant(n) \/ RxRelease(n)
    <3>1. UNCHANGED control_ring /\ \E kind : Take(n, kind)
      BY <2>7 DEF DiscoverCoordinator, KeepOnSync, RxJoinIgnored, RxJoinAck, RxSlotMap,
         RxAudioIgnored, RxGrant, RxRelease
    <3>2. QED
      BY <2>6, <3>1, FlightSame
  <2>8. CASE DemoteCoordinator(n)
    <3>1. control_ring' = [control_ring EXCEPT ![n] = <<>>] /\ <<>> \in Seq(Sound')
      BY <2>8 DEF DemoteCoordinator, ResetSession
    <3>2. \E kind : Take(n, kind)
      BY <2>8 DEF DemoteCoordinator
    <3>3. QED
      BY <2>6, <3>1, <3>2, FlightFrame
  <2>9. CASE RxJoinKnown(n)
    <3>1. PICK i \in InUse(peers[n]) : Acknowledge(n, peers[n][i], peers[n])
      BY <2>9 DEF RxJoinKnown
    <3>2. peers' = peers /\ IsCoordinator(n) /\ \E kind : Take(n, kind)
      BY <2>9 DEF RxJoinKnown
    <3>3. PICK entry : entry = peers[n][i]
      OBVIOUS
    <3>4. i \in InUse(peers'[n]) /\ peers'[n][i] = entry /\ Acknowledge(n, entry, peers'[n])
      BY <3>1, <3>2, <3>3
    <3>5. QED
      BY <1>0, <2>6, <3>2, <3>4, AcknowledgeSound
  <2>10. CASE RxJoinNew(n)
    <3>1. PICK entry : entry = Assigned(n, Head(rx_ring[n]).from)
      OBVIOUS
    <3>2. /\ Acknowledge(n, entry, WithEntry(n, entry)) /\ IsCoordinator(n)
          /\ \E kind : Take(n, kind)
      BY <2>10, <3>1 DEF RxJoinNew
    <3>3. /\ peers'[n] = WithEntry(n, entry)
          /\ \E i \in InUse(WithEntry(n, entry)) : WithEntry(n, entry)[i] = entry
      BY <2>10, <3>1, JoinKeeps
    <3>4. PICK i \in InUse(peers'[n]) : peers'[n][i] = entry
      BY <3>3
    <3>5. Acknowledge(n, entry, peers'[n])
      BY <3>2, <3>3
    <3>6. QED
      BY <1>0, <2>6, <3>2, <3>4, <3>5, AcknowledgeSound
  <2>11. \A t \in [Index -> Entries] :
            (peers'[n] = t) => SlotMap(n, t, speakers[n]) \in Sound'
    BY <1>0, TableSlots, MapFree DEF TypeOK
  <2>12. ASSUME NEW id, HearPeer(n, id) PROVE RingAfter(n, id) \in Seq(Sound')
    <3>1. peers'[n] = Announce(n, id) /\ Announce(n, id) \in [Index -> Entries]
      BY <2>12, TableTypes DEF HearPeer, TypeOK
    <3>2. SlotMap(n, Announce(n, id), speakers[n]) \in Sound'
      BY <2>11, <3>1
    <3>3. QED
      BY <1>1, <3>2, QueueSound DEF RingAfter
  <2>13. ASSUME NEW gone, RemovePeers(n, gone) PROVE StatusRing(n, gone) \in Seq(Sound')
    <3>1. peers'[n] = Without(peers[n], gone) /\ Without(peers[n], gone) \in [Index -> Entries]
      BY <2>13, TableTypes DEF RemovePeers, TypeOK
    <3>2. SlotMap(n, Without(peers[n], gone), speakers[n]) \in Sound'
      BY <2>11, <3>1
    <3>3. QED
      BY <1>1, <3>2, QueueSound DEF StatusRing
  <2>14. ASSUME NEW talk, NEW ring \in Seq(Sound'), UpdateSpeakerGrants(n, talk, ring),
                \A m \in Addr : rx_ring'[m] \in Seq(Sound')
         PROVE  FlightInv'
    <3>1. PICK sel \in Selections(speakers[n], talk), masks \in Masks :
            control_ring' = [control_ring EXCEPT ![n] = GrantRing(n, sel, masks, ring)]
      BY <2>14 DEF UpdateSpeakerGrants
    <3>2. sel \in [SpkIdx -> 0..MaxNodes]
      BY DEF Selections
    <3>3. GrantRing(n, sel, masks, ring) \in Seq(Sound')
      BY <1>0, <2>14, <3>2, RingsSound
    <3>4. QED
      BY <2>14, <3>1, <3>3, FlightFrame
  <2>15. CASE RxAlive(n)
    <3>1. PICK id : id = Head(rx_ring[n]).src
      OBVIOUS
    <3>2. /\ HearPeer(n, id) /\ control_ring' = [control_ring EXCEPT ![n] = RingAfter(n, id)]
          /\ \E kind : Take(n, kind)
      BY <2>15, <3>1 DEF RxAlive
    <3>3. QED
      BY <2>6, <2>12, <3>2, FlightFrame
  <2>16. CASE RxLeave(n)
    <3>1. PICK gone : gone = Leavers(n, Head(rx_ring[n]))
      OBVIOUS
    <3>2. /\ RemovePeers(n, gone) /\ control_ring' = [control_ring EXCEPT ![n] = StatusRing(n, gone)]
          /\ \E kind : Take(n, kind)
      BY <2>16, <3>1 DEF RxLeave, StatusRing
    <3>3. QED
      BY <2>6, <2>13, <3>2, FlightFrame
  <2>17. CASE RxAudio(n)
    <3>1. PICK id, talk : id = Head(rx_ring[n]).src /\ talk = talking'[n]
      OBVIOUS
    <3>2. /\ HearPeer(n, id) /\ UpdateSpeakerGrants(n, talk, RingAfter(n, id))
          /\ \E kind : Take(n, kind)
      BY <2>17, <3>1 DEF RxAudio
    <3>3. QED
      BY <2>6, <2>12, <2>14, <3>2
  <2>18. CASE LocalAudio(n)
    <3>1. PICK talk : talk = talking'[n]
      OBVIOUS
    <3>2. UpdateSpeakerGrants(n, talk, control_ring[n]) /\ rx_ring' = rx_ring
      BY <2>18, <3>1 DEF LocalAudio
    <3>3. QED
      BY <1>1, <2>14, <3>2
  <2>19. CASE StatusTick(n)
    <3>1. PICK gone \in SUBSET MaySilence(n) :
            /\ RemovePeers(n, gone)
            /\ IF IsCoordinator(n)
               THEN \E sel \in Selections(speakers[n], talking[n]), masks \in Masks :
                      /\ speakers' = [speakers EXCEPT ![n] = sel]
                      /\ control_ring' = [control_ring EXCEPT ![n] =
                           Heartbeat(n, GrantRing(n, sel, masks, StatusRing(n, gone)))]
               ELSE /\ control_ring' = [control_ring EXCEPT ![n] = Heartbeat(n, @)]
                    /\ UNCHANGED speakers
      BY <2>19 DEF StatusTick
    <3>2. rx_ring' = rx_ring /\ StatusRing(n, gone) \in Seq(Sound')
      BY <2>13, <2>19, <3>1 DEF StatusTick
    <3>3. CASE IsCoordinator(n)
      <4>1. PICK sel \in Selections(speakers[n], talking[n]), masks \in Masks :
              control_ring' = [control_ring EXCEPT ![n] =
                 Heartbeat(n, GrantRing(n, sel, masks, StatusRing(n, gone)))]
        BY <3>1, <3>3
      <4>2. sel \in [SpkIdx -> 0..MaxNodes]
        BY DEF Selections
      <4>3. GrantRing(n, sel, masks, StatusRing(n, gone)) \in Seq(Sound')
        BY <1>0, <3>2, <4>2, RingsSound
      <4>4. Heartbeat(n, GrantRing(n, sel, masks, StatusRing(n, gone))) \in Seq(Sound')
        BY <1>0, <4>3, RingsSound
      <4>5. QED
        BY <1>1, <3>2, <4>1, <4>4, FlightFrame
    <3>4. CASE ~IsCoordinator(n)
      <4>1. control_ring' = [control_ring EXCEPT ![n] = Heartbeat(n, control_ring[n])]
        BY <3>1, <3>4
      <4>2. Heartbeat(n, control_ring[n]) \in Seq(Sound')
        BY <1>0, <1>1, RingsSound
      <4>3. QED
        BY <1>1, <3>2, <4>1, <4>2, FlightFrame
    <3>5. QED
      BY <3>3, <3>4
  <2>20. QED
    BY <1>3, <2>1, <2>2, <2>3, <2>4, <2>5, <2>7, <2>8, <2>9, <2>10, <2>15, <2>16, <2>17,
       <2>18, <2>19 DEF Step, Receive
<1>4. QED
  BY <1>2, <1>3 DEF Next

(* What a node knows of its own membership.                                *)
SameMember(r, s) ==
    /\ r.state = s.state /\ r.role = s.role /\ r.node_id = s.node_id
    /\ r.slot_index = s.slot_index /\ r.coordinator_id = s.coordinator_id

(* A node in order: its slot is its id's, and its sponsor's promise stands.*)
MemberOK(r) ==
    r.state = "active" => /\ r.slot_index = r.node_id - 1
                          /\ r.role = "participant" => r.node_id > 1 /\ r.coordinator_id = 1
SponsorOK(n) ==
    sponsor[n] # NoAddr => /\ Active(n) /\ IsParticipant(n) /\ sponsor[n] \in Addr
                           /\ Assigns(sponsor[n], n, node[n].node_id)

(* A node whose membership a step does not touch stays in order.           *)
LEMMA MemberStays ==
  ASSUME TypeOK, PeerTable, SponsorInv, SlotFollowsId, [Next]_vars, NEW m \in Addr,
         SameMember(node'[m], node[m]), sponsor'[m] = sponsor[m]
  PROVE  MemberOK(node'[m]) /\ SponsorOK(m)'
<1>1. MemberOK(node[m])
  BY DEF SlotFollowsId, MemberOK, Active, IsParticipant
<1>2. SponsorOK(m)'
  <2> SUFFICES ASSUME sponsor[m] # NoAddr
               PROVE  /\ Active(m)' /\ IsParticipant(m)' /\ sponsor'[m] \in Addr
                      /\ Assigns(sponsor[m], m, node[m].node_id)'
    BY DEF SponsorOK
  <2>1. /\ Active(m) /\ IsParticipant(m) /\ sponsor[m] \in Addr
        /\ Assigns(sponsor[m], m, node[m].node_id)
    BY DEF SponsorInv
  <2>2. PICK c, id : c = sponsor[m] /\ id = node[m].node_id
    OBVIOUS
  <2>3. Assigns(c, m, id)'
    BY <2>1, <2>2, PromiseKept
  <2>4. QED
    BY <2>1, <2>2, <2>3 DEF SameMember, Active, IsParticipant, Assigns
<1>3. QED
  BY <1>1, <1>2 DEF SameMember, MemberOK

(* A step is in order when it leaves every node in order.                  *)
LEMMA MemberFrame ==
  ASSUME \A m \in Addr : MemberOK(node'[m]) /\ SponsorOK(m)'
  PROVE  SponsorInv' /\ SlotFollowsId'
<1>1. SponsorInv'
  BY DEF SponsorInv, SponsorOK
<1>2. SlotFollowsId'
  BY DEF SlotFollowsId, MemberOK, Active, IsParticipant
<1>3. QED
  BY <1>1, <1>2

(* Every step keeps ids, slots and sponsors in order.                      *)
LEMMA MemberInduction ==
  ASSUME TypeOK, PeerTable, JoinInv, [Next]_vars
  PROVE  SponsorInv' /\ SlotFollowsId'
<1> USE DEF JoinInv
<1>1. ASSUME \A m \in Addr : SameMember(node'[m], node[m]) /\ sponsor'[m] = sponsor[m]
      PROVE  SponsorInv' /\ SlotFollowsId'
  BY <1>1, MemberStays, MemberFrame
<1>2. CASE UNCHANGED vars
  BY <1>1, <1>2 DEF vars, SameMember
<1>3. ASSUME NEW n \in Addr, Step(n) PROVE SponsorInv' /\ SlotFollowsId'
  <2>1. ASSUME \A m \in Addr \ {n} : node'[m] = node[m] /\ sponsor'[m] = sponsor[m],
               MemberOK(node'[n]), SponsorOK(n)'
        PROVE  SponsorInv' /\ SlotFollowsId'
    <3>1. \A m \in Addr \ {n} : SameMember(node'[m], node[m]) /\ sponsor'[m] = sponsor[m]
      BY <2>1 DEF SameMember
    <3>2. \A m \in Addr : MemberOK(node'[m]) /\ SponsorOK(m)'
      BY <2>1, <3>1, MemberStays
    <3>3. QED
      BY <3>2, MemberFrame
  <2>2. CASE \/ SendJoin(n) \/ SendSync(n) \/ SendControl(n) \/ KeepOnSync(n)
             \/ RxJoinKnown(n) \/ RxJoinNew(n) \/ RxJoinIgnored(n) \/ SendAudio(n)
             \/ RxAudioIgnored(n) \/ LocalAudio(n) \/ TalkExpires(n) \/ RxGrant(n) \/ RxRelease(n)
    <3>1. UNCHANGED <<node, sponsor>>
      BY <2>2 DEF SendJoin, SendSync, SendControl, KeepOnSync, RxJoinKnown, RxJoinNew,
         RxJoinIgnored, SendAudio, RxAudioIgnored, LocalAudio, TalkExpires, RxGrant, RxRelease
    <3>2. QED
      BY <1>1, <3>1 DEF SameMember
  <2>3. CASE RxAlive(n) \/ RxAudio(n) \/ RxLeave(n) \/ StatusTick(n)
    <3>1. sponsor' = sponsor
      BY <2>3 DEF RxAlive, RxAudio, RxLeave, StatusTick
    <3>2. PICK v : node' = [node EXCEPT ![n].peer_count = v]
      BY <2>3 DEF RxAlive, RxAudio, RxLeave, StatusTick, HearPeer, RemovePeers
    <3>3. \A m \in Addr : SameMember(node'[m], node[m])
      BY <3>2 DEF TypeOK, Snapshots, SameMember
    <3>4. QED
      BY <1>1, <3>1, <3>3
  <2>4. CASE Stop(n) \/ CoordinatorLost(n)
    <3>1. /\ sponsor' = [sponsor EXCEPT ![n] = NoAddr]
          /\ \E r \in {Idle, Scanning} : node' = [node EXCEPT ![n] = r]
      BY <2>4 DEF Stop, CoordinatorLost
    <3>2. Idle.state = "idle" /\ Scanning.state = "scanning"
      BY DEF Idle, Scanning
    <3>3. /\ sponsor'[n] = NoAddr /\ node'[n].state # "active"
          /\ \A m \in Addr \ {n} : node'[m] = node[m] /\ sponsor'[m] = sponsor[m]
      BY <3>1, <3>2 DEF TypeOK
    <3>4. QED
      BY <2>1, <3>3 DEF MemberOK, SponsorOK
  <2>5. ~Active(n) \/ IsCoordinator(n) => sponsor[n] = NoAddr
    BY DEF SponsorInv, IsCoordinator, IsParticipant
  <2>6. CASE Start(n) \/ JoinTimeout(n) \/ DiscoverCoordinator(n) \/ DemoteCoordinator(n)
    <3>1. sponsor' = sponsor /\ sponsor[n] = NoAddr
      BY <2>5, <2>6 DEF Start, JoinTimeout, DiscoverCoordinator, DemoteCoordinator, Active
    <3>2. node'[n].state # "active" /\ \A m \in Addr \ {n} : node'[m] = node[m]
      <4>1. CASE Start(n)
        BY <4>1 DEF Start, TypeOK, Snapshots
      <4>2. CASE JoinTimeout(n)
        BY <4>2 DEF JoinTimeout, TypeOK, Scanning, Idle
      <4>3. CASE DiscoverCoordinator(n)
        BY <4>3 DEF DiscoverCoordinator, TypeOK, Snapshots
      <4>4. CASE DemoteCoordinator(n)
        BY <4>4 DEF DemoteCoordinator, TypeOK, Idle
      <4>5. QED
        BY <2>6, <4>1, <4>2, <4>3, <4>4
    <3>3. QED
      BY <2>1, <3>1, <3>2 DEF MemberOK, SponsorOK
  <2>7. CASE ScanTimeout(n)
    <3>1. /\ sponsor' = sponsor /\ sponsor[n] = NoAddr
          /\ node'[n] = [state |-> "active", role |-> "coordinator", node_id |-> 1, slot_index |-> 0,
                         coordinator_id |-> 1, peer_count |-> 0]
          /\ \A m \in Addr \ {n} : node'[m] = node[m]
      BY <2>5, <2>7 DEF ScanTimeout, Active, TypeOK
    <3>2. MemberOK(node'[n])
      BY <3>1 DEF MemberOK
    <3>3. QED
      BY <2>1, <3>1, <3>2 DEF SponsorOK
  <2>8. CASE RxJoinAck(n)
    <3>1. PICK pkt : pkt = Head(rx_ring[n])
      OBVIOUS
    <3>2. pkt \in Sound /\ pkt.kind = "JOIN_ACK"
      BY <2>8, <3>1, TakeSound DEF RxJoinAck
    <3>3. /\ pkt \in Packets /\ pkt.src = 1 /\ pkt.slot = pkt.id - 1
          /\ Assigns(pkt.from, pkt.to, pkt.id)
      BY <3>2 DEF Sound, Free, Promises
    <3>4. pkt.from \in Addr /\ pkt.id \in Int
      BY <3>3 DEF Packets
    <3>5. CASE JoinAckValid(n, pkt)
      <4>1. /\ node'[n] = [state |-> "active", role |-> "participant", node_id |-> pkt.id,
                           slot_index |-> pkt.slot, coordinator_id |-> pkt.src,
                           peer_count |-> Unknown]
            /\ sponsor'[n] = pkt.from
            /\ \A m \in Addr \ {n} : node'[m] = node[m] /\ sponsor'[m] = sponsor[m]
        BY <2>8, <3>1, <3>5 DEF RxJoinAck, TypeOK
      <4>2. pkt.to = n /\ pkt.id \in Ids /\ pkt.id # pkt.src
        BY <3>5 DEF JoinAckValid
      <4>3. pkt.id > 1
        BY <3>3, <3>4, <4>2, MembershipAssumption DEF Ids
      <4>4. MemberOK(node'[n])
        BY <3>3, <4>1, <4>3 DEF MemberOK
      <4>5. PICK c, id : c = pkt.from /\ id = pkt.id
        OBVIOUS
      <4>6. Assigns(c, n, id)'
        BY <3>3, <3>4, <4>2, <4>5, PromiseKept
      <4>7. SponsorOK(n)'
        BY <3>4, <4>1, <4>5, <4>6 DEF SponsorOK, Active, IsParticipant, Assigns
      <4>8. QED
        BY <2>1, <4>1, <4>4, <4>7
    <3>6. CASE ~JoinAckValid(n, pkt)
      <4>1. UNCHANGED <<node, sponsor>>
        BY <2>8, <3>1, <3>6 DEF RxJoinAck
      <4>2. QED
        BY <1>1, <4>1 DEF SameMember
    <3>7. QED
      BY <3>5, <3>6
  <2>9. CASE RxSlotMap(n)
    <3>1. PICK pkt : pkt = Head(rx_ring[n])
      OBVIOUS
    <3>2. pkt \in Sound /\ pkt.kind = "SLOT_MAP"
      BY <2>9, <3>1, TakeSound DEF RxSlotMap
    <3>3. \A s \in Index : pkt.slot_ids[s] \in {0, s + 1}
      BY <3>2 DEF Sound, Free, Promises
    <3> DEFINE applied == /\ Active(n) /\ IsParticipant(n) /\ pkt.src = node[n].coordinator_id
                          /\ SlotMapValid(pkt, node[n].node_id, node[n].coordinator_id)
    <3>4. sponsor' = sponsor
      BY <2>9 DEF RxSlotMap
    <3>5. CASE applied
      <4>1. PICK ls, pc : /\ ls = LocalSlot(pkt, node[n].node_id)
                          /\ node' = [node EXCEPT ![n].slot_index = ls, ![n].peer_count = pc]
        BY <2>9, <3>1, <3>5 DEF RxSlotMap
      <4>2. ls \in Index /\ pkt.slot_ids[ls] = node[n].node_id
        BY <3>5, <4>1 DEF LocalSlot, SlotMapValid
      <4>3. node[n].node_id > 1 /\ node[n].slot_index = node[n].node_id - 1 /\ node[n].node_id \in Int
        BY <3>5 DEF SlotFollowsId, TypeOK, Snapshots
      <4>4. ls = node[n].slot_index
        BY <3>3, <4>2, <4>3, MembershipAssumption DEF Index
      <4>5. \A m \in Addr : SameMember(node'[m], node[m])
        BY <4>1, <4>4 DEF TypeOK, Snapshots, SameMember
      <4>6. QED
        BY <1>1, <3>4, <4>5
    <3>6. CASE ~applied
      <4>1. UNCHANGED node
        BY <2>9, <3>1, <3>6 DEF RxSlotMap
      <4>2. QED
        BY <1>1, <3>4, <4>1 DEF SameMember
    <3>7. QED
      BY <3>5, <3>6
  <2>10. QED
    BY <1>3, <2>2, <2>3, <2>4, <2>6, <2>7, <2>8, <2>9 DEF Step, Receive
<1>4. QED
  BY <1>2, <1>3 DEF Next

(* Every reachable state is in order.                                      *)
LEMMA JoinInvariant == Spec => [](TypeOK /\ PeerTable /\ JoinInv)
<1>1. Init => JoinInv
  BY DEF Init, JoinInv, FlightInv, SponsorInv, SlotFollowsId, Active, Idle
<1>2. TypeOK /\ PeerTable /\ JoinInv /\ [Next]_vars => JoinInv'
  BY FlightInduction, MemberInduction DEF JoinInv
<1>3. Spec => [](TypeOK /\ PeerTable)
  BY PeerTableCorrect
<1>4. QED
  BY <1>1, <1>2, <1>3, PTL DEF Spec

(* Of every active node in every mesh: its slot is the one of its id, and  *)
(* no participant holds the coordinator's id, whatever JOIN_ACKs and       *)
(* SLOT_MAPs were delayed, lost or sent by another coordinator.            *)
THEOREM SlotFollowsIdCorrect == Spec => []SlotFollowsId
<1>1. TypeOK /\ PeerTable /\ JoinInv => SlotFollowsId
  BY DEF JoinInv
<1>2. QED
  BY <1>1, JoinInvariant, PTL

(* A JOIN_ACK, however late, assigns what the table says: a participant    *)
(* its coordinator has not removed is in the coordinator's table under the *)
(* id it uses.                                                             *)
THEOREM AssignmentHonouredCorrect == Spec => []AssignmentHonoured
<1>1. TypeOK /\ PeerTable /\ JoinInv => AssignmentHonoured
  BY DEF JoinInv, SponsorInv, Assigns, AssignmentHonoured
<1>2. QED
  BY <1>1, JoinInvariant, PTL

(* In every mesh, of any number of nodes, each slot has one owner at most: *)
(* the coordinator and the nodes it has admitted and not removed transmit  *)
(* in different slots.                                                     *)
THEOREM SlotsDisjointCorrect == Spec => []SlotsDisjoint
<1>1. TypeOK /\ PeerTable /\ JoinInv => SlotsDisjoint
  <2> SUFFICES ASSUME TypeOK, PeerTable, JoinInv, NEW c \in Addr, NEW a \in Addr, NEW b \in Addr,
                      a # b, InMesh(c, a), InMesh(c, b)
               PROVE  node[a].slot_index # node[b].slot_index
    BY DEF SlotsDisjoint
  <2>1. ASSUME NEW n \in Addr, InMesh(c, n)
        PROVE  /\ IsCoordinator(c) /\ node[n].slot_index = node[n].node_id - 1
               /\ node[n].node_id \in Int
               /\ \E i \in InUse(peers[c]) : peers[c][i].addr = n /\ peers[c][i].id = node[n].node_id
    <3>1. node[n].node_id \in Int
      BY DEF TypeOK, Snapshots
    <3>2. CASE n = c /\ IsCoordinator(c)
      <4>1. CoordinatorTable(c) /\ Active(c)
        BY <3>2 DEF PeerTable, CoordinatorTable, Active
      <4>2. 0 \in InUse(peers[c])
        BY <4>1, MembershipAssumption DEF CoordinatorTable, InUse, Index
      <4>3. peers[c][0].addr = c /\ peers[c][0].id = node[c].node_id
        BY <4>1, <4>2 DEF CoordinatorTable, InTable
      <4>4. QED
        BY <3>1, <3>2, <4>1, <4>2, <4>3 DEF JoinInv, SlotFollowsId
    <3>3. CASE sponsor[n] = c /\ n \notin forgotten[c]
      <4>1. c # NoAddr
        BY MembershipAssumption DEF NoAddr
      <4>2. Active(n) /\ Assigns(c, n, node[n].node_id)
        BY <3>3, <4>1 DEF JoinInv, SponsorInv
      <4>3. PICK i \in InUse(peers[c]) : peers[c][i].addr = n /\ peers[c][i].id = node[n].node_id
        BY <3>3, <4>2 DEF Assigns
      <4>4. InUse(EmptyTable) = {}
        BY DEF InUse, EmptyTable, NoPeer
      <4>5. IsCoordinator(c)
        BY <4>3, <4>4 DEF PeerTable
      <4>6. QED
        BY <3>1, <4>2, <4>3, <4>5 DEF JoinInv, SlotFollowsId
    <3>4. QED
      BY <2>1, <3>2, <3>3 DEF InMesh
  <2>2. CoordinatorTable(c)
    BY <2>1 DEF PeerTable
  <2>3. PICK i \in InUse(peers[c]) : peers[c][i].addr = a /\ peers[c][i].id = node[a].node_id
    BY <2>1
  <2>4. PICK j \in InUse(peers[c]) : peers[c][j].addr = b /\ peers[c][j].id = node[b].node_id
    BY <2>1
  <2>5. node[a].node_id # node[b].node_id
    BY <2>2, <2>3, <2>4 DEF CoordinatorTable
  <2>6. QED
    BY <2>1, <2>5
<1>2. QED
  BY <1>1, JoinInvariant, PTL
=============================================================================
