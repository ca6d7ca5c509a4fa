--------------------------- MODULE EspNowSession ---------------------------
(***************************************************************************)
(* The session of the ESP-NOW mesh: components/mesh/mesh_session.c with    *)
(* the packets of mesh_transport.c that it sends, on every node at once.   *)
(*                                                                         *)
(* Each action is one step of a node's mesh task (a packet taken from      *)
(* rx_queue, a timeout, a maintenance tick) or one call of mesh_start and  *)
(* mesh_stop.  The mesh task is the only writer of this state.             *)
(*                                                                         *)
(* A transmission reaches any subset of the listening nodes.  Time is left *)
(* open: scan and join deadlines may pass at any moment, a peer may stay   *)
(* unheard for 3 s.  When the control queue is sent, and in which order,   *)
(* is EspNowTransport; here any queued packet may be next.  Speech is left *)
(* to EspNowTransport as well.  KEEPALIVE and STATUS act alike on the      *)
(* session and are one kind, ALIVE.                                        *)
(***************************************************************************)
EXTENDS Integers, Sequences, FiniteSets

CONSTANTS Addr,       \* station addresses; the lower one wins an election
          MaxNodes,   \* MESH_MAX_NODES
          RxQueue,    \* MESH_RX_QUEUE_SIZE
          MaxUpsets,  \* bound: elections, stops and lost contacts
          MaxAir      \* bound: nodes with a packet not yet handled

ASSUME SessionAssumption ==
    /\ Addr \subseteq Nat \ {0}
    /\ MaxNodes \in Nat /\ MaxNodes >= 2
    /\ RxQueue \in Nat \ {0} /\ MaxUpsets \in Nat /\ MaxAir \in Nat

VARIABLES
    node,       \* state, role, identity and coordinator of each node
    peers,      \* s_peers
    silent,     \* entries of s_peers whose last_seen_ms is over 3 s old
    outbox,     \* s_control_queue
    rx_queue,   \* s_rx_queue
    members,    \* history: who became active by a JOIN_ACK that still held
    upsets

vars == <<node, peers, silent, outbox, rx_queue, members, upsets>>

Ids     == 1..MaxNodes
Index   == 0..MaxNodes - 1
NoAddr  == 0
NoPeer  == [id |-> 0, addr |-> NoAddr, slot |-> 0, active |-> FALSE]
NoPeers == [i \in Index |-> NoPeer]
NoMap   == [i \in Index |-> 0]

(* The fields that every way back to scanning, and a stop, clear.          *)
Unassigned(state) ==
    [state |-> state, role |-> "none", id |-> 0, slot |-> -1, coord |-> 0,
     cmac |-> NoAddr, count |-> 0, armed |-> FALSE]

Init ==
    /\ node = [n \in Addr |-> Unassigned("idle")]
    /\ peers = [n \in Addr |-> NoPeers]
    /\ silent = [n \in Addr |-> {}]
    /\ outbox = [n \in Addr |-> {}]
    /\ rx_queue = [n \in Addr |-> <<>>]
    /\ members = [n \in Addr |-> {}]
    /\ upsets = 0

Active(n)        == node[n].state = "active"
IsCoordinator(n) == node[n].role = "coordinator"
IsParticipant(n) == node[n].role = "participant"
-----------------------------------------------------------------------------
(* Packets.  JOIN goes out as source 0; everything else carries the id the *)
(* node has when it queues or sends the packet.                            *)
Packet(kind, n) == [kind |-> kind, from |-> n, src |-> node[n].id,
                    to |-> NoAddr, id |-> 0, slot |-> 0, map |-> NoMap]
Join(n) == [Packet("JOIN", n) EXCEPT !.src = 0]
JoinAck(n, entry) == [Packet("JOIN_ACK", n) EXCEPT !.to = entry.addr, !.id = entry.id,
                                                   !.slot = entry.slot]
SlotMap(n, table) ==
    [Packet("SLOT_MAP", n) EXCEPT !.map =
        [s \in Index |-> IF \E i \in Index : table[i].active /\ table[i].slot = s
                         THEN table[CHOOSE i \in Index : table[i].active /\ table[i].slot = s].id
                         ELSE 0]]

(* enqueue_control_packet: a queued packet of the same kind for the same   *)
(* destination is replaced.                                                *)
Queue(queued, pkt) ==
    {q \in queued : q.kind # pkt.kind \/ q.to # pkt.to} \cup {pkt}

(* esp_now_recv_cb of the nodes that hear a packet: a full queue drops it. *)
Listeners(pkt) ==
    {m \in Addr \ {pkt.from} : node[m].state # "idle" /\ pkt.to \in {NoAddr, m}}
Heard(pkt, heard) ==
    [m \in Addr |-> IF m \in heard /\ Len(rx_queue[m]) < RxQueue
                    THEN Append(rx_queue[m], pkt) ELSE rx_queue[m]]
OnAir == Cardinality({m \in Addr : rx_queue[m] # <<>>})
Receptions(pkt) == {heard \in SUBSET Listeners(pkt) : OnAir + Cardinality(heard) <= MaxAir}
Broadcast(pkt) == \E heard \in Receptions(pkt) : rx_queue' = Heard(pkt, heard)
-----------------------------------------------------------------------------
(* mesh_start.                                                             *)
Start(n) ==
    /\ node[n].state = "idle"
    /\ node' = [node EXCEPT ![n].state = "scanning"]
    /\ UNCHANGED <<peers, silent, outbox, rx_queue, members, upsets>>

(* clear_transient_mesh_state with the peer table; the caller clears the   *)
(* identity.                                                               *)
MutClearSession(n) ==
    /\ peers' = [peers EXCEPT ![n] = NoPeers]
    /\ silent' = [silent EXCEPT ![n] = {}]
    /\ members' = [c \in Addr |-> IF c = n THEN {} ELSE members[c] \ {n}]
    /\ UNCHANGED outbox
ClearSession(n) ==
    /\ peers' = [peers EXCEPT ![n] = NoPeers]
    /\ silent' = [silent EXCEPT ![n] = {}]
    /\ outbox' = [outbox EXCEPT ![n] = {}]
    /\ members' = [c \in Addr |-> IF c = n THEN {} ELSE members[c] \ {n}]

(* mesh_stop, or a node that loses power: only the first sends LEAVE.      *)
Stop(n) ==
    /\ node[n].state # "idle" /\ upsets < MaxUpsets
    /\ \E heard \in IF Active(n) THEN Receptions(Packet("LEAVE", n)) ELSE {{}} :
         rx_queue' = [Heard(Packet("LEAVE", n), heard) EXCEPT ![n] = <<>>]
    /\ node' = [node EXCEPT ![n] = Unassigned("idle")]
    /\ ClearSession(n)
    /\ upsets' = upsets + 1

(* mesh_task_scan and mesh_task_join beacon with JOIN requests.            *)
SendJoin(n) ==
    /\ node[n].state \in {"scanning", "joining"}
    /\ Broadcast(Join(n))
    /\ UNCHANGED <<node, peers, silent, outbox, members, upsets>>

(* Packets wait in rx_queue for at most one turn of the mesh task, 50 ms.  *)
(* What was received before the 2 s of a scan or the 3 s of a peer timeout *)
(* has been handled when they end.                                         *)
Drained == \A m \in Addr : rx_queue[m] = <<>>

(* mesh_task_scan, no mesh found in time.                                  *)
ScanTimeout(n) ==
    /\ node[n].state = "scanning" /\ Drained /\ upsets < MaxUpsets
    /\ node' = [node EXCEPT ![n] =
         [@ EXCEPT !.state = "active", !.role = "coordinator", !.id = 1, !.slot = 0,
                   !.coord = 1, !.count = 1, !.armed = TRUE]]
    /\ peers' = [peers EXCEPT ![n][0] =
                    [id |-> 1, addr |-> n, slot |-> 0, active |-> TRUE]]
    /\ upsets' = upsets + 1
    /\ UNCHANGED <<silent, outbox, rx_queue, members>>

(* mesh_task_join: join_deadline.                                          *)
JoinDeadline(n) ==
    /\ node[n].state = "joining"
    /\ node' = [node EXCEPT ![n] = Unassigned("scanning")]
    /\ ClearSession(n)
    /\ UNCHANGED <<rx_queue, upsets>>
-----------------------------------------------------------------------------
(* Transmissions of a joined node, once its frame timer is armed: SYNC in  *)
(* the coordinator's window, a queued packet in any other of its own.      *)
SendSync(n) ==
    /\ Active(n) /\ IsCoordinator(n) /\ node[n].armed
    /\ Broadcast(Packet("SYNC", n))
    /\ UNCHANGED <<node, peers, silent, outbox, members, upsets>>

SendControl(n) ==
    /\ Active(n) /\ node[n].armed
    /\ \E pkt \in outbox[n] :
         /\ Broadcast(pkt)
         /\ outbox' = [outbox EXCEPT ![n] = @ \ {pkt}]
    /\ UNCHANGED <<node, peers, silent, members, upsets>>

(* mesh_task_run_active_maintenance queues KEEPALIVE and STATUS; the id     *)
(* does not change before they are sent.                                   *)
SendAlive(n) ==
    /\ Active(n) /\ node[n].armed
    /\ Broadcast(Packet("ALIVE", n))
    /\ UNCHANGED <<node, peers, silent, outbox, members, upsets>>
-----------------------------------------------------------------------------
(* Reception.  handle_packet takes the oldest packet.                      *)
Take(n, kind) ==
    /\ rx_queue[n] # <<>> /\ Head(rx_queue[n]).kind = kind
    /\ rx_queue' = [rx_queue EXCEPT ![n] = Tail(@)]

(* A packet refreshes the first entry with its source id, active or not.   *)
Refreshed(n, id) ==
    LET named == {i \in Index : peers[n][i].id = id}
    IN  silent[n] \ {i \in named : \A j \in named : i <= j}

(* handle_join_packet.                                                     *)
ActiveAt(n, addr) == {i \in Index : peers[n][i].active /\ peers[n][i].addr = addr}
MutOccupied(n) == {node[n].id}
Occupied(n)  == {node[n].id} \cup {peers[n][i].id : i \in {j \in Index : peers[n][j].active}}
FirstFreeId(n) == CHOOSE id \in Ids \ Occupied(n) : \A other \in Ids \ Occupied(n) : id <= other
FirstInactive(n) ==
    LET free == {i \in Index : ~peers[n][i].active}
    IN  {i \in free : \A j \in free : i <= j}
MutSlotForNodeId(id) == id
SlotForNodeId(id) == id - 1
Entry(n, addr) == [id |-> FirstFreeId(n), addr |-> addr,
                   slot |-> SlotForNodeId(FirstFreeId(n)), active |-> TRUE]

RxJoinKnown(n) ==
    /\ Take(n, "JOIN") /\ IsCoordinator(n)
    /\ \E i \in ActiveAt(n, Head(rx_queue[n]).from) :
         /\ silent' = [silent EXCEPT ![n] = @ \ {i}]
         /\ outbox' = [outbox EXCEPT ![n] = Queue(@, JoinAck(n, peers[n][i]))]
    /\ UNCHANGED <<node, peers, members, upsets>>

RxJoinNew(n) ==
    /\ Take(n, "JOIN") /\ IsCoordinator(n)
    /\ ActiveAt(n, Head(rx_queue[n]).from) = {} /\ Ids \ Occupied(n) # {}
    /\ LET entry == Entry(n, Head(rx_queue[n]).from)
           table == [i \in Index |-> IF i \in FirstInactive(n) THEN entry ELSE peers[n][i]]
       IN  /\ peers' = [peers EXCEPT ![n] = table]
           /\ outbox' = [outbox EXCEPT ![n] =
                            Queue(Queue(@, JoinAck(n, entry)), SlotMap(n, table))]
    /\ silent' = [silent EXCEPT ![n] = @ \ FirstInactive(n)]
    /\ node' = [node EXCEPT ![n].count = @ + 1]
    /\ UNCHANGED <<members, upsets>>

(* A node that is no coordinator, or whose table is full, is silent.       *)
RxJoinIgnored(n) ==
    /\ Take(n, "JOIN")
    /\ ~IsCoordinator(n) \/ /\ ActiveAt(n, Head(rx_queue[n]).from) = {}
                            /\ Ids \ Occupied(n) = {}
    /\ UNCHANGED <<node, peers, silent, outbox, members, upsets>>

(* handle_join_ack_packet with mesh_core_join_assignment_valid.            *)
JoinAckAccepted(n, pkt) ==
    /\ node[n].state \in {"joining", "scanning"}
    /\ pkt.id \in Ids \ {pkt.src} /\ pkt.slot \in Index \ {0}
    /\ node[n].state = "joining" => pkt.src = node[n].coord /\ pkt.from = node[n].cmac

(* The entry that a JOIN_ACK announces may be gone when it is handled: it   *)
(* waits in the queues while the coordinator drops the entry, or this       *)
(* node's last LEAVE is still on its way.                                  *)
StillHolds(n, pkt) ==
    /\ IsCoordinator(pkt.from)
    /\ \E i \in ActiveAt(pkt.from, n) : peers[pkt.from][i].id = pkt.id
    /\ \A k \in DOMAIN rx_queue[pkt.from] :
         ~(rx_queue[pkt.from][k].kind = "LEAVE" /\ rx_queue[pkt.from][k].from = n)

RxJoinAck(n) ==
    /\ Take(n, "JOIN_ACK")
    /\ LET pkt == Head(rx_queue[n]) IN
       IF JoinAckAccepted(n, pkt)
       THEN /\ node' = [node EXCEPT ![n] =
                 [@ EXCEPT !.state = "active", !.role = "participant", !.id = pkt.id,
                           !.slot = pkt.slot, !.coord = pkt.src, !.cmac = pkt.from,
                           !.count = 1]]
            /\ peers' = [peers EXCEPT ![n][0] =
                 [id |-> pkt.src, addr |-> pkt.from, slot |-> 0, active |-> TRUE]]
            /\ silent' = [silent EXCEPT ![n] = @ \ {0}]
            /\ members' = IF StillHolds(n, pkt)
                          THEN [members EXCEPT ![pkt.from] = @ \cup {n}] ELSE members
       ELSE UNCHANGED <<node, peers, silent, members>>
    /\ UNCHANGED <<outbox, upsets>>
-----------------------------------------------------------------------------
(* handle_sync_packet.  In a scan, mesh_task_scan then starts to join.     *)
RxSyncScanning(n) ==
    /\ Take(n, "SYNC") /\ node[n].state = "scanning"
    /\ node' = [node EXCEPT ![n] = [@ EXCEPT !.state = "joining",
                    !.coord = Head(rx_queue[n]).src, !.cmac = Head(rx_queue[n]).from]]
    /\ silent' = [silent EXCEPT ![n] = Refreshed(n, Head(rx_queue[n]).src)]
    /\ UNCHANGED <<peers, outbox, members, upsets>>

(* A participant follows its own coordinator only: it arms its frame timer *)
(* at the boundary the SYNC names.                                         *)
RxSyncParticipant(n) ==
    /\ Take(n, "SYNC") /\ Active(n) /\ IsParticipant(n)
    /\ LET pkt == Head(rx_queue[n]) IN
       IF pkt.src = node[n].coord /\ pkt.from = node[n].cmac
       THEN /\ node' = [node EXCEPT ![n].armed = TRUE]
            /\ silent' = [silent EXCEPT ![n] = Refreshed(n, pkt.src)]
       ELSE UNCHANGED <<node, silent>>
    /\ UNCHANGED <<peers, outbox, members, upsets>>

(* A coordinator yields to a lower address whose id is not its own:        *)
(* demote_to_participant.  A higher address is ignored.                    *)
Demote(n, pkt) ==
    /\ node' = [node EXCEPT ![n] =
         [Unassigned("joining") EXCEPT !.role = "participant", !.coord = pkt.src,
                !.cmac = pkt.from, !.count = 1, !.armed = TRUE]]
    /\ peers' = [peers EXCEPT ![n] =
         [i \in Index |-> IF i = 0 THEN [id |-> pkt.src, addr |-> pkt.from, slot |-> 0,
                                         active |-> TRUE]
                          ELSE [@[i] EXCEPT !.active = FALSE]]]
    /\ silent' = [silent EXCEPT ![n] = {}]
    /\ outbox' = [outbox EXCEPT ![n] = {}]
    /\ rx_queue' = [rx_queue EXCEPT ![n] = <<>>]

RxSyncCoordinator(n) ==
    /\ rx_queue[n] # <<>> /\ Head(rx_queue[n]).kind = "SYNC" /\ IsCoordinator(n)
    /\ LET pkt == Head(rx_queue[n]) IN
       IF pkt.src # node[n].id /\ pkt.from < n
       THEN Demote(n, pkt)
       ELSE /\ rx_queue' = [rx_queue EXCEPT ![n] = Tail(@)]
            /\ silent' = [silent EXCEPT ![n] =
                 IF pkt.src = node[n].id THEN Refreshed(n, pkt.src) ELSE @]
            /\ UNCHANGED <<node, peers, outbox>>
    /\ UNCHANGED <<members, upsets>>

(* In a join the SYNC of whichever coordinator only refreshes.             *)
RxSyncJoining(n) ==
    /\ Take(n, "SYNC") /\ node[n].state = "joining"
    /\ silent' = [silent EXCEPT ![n] = Refreshed(n, Head(rx_queue[n]).src)]
    /\ UNCHANGED <<node, peers, outbox, members, upsets>>

(* handle_keepalive_packet, handle_status_packet.                          *)
RxAlive(n) ==
    /\ Take(n, "ALIVE")
    /\ silent' = [silent EXCEPT ![n] = Refreshed(n, Head(rx_queue[n]).src)]
    /\ UNCHANGED <<node, peers, outbox, members, upsets>>

(* handle_slot_map_packet with mesh_core_slot_map_valid: the map starts    *)
(* with the coordinator, names no id twice and includes this node.         *)
SlotsOf(map, id) == {s \in Index : map[s] = id}
SlotIn(map, id)  == CHOOSE s \in SlotsOf(map, id) : TRUE
SlotMapValid(n, map) ==
    /\ map[0] = node[n].coord
    /\ \A id \in Ids : Cardinality(SlotsOf(map, id)) <= 1
    /\ SlotsOf(map, node[n].id) \ {0} # {}

RxSlotMap(n) ==
    /\ Take(n, "SLOT_MAP")
    /\ LET pkt == Head(rx_queue[n]) IN
       IF /\ Active(n) /\ IsParticipant(n) /\ pkt.src = node[n].coord
          /\ SlotMapValid(n, pkt.map)
       THEN /\ node' = [node EXCEPT ![n] =
                 [@ EXCEPT !.slot = SlotIn(pkt.map, node[n].id),
                           !.count = Cardinality({s \in Index : pkt.map[s] # 0}) - 1]]
            /\ peers' = [peers EXCEPT ![n] =
                 [i \in Index |-> IF @[i].active /\ SlotsOf(pkt.map, @[i].id) # {}
                                  THEN [@[i] EXCEPT !.slot = SlotIn(pkt.map, peers[n][i].id)]
                                  ELSE @[i]]]
       ELSE UNCHANGED <<node, peers>>
    /\ UNCHANGED <<silent, outbox, members, upsets>>

(* handle_leave_packet: the entry must match id and address; a coordinator *)
(* publishes its map in any case.  A packet with this node's own id is     *)
(* ignored.                                                                *)
MutLeaving(n, pkt) == {i \in Index : peers[n][i].active /\ peers[n][i].id = pkt.src}
Leaving(n, pkt) ==
    {i \in Index : peers[n][i].active /\ peers[n][i].id = pkt.src /\ peers[n][i].addr = pkt.from}

Without(table, gone) ==
    [i \in Index |-> IF i \in gone THEN [table[i] EXCEPT !.active = FALSE] ELSE table[i]]

Remove(n, gone) ==
    /\ peers' = [peers EXCEPT ![n] = Without(@, gone)]
    /\ silent' = [silent EXCEPT ![n] = @ \ gone]
    /\ node' = [node EXCEPT ![n].count = IF @ > Cardinality(gone) THEN @ - Cardinality(gone)
                                                                 ELSE 0]
    /\ outbox' = [outbox EXCEPT ![n] =
         IF IsCoordinator(n) THEN Queue(@, SlotMap(n, Without(peers[n], gone))) ELSE @]

RxLeave(n) ==
    /\ Take(n, "LEAVE")
    /\ LET pkt == Head(rx_queue[n]) IN
       IF pkt.src = node[n].id THEN UNCHANGED <<node, peers, silent, outbox>>
                               ELSE Remove(n, Leaving(n, pkt))
    /\ UNCHANGED <<members, upsets>>
-----------------------------------------------------------------------------
(* An entry of the table goes unheard for 3 s.  Its node may have gone;    *)
(* that a node which still transmits is not heard for so long is an upset. *)
StillHeard(n, i) ==
    LET m == peers[n][i].addr IN
    \/ node[m].state = "active" /\ node[m].armed /\ node[m].id = peers[n][i].id
    \/ IsCoordinator(n) /\ node[m].state \in {"scanning", "joining"}

Others(n) == {i \in Index : peers[n][i].active /\ peers[n][i].id # node[n].id}

PeerSilent(n) ==
    \E i \in Others(n) \ silent[n] :
        /\ Active(n) /\ Drained
        /\ StillHeard(n, i) => upsets < MaxUpsets
        /\ upsets' = IF StillHeard(n, i) THEN upsets + 1 ELSE upsets
        /\ silent' = [silent EXCEPT ![n] = @ \cup {i}]
        /\ UNCHANGED <<node, peers, outbox, rx_queue, members>>

(* check_peer_timeouts, for a table without the coordinator's entry ...    *)
PeerTimeout(n) ==
    LET gone == silent[n] \cap Others(n) IN
    /\ Active(n) /\ gone # {}
    /\ ~(IsParticipant(n) /\ \E i \in gone : peers[n][i].id = node[n].coord)
    /\ Remove(n, gone)
    /\ members' = [members EXCEPT ![n] = @ \ {peers[n][i].addr : i \in gone}]
    /\ UNCHANGED <<rx_queue, upsets>>

(* ... and for a participant whose coordinator timed out.                  *)
CoordinatorLost(n) ==
    /\ Active(n) /\ IsParticipant(n)
    /\ \E i \in silent[n] \cap Others(n) : peers[n][i].id = node[n].coord
    /\ node' = [node EXCEPT ![n] = Unassigned("scanning")]
    /\ ClearSession(n)
    /\ rx_queue' = [rx_queue EXCEPT ![n] = <<>>]
    /\ UNCHANGED upsets

Receive(n) ==
    \/ RxJoinKnown(n) \/ RxJoinNew(n) \/ RxJoinIgnored(n) \/ RxJoinAck(n)
    \/ RxSyncScanning(n) \/ RxSyncJoining(n) \/ RxSyncParticipant(n)
    \/ RxSyncCoordinator(n) \/ RxAlive(n) \/ RxSlotMap(n) \/ RxLeave(n)

Next == \E n \in Addr :
    \/ Start(n) \/ Stop(n) \/ SendJoin(n) \/ ScanTimeout(n) \/ JoinDeadline(n)
    \/ SendSync(n) \/ SendControl(n) \/ SendAlive(n) \/ Receive(n)
    \/ PeerSilent(n) \/ PeerTimeout(n) \/ CoordinatorLost(n)

Spec == Init /\ [][Next]_vars

(* The mesh task keeps running: it takes what it has received, notices     *)
(* silence and acts on its deadlines.                                      *)
FairSpec == /\ Spec
            /\ \A n \in Addr : /\ WF_vars(Receive(n)) /\ WF_vars(JoinDeadline(n))
                               /\ WF_vars(PeerSilent(n))
                               /\ WF_vars(PeerTimeout(n) \/ CoordinatorLost(n))
-----------------------------------------------------------------------------
PeerEntry == [id : 0..MaxNodes, addr : Addr \cup {NoAddr}, slot : Index, active : BOOLEAN]
PacketType ==
    [kind : {"JOIN", "JOIN_ACK", "SYNC", "ALIVE", "SLOT_MAP", "LEAVE"}, from : Addr,
     src : 0..MaxNodes, to : Addr \cup {NoAddr}, id : 0..MaxNodes, slot : Index,
     map : [Index -> 0..MaxNodes]]

(* Types of the state: ids, slots and counts stay within the table, queues *)
(* within their capacity.                                                  *)
TypeOK ==
    /\ node \in [Addr -> [state : {"idle", "scanning", "joining", "active"},
                          role : {"none", "coordinator", "participant"},
                          id : 0..MaxNodes, slot : -1..MaxNodes - 1, coord : 0..MaxNodes,
                          cmac : Addr \cup {NoAddr}, count : 0..MaxNodes, armed : BOOLEAN]]
    /\ peers \in [Addr -> [Index -> PeerEntry]]
    /\ silent \in [Addr -> SUBSET Index]
    /\ \A n \in Addr : outbox[n] \subseteq PacketType
    /\ \A n \in Addr : rx_queue[n] \in Seq(PacketType) /\ Len(rx_queue[n]) <= RxQueue
    /\ members \in [Addr -> SUBSET Addr]
    /\ upsets \in Nat

(* A coordinator's table: every entry, left or in use, sits at the index   *)
(* of its id, so that the packet of an id refreshes the entry in use under *)
(* that id although the lookup does not ask for it, and no address is      *)
(* listed twice; s_peer_count counts the entries in use.                   *)
CoordinatorTable ==
    \A n \in Addr : IsCoordinator(n) =>
        /\ \A i \in Index : peers[n][i].id \in {0, i + 1}
        /\ peers[n][0].addr = n /\ peers[n][0].active
        /\ \A i, j \in Index : (peers[n][i].active /\ peers[n][j].active
                                  /\ peers[n][i].addr = peers[n][j].addr) => i = j
        /\ node[n].count = Cardinality({i \in Index : peers[n][i].active})

(* A participant whose JOIN_ACK held when it took it, and which has not    *)
(* been silent for 3 s since, stays listed under the id and the slot it    *)
(* uses: repeated JOINs, SLOT_MAPs and LEAVEs, of this session or of       *)
(* another coordinator's, never split the two views.                       *)
MembersListed ==
    \A c \in Addr : \A n \in members[c] :
        \E i \in ActiveAt(c, n) :
            peers[c][i].id = node[n].id /\ peers[c][i].slot = node[n].slot

(* A node that scans has forgotten its last session, whichever way it left *)
(* it: no id, no slot, no coordinator, no peers and nothing left to send.  *)
CleanScan ==
    \A n \in Addr : node[n].state \in {"idle", "scanning"} =>
        /\ node[n] = Unassigned(node[n].state)
        /\ peers[n] = NoPeers /\ silent[n] = {} /\ outbox[n] = {}

(* docs/protocol.md:234: "Its general 3000 ms peer timeout also removes a  *)
(* missing coordinator and returns the node to scanning."  A participant   *)
(* whose coordinator is gone does not stay in its session for ever.        *)
Orphan(n) == /\ Active(n) /\ IsParticipant(n)
             /\ ~IsCoordinator(node[n].cmac)
MissingCoordinatorLeft == \A n \in Addr : Orphan(n) ~> ~Orphan(n)
=============================================================================
