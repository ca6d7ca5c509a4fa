--------------------------- MODULE NrfMembership ---------------------------
(***************************************************************************)
(* Membership of the nRF mesh: discovery and election, JOIN and JOIN_ACK,  *)
(* the coordinator's peer table, SLOT_MAPs and speaker grants, LEAVE, peer *)
(* and coordinator timeouts, and the merge of two coordinators             *)
(* (shared/mesh_membership.c, shared/mesh_core.c, nrf_mesh/src/            *)
(* mesh_protocol_membership.c, _runtime.c, _tx.c, _rx.c and the grants of  *)
(* _audio.c).                                                              *)
(*                                                                         *)
(* All protocol state of a node belongs to its system workqueue, so one    *)
(* work handler is one action; the radio's receive interrupt only fills    *)
(* rx_ring.  A transmission reaches any subset of the listening nodes.     *)
(* Timers fire at any time: a peer may have been silent for 3 s and SYNC   *)
(* for 5 s at every status tick.  TDMA decides when control_ring is sent   *)
(* and is left out, as are bitmaps, masks and telemetry.                   *)
(***************************************************************************)
EXTENDS Integers, Sequences, FiniteSets

CONSTANTS Addr,         \* radio addresses of the nodes; the lower one wins
          MaxNodes,     \* MESH_MAX_NODES
          MaxSpeakers,  \* MESH_MAX_ACTIVE_SPEAKERS
          JoinRetries,  \* JOIN_RETRY_COUNT
          CtrlRing,     \* usable entries of control_ring
          RxRing,       \* usable entries of rx_ring
          MaxUpsets,    \* bound: elections, stops, losses and spoken frames
          MaxAir,       \* bound: packets received and not yet processed
          TickBacklog   \* bound: control records left over when a status tick comes

ASSUME MembershipAssumption ==
    /\ Addr \subseteq Nat \ {0}
    /\ MaxNodes \in Nat /\ MaxNodes >= 2
    /\ {MaxSpeakers, JoinRetries, CtrlRing, RxRing, MaxUpsets, MaxAir, TickBacklog}
         \subseteq Nat

VARIABLES
    node,            \* the membership snapshot of each node
    peers,           \* s_peers
    join_attempts,
    speakers,        \* active_speaker_ids
    talking,         \* coordinator: ids heard speaking within 1.5 s
    control_ring, rx_ring,
    sponsor,         \* history: whose JOIN_ACK made the node active (0: none)
    forgotten,       \* history: addresses a coordinator removed from its table
    upsets

vars == <<node, peers, join_attempts, speakers, talking, control_ring, rx_ring,
          sponsor, forgotten, upsets>>

Ids    == 1..MaxNodes
Index  == 0..(MaxNodes - 1)      \* table entries, and slots
SpkIdx == 1..MaxSpeakers

NoAddr == 0
NoPeer == [id |-> 0, slot |-> -1, addr |-> NoAddr, st |-> "free"]
EmptyTable == [i \in Index |-> NoPeer]
NoSpeakers == [i \in SpkIdx |-> 0]
EmptyMap   == [s \in Index |-> 0]

(* peer_count is Unknown while participant_membership_known is false.      *)
Unknown == -1
Idle == [state |-> "idle", role |-> "none", node_id |-> 0, slot_index |-> -1,
         coordinator_id |-> 0, peer_count |-> 0]
Scanning == [Idle EXCEPT !.state = "scanning"]

Init ==
    /\ node = [n \in Addr |-> Idle]
    /\ peers = [n \in Addr |-> EmptyTable]
    /\ join_attempts = [n \in Addr |-> 0]
    /\ speakers = [n \in Addr |-> NoSpeakers]
    /\ talking = [n \in Addr |-> {}]
    /\ control_ring = [n \in Addr |-> <<>>]
    /\ rx_ring = [n \in Addr |-> <<>>]
    /\ sponsor = [n \in Addr |-> NoAddr]
    /\ forgotten = [n \in Addr |-> {}]
    /\ upsets = 0

Active(n) == node[n].state = "active"
IsCoordinator(n) == node[n].role = "coordinator"
IsParticipant(n) == node[n].role = "participant"

(* Table entries in use: "active" before the peer's first traffic,         *)
(* "announced" after it.                                                   *)
InUse(table) == {i \in Index : table[i].st # "free"}
AddrsOf(table) == {table[i].addr : i \in InUse(table)}
-----------------------------------------------------------------------------
(* Packets.  from is history except in SYNC, where it is coordinator_addr, *)
(* and in JOIN and LEAVE, which carry the sender's address.                *)
Packet(kind, n) ==
    [kind |-> kind, from |-> n, src |-> node[n].node_id, to |-> NoAddr,
     id |-> 0, slot |-> 0, slot_ids |-> EmptyMap, speaker_ids |-> NoSpeakers]

JoinAck(n, entry) ==
    [Packet("JOIN_ACK", n) EXCEPT !.to = entry.addr, !.id = entry.id,
                                  !.slot = entry.slot]

(* mesh_protocol_tx_send_slot_map: announced peers only.                   *)
SlotIds(table) ==
    [s \in Index |->
        LET owners == {i \in Index : table[i].st = "announced" /\ table[i].slot = s}
        IN  IF owners = {} THEN 0 ELSE table[CHOOSE i \in owners : TRUE].id]

SlotMap(n, table, spk) ==
    [Packet("SLOT_MAP", n) EXCEPT !.slot_ids = SlotIds(table), !.speaker_ids = spk]

Speak(kind, n, spk) == [Packet(kind, n) EXCEPT !.speaker_ids = spk]

(* mesh_protocol_tx_queue_control: a full ring rejects the record.         *)
QueueControl(ring, pkt) == IF Len(ring) < CtrlRing THEN Append(ring, pkt) ELSE ring

(* esb_radio_send reaches some of the listening nodes; a full rx_ring      *)
(* drops the packet.                                                       *)
Listeners(n) == {m \in Addr \ {n} : node[m].state # "idle" /\ Len(rx_ring[m]) < RxRing}
Heard(pkt, heard) ==
    [m \in Addr |-> IF m \in heard THEN Append(rx_ring[m], pkt) ELSE rx_ring[m]]
Receptions(n) == {heard \in SUBSET Listeners(n) :
                    Cardinality(heard) + Cardinality({m \in Addr : rx_ring[m] # <<>>}) <= MaxAir}
Broadcast(n, pkt) == \E heard \in Receptions(n) : rx_ring' = Heard(pkt, heard)

(* The next packet of n's rx_ring is of this kind and is taken.            *)
Take(n, kind) ==
    /\ rx_ring[n] # <<>> /\ Head(rx_ring[n]).kind = kind
    /\ rx_ring' = [rx_ring EXCEPT ![n] = Tail(@)]
-----------------------------------------------------------------------------
(* reset_session_data.                                                     *)
MutResetSession(n) ==
    /\ peers' = [peers EXCEPT ![n] = EmptyTable]
    /\ forgotten' = [forgotten EXCEPT ![n] = @ \cup AddrsOf(peers[n])]
    /\ speakers' = [speakers EXCEPT ![n] = NoSpeakers]
    /\ talking' = [talking EXCEPT ![n] = {}]
    /\ UNCHANGED control_ring

ResetSession(n) ==
    /\ peers' = [peers EXCEPT ![n] = EmptyTable]
    /\ forgotten' = [forgotten EXCEPT ![n] = @ \cup AddrsOf(peers[n])]
    /\ speakers' = [speakers EXCEPT ![n] = NoSpeakers]
    /\ talking' = [talking EXCEPT ![n] = {}]
    /\ control_ring' = [control_ring EXCEPT ![n] = <<>>]

(* mesh_protocol_start, on an ESP command.                                 *)
Start(n) ==
    /\ node[n].state = "idle"
    /\ node' = [node EXCEPT ![n].state = "scanning"]
    /\ UNCHANGED <<peers, join_attempts, speakers, talking, control_ring, rx_ring,
                   sponsor, forgotten, upsets>>

(* mesh_protocol_stop: LEAVE is sent directly, then everything is reset.   *)
Stop(n) ==
    /\ node[n].state # "idle" /\ upsets < MaxUpsets
    /\ \E heard \in IF Active(n) THEN Receptions(n) ELSE {{}} :
         rx_ring' = [Heard(Packet("LEAVE", n), heard) EXCEPT ![n] = <<>>]
    /\ node' = [node EXCEPT ![n] = Idle]
    /\ ResetSession(n)
    /\ sponsor' = [sponsor EXCEPT ![n] = NoAddr]
    /\ upsets' = upsets + 1
    /\ UNCHANGED join_attempts

(* mesh_protocol_membership_scan_work_handler.                             *)
ScanTimeout(n) ==
    /\ node[n].state = "scanning" /\ upsets < MaxUpsets
    /\ node' = [node EXCEPT ![n] = [state |-> "active", role |-> "coordinator",
                                    node_id |-> 1, slot_index |-> 0,
                                    coordinator_id |-> 1, peer_count |-> 0]]
    /\ peers' = [peers EXCEPT ![n][0] =
                    [id |-> 1, slot |-> 0, addr |-> n, st |-> "announced"]]
    /\ upsets' = upsets + 1
    /\ UNCHANGED <<join_attempts, speakers, talking, control_ring, rx_ring, sponsor,
                   forgotten>>

(* mesh_protocol_membership_join_work_handler: JOIN goes out directly; the *)
(* last attempt fails back to scanning.                                    *)
MutSendJoin(n) ==
    /\ node[n].state = "joining" /\ join_attempts[n] < JoinRetries
    /\ Broadcast(n, Packet("JOIN", n))
    /\ UNCHANGED <<node, peers, join_attempts, speakers, talking, control_ring, sponsor,
                   forgotten, upsets>>

SendJoin(n) ==
    /\ node[n].state = "joining" /\ join_attempts[n] < JoinRetries
    /\ join_attempts' = [join_attempts EXCEPT ![n] = @ + 1]
    /\ Broadcast(n, Packet("JOIN", n))
    /\ UNCHANGED <<node, peers, speakers, talking, control_ring, sponsor, forgotten, upsets>>

JoinTimeout(n) ==
    /\ node[n].state = "joining" /\ join_attempts[n] >= JoinRetries
    /\ node' = [node EXCEPT ![n] = [Scanning EXCEPT !.peer_count = node[n].peer_count]]
    /\ UNCHANGED <<peers, join_attempts, speakers, talking, control_ring, rx_ring,
                   sponsor, forgotten, upsets>>

(* mesh_protocol_tx_control_handler.                                       *)
SendSync(n) ==
    /\ Active(n) /\ IsCoordinator(n)
    /\ Broadcast(n, Packet("SYNC", n))
    /\ UNCHANGED <<node, peers, join_attempts, speakers, talking, control_ring, sponsor,
                   forgotten, upsets>>

SendControl(n) ==
    /\ Active(n) /\ control_ring[n] # <<>>
    /\ Broadcast(n, Head(control_ring[n]))
    /\ control_ring' = [control_ring EXCEPT ![n] = Tail(@)]
    /\ UNCHANGED <<node, peers, join_attempts, speakers, talking, sponsor, forgotten, upsets>>
-----------------------------------------------------------------------------
(* process_sync and reduce_sync.                                           *)
DiscoverCoordinator(n) ==
    /\ Take(n, "SYNC") /\ node[n].state = "scanning"
    /\ node' = [node EXCEPT ![n].state = "joining",
                            ![n].coordinator_id = Head(rx_ring[n]).src]
    /\ join_attempts' = [join_attempts EXCEPT ![n] = 0]
    /\ UNCHANGED <<peers, speakers, talking, control_ring, sponsor, forgotten, upsets>>

(* mesh_core_address_compare: the lower address wins.                      *)
Outranks(a, b) == a < b

MutDemoteCoordinator(n) ==
    /\ Take(n, "SYNC") /\ Active(n) /\ IsCoordinator(n)
    /\ Outranks(Head(rx_ring[n]).from, n) /\ Head(rx_ring[n]).src # node[n].node_id
    /\ node' = [node EXCEPT ![n] = [Idle EXCEPT !.state = "joining",
                                    !.coordinator_id = Head(rx_ring[n]).src]]
    /\ join_attempts' = [join_attempts EXCEPT ![n] = 0]
    /\ ResetSession(n)
    /\ UNCHANGED <<sponsor, upsets>>

DemoteCoordinator(n) ==
    /\ Take(n, "SYNC") /\ Active(n) /\ IsCoordinator(n)
    /\ Outranks(Head(rx_ring[n]).from, n)
    /\ node' = [node EXCEPT ![n] = [Idle EXCEPT !.state = "joining",
                                    !.coordinator_id = Head(rx_ring[n]).src]]
    /\ join_attempts' = [join_attempts EXCEPT ![n] = 0]
    /\ ResetSession(n)
    /\ UNCHANGED <<sponsor, upsets>>

(* Accepted by a participant (its clock follows), or ignored.              *)
KeepOnSync(n) ==
    /\ Take(n, "SYNC")
    /\ \/ node[n].state = "joining" \/ (Active(n) /\ IsParticipant(n))
       \/ (Active(n) /\ IsCoordinator(n) /\ ~Outranks(Head(rx_ring[n]).from, n))
    /\ UNCHANGED <<node, peers, join_attempts, speakers, talking, control_ring, sponsor,
                   forgotten, upsets>>

(* process_join: a known address keeps its entry, a new one gets the first *)
(* free id, and a full table is silent.                                    *)
Occupied(n) == {node[n].node_id} \cup {peers[n][i].id : i \in InUse(peers[n])}
FreeIds(n)  == Ids \ Occupied(n)
FirstFree(n) == CHOOSE id \in FreeIds(n) : \A other \in FreeIds(n) : id <= other
MutSlotForNodeId(id) == id
SlotForNodeId(id) == id - 1
FirstEntry(n) == {i \in Index \ InUse(peers[n]) : \A j \in Index \ InUse(peers[n]) : i <= j}
Assigned(n, addr) == [id |-> FirstFree(n), slot |-> SlotForNodeId(FirstFree(n)),
                      addr |-> addr, st |-> "active"]
WithEntry(n, entry) ==
    [i \in Index |-> IF i \in FirstEntry(n) THEN entry ELSE peers[n][i]]

Acknowledge(n, entry, table) ==
    control_ring' = [control_ring EXCEPT ![n] =
        QueueControl(QueueControl(@, JoinAck(n, entry)), SlotMap(n, table, speakers[n]))]

RxJoinKnown(n) ==
    /\ Take(n, "JOIN") /\ IsCoordinator(n)
    /\ \E i \in InUse(peers[n]) :
         /\ peers[n][i].addr = Head(rx_ring[n]).from
         /\ Acknowledge(n, peers[n][i], peers[n])
    /\ UNCHANGED <<node, peers, join_attempts, speakers, talking, sponsor, forgotten, upsets>>

RxJoinNew(n) ==
    /\ Take(n, "JOIN") /\ IsCoordinator(n)
    /\ Head(rx_ring[n]).from \notin AddrsOf(peers[n])
    /\ FreeIds(n) # {}
    /\ LET entry == Assigned(n, Head(rx_ring[n]).from)
       IN  /\ peers' = [peers EXCEPT ![n] = WithEntry(n, entry)]
           /\ Acknowledge(n, entry, WithEntry(n, entry))
    /\ UNCHANGED <<node, join_attempts, speakers, talking, sponsor, forgotten, upsets>>

RxJoinIgnored(n) ==
    /\ Take(n, "JOIN")
    /\ \/ ~IsCoordinator(n)
       \/ Head(rx_ring[n]).from \notin AddrsOf(peers[n]) /\ FreeIds(n) = {}
    /\ UNCHANGED <<node, peers, join_attempts, speakers, talking, control_ring, sponsor,
                   forgotten, upsets>>

(* process_join_ack and join_ack_valid.                                    *)
MutJoinAckValid(n, pkt) ==
    /\ node[n].state = "joining"
    /\ pkt.id \in Ids /\ pkt.slot > 0 /\ pkt.slot < MaxNodes
    /\ pkt.src \in Ids /\ pkt.id # pkt.src
    /\ node[n].coordinator_id \in {0, pkt.src}

JoinAckValid(n, pkt) ==
    /\ node[n].state = "joining"
    /\ pkt.to = n
    /\ pkt.id \in Ids /\ pkt.slot > 0 /\ pkt.slot < MaxNodes
    /\ pkt.src \in Ids /\ pkt.id # pkt.src
    /\ node[n].coordinator_id \in {0, pkt.src}

RxJoinAck(n) ==
    /\ Take(n, "JOIN_ACK")
    /\ LET pkt == Head(rx_ring[n])
       IN  IF JoinAckValid(n, pkt)
           THEN /\ node' = [node EXCEPT ![n] =
                     [state |-> "active", role |-> "participant", node_id |-> pkt.id,
                      slot_index |-> pkt.slot, coordinator_id |-> pkt.src,
                      peer_count |-> Unknown]]
                /\ sponsor' = [sponsor EXCEPT ![n] = pkt.from]
           ELSE UNCHANGED <<node, sponsor>>
    /\ UNCHANGED <<peers, join_attempts, speakers, talking, control_ring, forgotten, upsets>>

(* slot_map_valid, given the local id and the coordinator's.               *)
Members(pkt) == {pkt.slot_ids[s] : s \in Index} \ {0}
SpeakerCount(pkt) == Cardinality({i \in SpkIdx : pkt.speaker_ids[i] # 0})
SlotMapValid(pkt, id, coordinator) ==
    /\ pkt.slot_ids[0] = coordinator
    /\ \A s, t \in Index : pkt.slot_ids[s] = pkt.slot_ids[t] /\ s # t => pkt.slot_ids[s] = 0
    /\ \E s \in Index \ {0} : pkt.slot_ids[s] = id
    /\ \A i \in 1..SpeakerCount(pkt) : pkt.speaker_ids[i] \in Members(pkt)
    /\ \A i, j \in 1..SpeakerCount(pkt) : i # j => pkt.speaker_ids[i] # pkt.speaker_ids[j]

(* The first active_speaker_count ids of a SLOT_MAP or SPEAKER_GRANT.      *)
Granted(pkt) ==
    [i \in SpkIdx |-> IF i <= SpeakerCount(pkt) THEN pkt.speaker_ids[i] ELSE 0]

(* The slot that a valid map gives the local id.                           *)
MutLocalSlot(pkt, id) == (CHOOSE s \in Index : pkt.slot_ids[s] = id) - 1
LocalSlot(pkt, id) == CHOOSE s \in Index : pkt.slot_ids[s] = id

RxSlotMap(n) ==
    /\ Take(n, "SLOT_MAP")
    /\ LET pkt == Head(rx_ring[n])
       IN  IF /\ Active(n) /\ IsParticipant(n) /\ pkt.src = node[n].coordinator_id
              /\ SlotMapValid(pkt, node[n].node_id, node[n].coordinator_id)
           THEN /\ node' = [node EXCEPT
                     ![n].slot_index = LocalSlot(pkt, node[n].node_id),
                     ![n].peer_count = Cardinality(Members(pkt)) - 1]
                /\ speakers' = [speakers EXCEPT ![n] = Granted(pkt)]
           ELSE UNCHANGED <<node, speakers>>
    /\ UNCHANGED <<peers, join_attempts, talking, control_ring, sponsor, forgotten, upsets>>
-----------------------------------------------------------------------------
(* mesh_protocol_update_peer_last_seen: the first traffic with a peer's id *)
(* announces the peer.  RingAfter is the control ring after it.            *)
MutUnannounced(n, id) ==
    {i \in InUse(peers[n]) : IsCoordinator(n) /\ peers[n][i].id = id}

Unannounced(n, id) ==
    {i \in Index : IsCoordinator(n) /\ peers[n][i].st = "active" /\ peers[n][i].id = id}

Announce(n, id) ==
    [i \in Index |-> IF i \in Unannounced(n, id)
                     THEN [peers[n][i] EXCEPT !.st = "announced"] ELSE peers[n][i]]

RingAfter(n, id) ==
    IF Unannounced(n, id) = {} THEN control_ring[n]
    ELSE QueueControl(control_ring[n], SlotMap(n, Announce(n, id), speakers[n]))

HearPeer(n, id) ==
    /\ peers' = [peers EXCEPT ![n] = Announce(n, id)]
    /\ node' = [node EXCEPT ![n].peer_count = @ + Cardinality(Unannounced(n, id))]

(* process_status, or a KEEPALIVE.                                         *)
RxAlive(n) ==
    /\ Take(n, "STATUS") \/ Take(n, "KEEPALIVE")
    /\ HearPeer(n, Head(rx_ring[n]).src)
    /\ control_ring' = [control_ring EXCEPT ![n] = RingAfter(n, Head(rx_ring[n]).src)]
    /\ UNCHANGED <<join_attempts, speakers, talking, sponsor, forgotten, upsets>>

(* mesh_core_select_speakers: granted speakers that still talk keep their  *)
(* place, then other talkers fill up.  Who spoke first is left open.       *)
Selections(prev, talk) ==
    LET kept == SelectSeq(prev, LAMBDA id : id \in talk)
        count == IF Cardinality(talk) < MaxSpeakers THEN Cardinality(talk) ELSE MaxSpeakers
    IN  {sel \in [SpkIdx -> 0..MaxNodes] :
            /\ \A i \in SpkIdx : IF i <= count THEN sel[i] \in talk ELSE sel[i] = 0
            /\ \A i, j \in 1..count : i # j => sel[i] # sel[j]
            /\ \A i \in 1..Len(kept) : sel[i] = kept[i]}

(* mesh_protocol_audio_update_speaker_grants: a changed selection, or a    *)
(* changed relay mask, is published.                                       *)
Released(prev, sel) ==
    [i \in SpkIdx |-> IF \E j \in SpkIdx : sel[j] = prev[i] THEN 0 ELSE prev[i]]

GrantRing(n, sel, masks, ring) ==
    LET released == Released(speakers[n], sel)
        ring1 == IF released = NoSpeakers THEN ring
                 ELSE QueueControl(ring, Speak("SPEAKER_RELEASE", n, released))
    IN  IF sel # speakers[n] \/ (masks = "changed" /\ sel # NoSpeakers)
        THEN QueueControl(ring1, Speak("SPEAKER_GRANT", n, sel)) ELSE ring

Masks == {"same", "changed"}

UpdateSpeakerGrants(n, talk, ring) ==
    \E sel \in Selections(speakers[n], talk), masks \in Masks :
        /\ speakers' = [speakers EXCEPT ![n] = sel]
        /\ control_ring' = [control_ring EXCEPT ![n] = GrantRing(n, sel, masks, ring)]

(* Audio of a joined node, in its slot; the coordinator's reception of it. *)
(* What the others keep of it has no part in membership.                   *)
SendAudio(n) ==
    /\ Active(n) /\ MaxSpeakers > 0 /\ upsets < MaxUpsets
    /\ Broadcast(n, Packet("AUDIO", n))
    /\ upsets' = upsets + 1
    /\ UNCHANGED <<node, peers, join_attempts, speakers, talking, control_ring, sponsor,
                   forgotten>>

RxAudio(n) ==
    /\ Take(n, "AUDIO") /\ IsCoordinator(n)
    /\ Head(rx_ring[n]).src # node[n].node_id
    /\ HearPeer(n, Head(rx_ring[n]).src)
    /\ talking' = [talking EXCEPT ![n] = @ \cup {Head(rx_ring[n]).src}]
    /\ UpdateSpeakerGrants(n, talking'[n], RingAfter(n, Head(rx_ring[n]).src))
    /\ UNCHANGED <<join_attempts, sponsor, forgotten, upsets>>

RxAudioIgnored(n) ==
    /\ Take(n, "AUDIO")
    /\ ~IsCoordinator(n) \/ Head(rx_ring[n]).src = node[n].node_id
    /\ UNCHANGED <<node, peers, join_attempts, speakers, talking, control_ring, sponsor,
                   forgotten, upsets>>

(* process_audio_ingress on the coordinator: its own rider speaks.         *)
LocalAudio(n) ==
    /\ Active(n) /\ IsCoordinator(n) /\ MaxSpeakers > 0 /\ upsets < MaxUpsets
    /\ talking' = [talking EXCEPT ![n] = @ \cup {node[n].node_id}]
    /\ UpdateSpeakerGrants(n, talking'[n], control_ring[n])
    /\ upsets' = upsets + 1
    /\ UNCHANGED <<node, peers, join_attempts, rx_ring, sponsor, forgotten>>

(* ACTIVE_SPEAKER_TIMEOUT_MS without speech.                               *)
TalkExpires(n) ==
    /\ \E id \in talking[n] : talking' = [talking EXCEPT ![n] = @ \ {id}]
    /\ UNCHANGED <<node, peers, join_attempts, speakers, control_ring, rx_ring, sponsor,
                   forgotten, upsets>>

RxGrant(n) ==
    /\ Take(n, "SPEAKER_GRANT")
    /\ speakers' = IF Head(rx_ring[n]).src = node[n].coordinator_id
                   THEN [speakers EXCEPT ![n] = Granted(Head(rx_ring[n]))] ELSE speakers
    /\ UNCHANGED <<node, peers, join_attempts, talking, control_ring, sponsor, forgotten,
                   upsets>>

RxRelease(n) ==
    /\ Take(n, "SPEAKER_RELEASE")
    /\ LET pkt == Head(rx_ring[n])
           named == {pkt.speaker_ids[i] : i \in SpkIdx} \ {0}
       IN  speakers' = IF pkt.src # node[n].coordinator_id THEN speakers
                       ELSE [speakers EXCEPT ![n] =
                              [i \in SpkIdx |-> IF @[i] \in named THEN 0 ELSE @[i]]]
    /\ UNCHANGED <<node, peers, join_attempts, talking, control_ring, sponsor, forgotten,
                   upsets>>
-----------------------------------------------------------------------------
(* Entries of the table that leave it.                                     *)
Without(table, gone) == [i \in Index |-> IF i \in gone THEN NoPeer ELSE table[i]]
CountAfter(n, gone) ==
    LET left == {i \in gone : peers[n][i].st = "announced"}
    IN  IF node[n].peer_count >= Cardinality(left)
        THEN node[n].peer_count - Cardinality(left) ELSE 0

RemovePeers(n, gone) ==
    /\ peers' = [peers EXCEPT ![n] = Without(@, gone)]
    /\ node' = [node EXCEPT ![n].peer_count = IF gone = {} THEN @ ELSE CountAfter(n, gone)]
    /\ forgotten' = [forgotten EXCEPT ![n] = @ \cup {peers[n][i].addr : i \in gone}]

(* process_leave: the sender's id must be in the table with its address.   *)
Leavers(n, pkt) ==
    {i \in InUse(peers[n]) : /\ pkt.src # node[n].node_id /\ pkt.src \in Ids
                             /\ peers[n][i].id = pkt.src /\ peers[n][i].addr = pkt.from}

RxLeave(n) ==
    /\ Take(n, "LEAVE")
    /\ LET gone == Leavers(n, Head(rx_ring[n]))
       IN  /\ RemovePeers(n, gone)
           /\ control_ring' = [control_ring EXCEPT ![n] =
                IF gone = {} \/ ~IsCoordinator(n) THEN @
                ELSE QueueControl(@, SlotMap(n, Without(peers[n], gone), speakers[n]))]
    /\ UNCHANGED <<join_attempts, speakers, talking, sponsor, upsets>>

(* status_work_handler with check_peer_timeouts.  The speech timeout and   *)
(* one status interval together are shorter than the peer timeout, so a    *)
(* peer that has been silent for 3 s neither talks nor holds a grant.      *)
MaySilence(n) ==
    {i \in InUse(peers[n]) : /\ peers[n][i].id \notin {node[n].node_id, node[n].coordinator_id}
                             /\ peers[n][i].id \notin talking[n]
                             /\ \A k \in SpkIdx : speakers[n][k] # peers[n][i].id}

StatusRing(n, gone) ==
    IF gone = {} \/ ~IsCoordinator(n) THEN control_ring[n]
    ELSE QueueControl(control_ring[n], SlotMap(n, Without(peers[n], gone), speakers[n]))

Heartbeat(n, ring) ==
    QueueControl(QueueControl(ring, Packet("STATUS", n)), Packet("KEEPALIVE", n))

StatusTick(n) ==
    /\ Active(n) /\ Len(control_ring[n]) <= TickBacklog
    /\ \E gone \in SUBSET MaySilence(n) :
         /\ gone # {} => upsets < MaxUpsets
         /\ RemovePeers(n, gone)
         /\ upsets' = IF gone = {} THEN upsets ELSE upsets + 1
         /\ IF IsCoordinator(n)
            THEN \E sel \in Selections(speakers[n], talking[n]), masks \in Masks :
                   /\ speakers' = [speakers EXCEPT ![n] = sel]
                   /\ control_ring' = [control_ring EXCEPT ![n] =
                        Heartbeat(n, GrantRing(n, sel, masks, StatusRing(n, gone)))]
            ELSE /\ control_ring' = [control_ring EXCEPT ![n] = Heartbeat(n, @)]
                 /\ UNCHANGED speakers
    /\ UNCHANGED <<join_attempts, talking, rx_ring, sponsor>>

(* The same handler finds no SYNC for SYNC_TIMEOUT_MS: the records it has  *)
(* just queued are dropped with the session.                               *)
CoordinatorLost(n) ==
    /\ Active(n) /\ IsParticipant(n) /\ upsets < MaxUpsets
    /\ ResetSession(n)
    /\ node' = [node EXCEPT ![n] = Scanning]
    /\ sponsor' = [sponsor EXCEPT ![n] = NoAddr]
    /\ upsets' = upsets + 1
    /\ UNCHANGED <<join_attempts, rx_ring>>

Receive(n) ==
    \/ DiscoverCoordinator(n) \/ DemoteCoordinator(n) \/ KeepOnSync(n)
    \/ RxJoinKnown(n) \/ RxJoinNew(n) \/ RxJoinIgnored(n)
    \/ RxJoinAck(n) \/ RxSlotMap(n) \/ RxAlive(n) \/ RxLeave(n)
    \/ RxAudio(n) \/ RxAudioIgnored(n) \/ RxGrant(n) \/ RxRelease(n)

Step(n) ==
    \/ Start(n) \/ Stop(n) \/ ScanTimeout(n) \/ SendJoin(n) \/ JoinTimeout(n)
    \/ SendSync(n) \/ SendControl(n) \/ Receive(n)
    \/ SendAudio(n) \/ LocalAudio(n) \/ TalkExpires(n)
    \/ StatusTick(n) \/ CoordinatorLost(n)

Next == \E n \in Addr : Step(n)

Spec == Init /\ [][Next]_vars

(* A coordinator sends SYNC every 200 ms and not every one is lost; joins  *)
(* are retried every 500 ms; the workqueue runs.  Nothing is assumed of    *)
(* the other packets.                                                      *)
SyncReaches(a, b) == SendSync(a) /\ rx_ring'[b] # rx_ring[b]
Fairness ==
    /\ \A n \in Addr : WF_vars(Receive(n)) /\ WF_vars(SendJoin(n) \/ JoinTimeout(n))
    /\ \A a, b \in Addr : SF_vars(SyncReaches(a, b))

FairSpec == Spec /\ Fairness
-----------------------------------------------------------------------------
Snapshots == [state : {"idle", "scanning", "joining", "active"},
              role : {"none", "coordinator", "participant"},
              node_id : 0..MaxNodes, slot_index : -1..(MaxNodes - 1),
              coordinator_id : 0..MaxNodes, peer_count : Int]
Entries == [id : 0..MaxNodes, slot : -1..(MaxNodes - 1), addr : Addr \cup {NoAddr},
            st : {"free", "active", "announced"}]
Kinds   == {"SYNC", "JOIN", "JOIN_ACK", "SLOT_MAP", "STATUS", "KEEPALIVE", "LEAVE",
            "AUDIO", "SPEAKER_GRANT", "SPEAKER_RELEASE"}
Packets == [kind : Kinds, from : Addr, src : 0..MaxNodes, to : Addr \cup {NoAddr},
            id : 0..MaxNodes, slot : -1..(MaxNodes - 1),
            slot_ids : [Index -> 0..MaxNodes], speaker_ids : [SpkIdx -> 0..MaxNodes]]

(* Every variable stays in its domain.                                     *)
TypeOK ==
    /\ node \in [Addr -> Snapshots]
    /\ peers \in [Addr -> [Index -> Entries]]
    /\ join_attempts \in [Addr -> Nat]
    /\ speakers \in [Addr -> [SpkIdx -> 0..MaxNodes]]
    /\ talking \in [Addr -> SUBSET (0..MaxNodes)]
    /\ control_ring \in [Addr -> Seq(Packets)]
    /\ rx_ring \in [Addr -> Seq(Packets)]
    /\ sponsor \in [Addr -> Addr \cup {NoAddr}]
    /\ forgotten \in [Addr -> SUBSET (Addr \cup {NoAddr})]
    /\ upsets \in Nat

InTable(n, i, entry) ==
    /\ entry.id \in Ids /\ entry.slot = entry.id - 1
    /\ entry.addr \in Addr
    /\ entry.id = node[n].node_id <=> i = 0
    /\ entry.addr = n <=> i = 0

Announced(table) == {i \in Index \ {0} : table[i].st = "announced"}

CoordinatorTable(n) ==
    /\ node[n].state = "active" /\ node[n].node_id = 1
    /\ peers[n][0].st = "announced"
    /\ \A i \in InUse(peers[n]) : InTable(n, i, peers[n][i])
    /\ \A i, j \in InUse(peers[n]) :
         i # j => /\ peers[n][i].id # peers[n][j].id
                  /\ peers[n][i].addr # peers[n][j].addr
    /\ node[n].peer_count = Cardinality(Announced(peers[n]))

(* A coordinator's peer table assigns each id, with its slot id - 1, and   *)
(* each address once, keeps id 1 for the coordinator itself in entry 0,    *)
(* and peer_count is the number of announced peers without itself.  Every  *)
(* path that stops being coordinator leaves the table empty ("Slot         *)
(* ownership is fixed", docs/tdma.md:51).                                  *)
PeerTable ==
    \A n \in Addr : IF IsCoordinator(n) THEN CoordinatorTable(n)
                    ELSE peers[n] = EmptyTable

(* Only nodes inside a session have control records to send: demotion,     *)
(* coordinator loss and stop drop them.                                    *)
OnlyActiveSend == \A n \in Addr : ~Active(n) => control_ring[n] = <<>> /\ talking[n] = {}

(* A participant that its coordinator has not removed since it first       *)
(* joined is in the coordinator's table under the id it uses: repeated     *)
(* JOINs, lost or late JOIN_ACKs and ids freed for others never split the  *)
(* two views.                                                              *)
AssignmentHonoured ==
    \A n \in Addr : LET c == sponsor[n] IN
        (c # NoAddr /\ n \notin forgotten[c]) =>
            \E i \in InUse(peers[c]) :
                peers[c][i].addr = n /\ peers[c][i].id = node[n].node_id

(* Who transmits in the slots that c hands out: c itself, and the nodes it *)
(* admitted and has not removed.                                           *)
InMesh(c, n) == \/ n = c /\ IsCoordinator(c)
                \/ sponsor[n] = c /\ n \notin forgotten[c]

(* No two nodes of a mesh own the same slot: docs/tdma.md:51, "Slot        *)
(* ownership is fixed", is about the nodes' own view, which the table, the *)
(* JOIN_ACKs under way and the SLOT_MAPs must agree on.                    *)
SlotsDisjoint ==
    \A c, a, b \in Addr :
        a # b /\ InMesh(c, a) /\ InMesh(c, b) => node[a].slot_index # node[b].slot_index

(* docs/architecture.md:195: "The SLOT_MAP reports current membership,     *)
(* grants, and relay masks": a grant in a published map is a member's.     *)
(* Every participant rejects a map in which it is not (slot_map_valid).    *)
PublishedGrantsAreMembers ==
    \A n \in Addr : \A i \in DOMAIN control_ring[n] :
        LET pkt == control_ring[n][i] IN
        pkt.kind = "SLOT_MAP" =>
            \A k \in 1..SpeakerCount(pkt) : pkt.speaker_ids[k] \in Members(pkt)

(* docs/tdma.md:230: two coordinators that hear each other do not stay two.*)
CoordinatorsMerge ==
    \A a, b \in Addr : a # b =>
        (IsCoordinator(a) /\ IsCoordinator(b)) ~> ~(IsCoordinator(a) /\ IsCoordinator(b))

(* A join ends, in a session or back in scanning.                          *)
JoinEnds ==
    \A n \in Addr : (node[n].state = "joining") ~> (node[n].state # "joining")
=============================================================================
