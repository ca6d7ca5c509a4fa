# Verification of the Open Motorcycle Intercom firmware

TLA+ specifications of the protocol core of the intercom: the SPI bridge between
the ESP32 and the nRF52840 in both directions, the membership protocol and the slot
transmission of the nRF mesh, the fallback mesh over ESP-NOW, and the way a press of
the button reaches the radio.
They are model-checked with TLC on small instances; the results that matter most
are proved with TLAPS for every value of the constants.

## 1. The system

A headset has two processors. The **ESP32** captures and plays audio, runs the
application and talks to the **nRF** over SPI (the nRF is SPI master and polls).
The **nRF** runs a proprietary radio (ESB) with a TDMA schedule. One node of a
mesh is coordinator, owns slot 0 and id 1, sends SYNC, assigns ids and slots and
grants speakers. A fallback build without nRF runs a mesh over ESP-NOW on the ESP.

| Component | State | Operations | Interacts with |
|---|---|---|---|
| ESP SPI bridge (`components/uart_bridge`) | audio ring with two counting semaphores, control slot, frame in flight, ACK wait, status registry, command exchange | send audio, queue control, prepare DMA, parse, ACK interrupt, status expiry, purge, probe, commands | audio tasks, SPI task, GPIO interrupt, nRF bridge |
| nRF SPI bridge (`nrf_mesh/src/uart_bridge.c`) | last audio sequence, control and audio queues to the ESP, ACK line | poll, parse, queue event/status/ACK/audio | ESP bridge, mesh protocol |
| Shared membership rules (`shared/mesh_membership.c`) | none (pure reducer on a snapshot) | reduce SYNC, JOIN_ACK, SLOT_MAP, LEAVE | both meshes |
| nRF membership (`mesh_protocol_membership.c`, `_runtime.c`, `_tx.c`, `_rx.c`) | snapshot, peer table, join attempts, control ring, receive ring | start, stop, scan, join, all packet handlers, status tick, peer and coordinator timeouts | radio interrupt, workqueue, TDMA, SPI bridge |
| nRF mesh audio (`mesh_protocol_audio.c`) | ingress queue, transmit ring, relay ring, grants, deferral | ingress, slot transmission, relay, reception, grants | TDMA callbacks, SPI bridge |
| nRF TDMA (`tdma.c`) | frame counter, timers, generation, sync state | start, stop, acquire, slot and control callbacks, sync | timers, workqueue |
| Shared mesh core (`shared/mesh_core.c`) | dedupe cache, sequence trackers | id assignment, dedupe, windows, relay masks, speaker selection, airtime | both meshes |
| ESP-NOW mesh (`components/mesh`) | session, peers, transmit queue, TDMA | scan, join, leave, handlers, timeouts | Wi-Fi callbacks, mesh task |
| Audio (`components/audio`, `shared/audio_*`) | packet store, source selection, playout clock, capture | receive, select, recover, play out, capture, VOX | bridge and mesh callbacks, audio tasks |
| Application (`main`) | transport, desired mesh state | intent, mute, transport callbacks | all of the above |
| Power, button, hardware test | battery and sleep state, click state | polling tasks | application |

What is hard in this code:

* **Interleaving.** The ESP bridge is driven by two or more tasks on two cores and
  an interrupt, under three different locks and two semaphores. On the nRF, radio
  interrupts fill a ring that the workqueue empties, timer interrupts submit work that
  may belong to a schedule already replaced, and the SPI thread and the workqueue share
  queues. The ESP-NOW mesh has five threads that a stop must bring to rest.
* **Unreliable delivery.** Radio packets are lost for some receivers and not for
  others; an ACK edge can be missed; JOIN_ACKs answer JOINs of an earlier attempt.
* **Timeouts and retries.** 50 ms ACK timeout against a late ACK, 5 s status expiry
  against a fresh status, JOIN retries, 3 s peer and 5 s coordinator timeouts.
* **Sequence numbers.** 8 bits on the wire, shared between audio and control frames,
  compared for equality only.
* **Restarts.** Either processor restarts while the other keeps its state.

Correctness, by component:

* ESP bridge and nRF bridge: no ring slot is leaked or given twice; the path is an
  ordered lossy channel; a lost ACK never stalls it.
* Membership: ids, slots and addresses are unique in a coordinator's table;
  coordinator and participants agree on who has which id; nothing of an old session
  is sent in a new one; two coordinators merge; a join ends.
* Outbound rings of the nRF: overflow, retries and the commit after a transfer may lose
  records but never reorder or miscount one, and repeat one only if its transfer failed
  for the nRF and not for the ESP.
* Application and commands: an acknowledged command was applied; the radio ends up as
  the rider asked, after losses and restarts, unless every attempt to tell it was upset;
  no tone contradicts the intent.
* Slot transmission and TDMA: deferring own speech for a relay neither loses, repeats
  nor reorders it; a relay that waits gets its turn while the node itself talks; no window
  opens on a schedule without SYNC.
* ESP-NOW mesh: tables and identities agree as above; a stop ends and leaves nothing
  behind; what was heard and relayed is reported.
* Audio store: see the plan.

## 2. Modules

| Module | Models | Kind |
|---|---|---|
| `AudioChannel` | what the audio path to the nRF promises: order, loss, no repetition | abstract specification |
| `RetryChannel` | what the outbound rings promise: order, loss, the newest record again until confirmed | abstract specification |
| `SpiAudioBridge` | ESP ring, DMA staging, ACK, status gate and purges; nRF admission | component |
| `SpiAudioBridge_proof` | slot conservation, order, false duplicates, refinement of `AudioChannel` | proofs |
| `NrfOutbound` | the nRF's control and audio rings to the ESP, and their transfer | component |
| `NrfOutbound_proof` | accounting, contents, commit, refinement of `RetryChannel` | proofs |
| `MeshLifecycle` | button, intent, reconciliation, command exchange, nRF command worker | composition of the application, both bridge ends and the worker |
| `MeshLifecycle_proof` | tones follow the intent, an acknowledged command was applied | proofs |
| `NrfMembership` | nRF mesh membership and speaker grants of all nodes | component |
| `NrfMembership_proof` | peer table, no traffic of ended sessions, assignments, slots | proofs |
| `NrfSlotTx` | the TDMA schedule of an nRF node and what it sends in its slot | component |
| `NrfSlotTx_proof` | schedule, accounting and order of deferred speech, turns | proofs |
| `EspNowSession` | session protocol of the ESP-NOW mesh, all nodes | component |
| `EspNowSession_proof` | tables, members, clean scans, coordinators that never yield | proofs |
| `EspNowTransport` | threads, queues, timers and stop of one ESP-NOW node | component |
| `EspNowTransport_proof` | what a stop leaves behind, old schedules, status bits | proofs |

The `.cfg` files give the constants their values directly; no definition is
replaced. Definitions named `Mut...` are deliberately wrong variants of the
definition that follows them (a dropped guard, a missing reset); no specification
uses one. Each shows that a property notices the bug it describes.

### SpiAudioBridge

Actors: the SPI slave task (`spi_pc`), the audio producer (`prod_pc`), a task
queueing control frames (`ctrl_pc`), a task that finds the status expired
(`reader_pc`), the ACK interrupt, and the nRF poll loop (`nrf_pc`). One action is one
section under a lock (`tx_mutex`, the ACK spinlock or the status spinlock);
everything in between may interleave. `audio_q`, `slots_free`, `slots_used` are the
ring and its semaphores, `inflight` with `ack_wait` the stop-and-wait state,
`link`, `mesh_state` and `generation` the status registry. The nRF keeps
`last_seq`, admits a frame, or takes it for a duplicate, or rejects it while
ingress is disabled; it pulses the ACK line, whose edge may be missed and whose
interrupt may run later (`ack_line`). `EspReboot` resets the ESP and not the nRF.
History: `encoded`, `accepted`, `admitted`.

`ChannelSpec` is `AudioChannel` with `delivered` instantiated by the frames the nRF
admitted: the detailed specification implements the ordered lossy channel.

### NrfOutbound

`q`, `head`, `tail` are the two rings, `overwrite` and `transmitted` their counters.
`Enqueue` is `queue_control_packet` (or its audio twin) under `s_tx_lock`; `Peek`,
`TransferDone`/`TransferFail` and `Commit` are the three parts of
`uart_bridge_process`, with the lock released during the transfer, when the SPI thread
waits and the workqueue runs. `burst` counts the records queued since the peek: it is
history, and the condition under which the commit's index comparison is sound.

The result of `spi_transceive` is the master's alone. After a success the ESP may still
have rejected the frame, and after an error it may have decoded it (`Received`); the
record then stays queued and is sent again, and `bridge_rx_parse` has no duplicate check.
So "never twice" would be false; what does hold is `RetryChannel`: a record comes again
only until a transfer has succeeded, and never behind a newer one. `unconfirmed` is
history, the rings whose newest decoded record has had no successful transfer since;
`repeats` counts the failed transfers that were decoded, for the bound `MaxRepeats`.
Each ring refines `RetryChannel`.

### MeshLifecycle

Actors: the button task (`button_pc`), the application loop (`main_pc`), the ESP's SPI
task and its callbacks (`spi_pc`), the nRF's SPI thread (`incoming`) and command worker
(`request`). A step is a section under `s_membership_mutex` or the status lock, or a run
of accesses that no other actor can tell from a single one; the intent is read where the
code reads it, three times in one pass of the loop, and `s_reconcile_attempts++` is a
read and a write. On the nRF both threads are cooperative and of the same priority, so
passing a request on, and working it off, are single steps. `EspReset` keeps NVS only,
`NrfReset` keeps nothing.

Abstractions: JOINING counts as scanning; the queue of notifications is one Boolean for
the "enabled" tone; the ring is drained in order (what `NrfOutbound` allows beyond that
is loss, which `Poll` has, and a record that comes again after a failed transfer, which
`PollFailed` has). A failed poll that reaches nobody is left out: it changes nothing.
Left out: peer counts with their tones, the bus
reinitialisation of a failed probe, the fallback to ESP-NOW, legacy firmware.

### NrfMembership

All protocol state of a node belongs to its system workqueue, so a work handler is
one action; the interrupt only appends to `rx_ring`. A transmission appends the
packet to any subset of the listeners' rings, which covers loss, partial
reception and delay. `node[n]` is the snapshot that `mesh_membership_reduce`
works on, `peers[n]` the table. A table entry is "active" between JOIN and the
peer's first traffic, then "announced", as in `mesh_protocol_update_peer_last_seen`.
Timers may fire at any moment: a status tick may find any silent peer timed out, a
participant any SYNC gap. `sponsor` and `forgotten` are history: whose JOIN_ACK a
node uses, and which addresses a coordinator has removed.

Left out: TDMA timing (when a control record is sent), relay masks and bitmaps
(only whether they changed, since that decides whether a grant is published),
telemetry, RTT probes.

### NrfSlotTx

One node, three contexts: the SPI thread fills `ingress`, timer interrupts arm and
submit (`timer`, `due`), the workqueue runs one handler at a time and owns the transmit
ring, the relay ring and the turn between them. `acquire_sync` releases its lock between
two sections, and `tdma_stop` before it stops the timers; an interrupt may come there, so
each is two steps (`handler`). Generations are only compared with the current one, hence
`current`. `SlotTx` is `slot_tx_handler`, one disjunct per outcome. History: `open`
(frames admitted and not accounted for yet), `last` (newest frame sent as current),
`passed` (slots a waiting relay was passed over).

Abstractions: times. Whether a timer or a work item meets its window, whether a bundle
fits into the rest of the slot, with or without its predecessor, and whether a SYNC
acquires, reacquires or only corrects are choices; corrections of the period are left
out. The ESP attaches one predecessor, so `previous2` is absent.

### EspNowSession

All nodes; a step of the mesh task per action. `node`, `peers` and `silent` are the
session, the table and the age of its entries, `outbox` the control queue as a set (its
order is `EspNowTransport`), `rx_queue` the receive queue. Elections, stops, lost packets
and silences come in any order. `members` is history: who became active by a JOIN_ACK
that still held when it was taken.

### EspNowTransport

One node; threads: the caller of `mesh_start` and `mesh_stop` (`stop` is its place), the
mesh task (`task`), the Wi-Fi callbacks, the esp_timer task and the audio producer. A
step is a section under a lock or semaphore. `control` is the priority queue with its
replacement and eviction, `inflight` the one frame handed to the driver, `event`, `slot`
and `window` the signals of the timers with their age. `unreported` is history: the bits
heard or relayed that no STATUS has carried yet. What a packet means to the session is
`EspNowSession`; here it is a choice. A handler sends up to four packets, with two
speakers released. `ScanTimeout` arms the frame timer and becomes active in one step; in
`mesh_session.c:107-109` the state follows the arming at once, and what a callback finds
in between is not modelled. Left out: jitter buffer, period correction,
statistics, `mesh_deinit`, and the deletion of a task that does not answer in time.

## 3. Runs

| Run | Question | Result |
|---|---|---|
| `spi_audio_bridge` | slots conserved, order, duplicates only after a wrap, channel refined; frames in flight are released, the ring drains | holds |
| `spi_ack_release` | does an ACK release only an admitted frame (`docs/inter_mcu.md:78`)? | violated |
| `nrf_outbound` | counters, contents, commit and order of the outbound rings | holds |
| `mesh_lifecycle` | an acknowledged command is an applied one; no "enabled" tone while the mesh is off | holds |
| `mesh_lifecycle_live` | the radio ends up as the rider asked unless every attempt was upset; the flag that opens the audio path agrees with both | holds |
| `nrf_membership_reuse` | tables, ids and slots agree and no two nodes of a mesh share a slot, while ids are freed and reused, with speech and grants | holds |
| `nrf_membership_merge` | nothing survives an ended session; coordinators merge, joins end | holds |
| `nrf_slot_map_grants` | does a SLOT_MAP name only members (`docs/architecture.md:195`)? | violated |
| `nrf_slot_tx` | deferred speech is kept, once and in order; relay and speech alternate; windows open only with SYNC; the schedule keeps running; queued frames leave | holds |
| `espnow_session` | tables well formed, members listed under the id they use, a scanning node has forgotten its session | holds |
| `espnow_orphan` | does a participant leave a session without coordinator (`docs/protocol.md:234`)? | violated |
| `espnow_transport` | a stop ends, sends only LEAVE and leaves nothing behind; no old schedule runs; no status bit is lost | holds |

**Findings.** `spi_ack_release`: the nRF pulses for the admission and again for
each re-presentation it recognises as duplicate; the interrupt cannot tell for
which frame the pulse is, so a late one releases the next frame before the nRF has
read it. That frame can be lost without a retry, which the doc excludes.
`nrf_slot_map_grants`: a granted speaker that leaves is still named in the SLOT_MAP
published by `process_leave`; every participant's validity check rejects that map.
`espnow_orphan`: a participant that hears the LEAVE of its coordinator marks the entry
inactive, and the timeout that would return it to scanning skips inactive entries.

Disagreements met while modelling that no run states:
* The commit of an outbound record compares indices. Six records queued during one
  transfer, such as PEER_LEFT for six peers that time out in one tick, bring the tail of
  the ring of four round to the same index: a record that was never transferred is
  removed and counted as sent (`docs/inter_mcu.md:74-76`). `RemovesSent` excepts exactly
  this case, by `burst`.
* Two ESP-NOW coordinators both have id 1, so the conflict test of `mesh_session.c:550`
  never holds between them and `demote_to_participant` is dead; `docs/tdma.md:231-233`
  says that the loser demotes itself. `NeverYieldsCorrect` proves it of any number of
  nodes: the only step with which a coordinator ceases to be one is its own stop.
* `s_local_clock_source` of `tdma.c` is never set, so the word-clock discipline of
  `docs/tdma.md:214` does not run.

**Bounds.** SPI: a ring of two slots fills and wraps; a sequence space of two makes
the wrap reachable with three frames, the bound on encoded frames; `MaxUpsets` counts
statuses that change the mesh state and restarts; it is one, so a restart hardly meets
queued audio there, and the theorems cover that case. Membership: two nodes show election
races, merge and restart, three compete for a table of two (id reuse); `MaxUpsets` counts
elections, stops and timeouts; `MaxAir` bounds the nodes with unprocessed packets at a
time; rings of one or two entries make every queue overflow. ESP-NOW session: the same.
Slot transmission: a ring of two is the smallest in which a deferred frame has a
successor and then overflows; three frames overflow it; `MaxUpsets` counts sessions,
reacquisitions and probes. ESP-NOW transport: a control queue of two, of the six kinds
of packets, replaces, evicts and rejects; one bit stands for each of the sixteen, which
the code treats alike; `MaxInputs` is one packet or frame of speech inside the node at a
time, beside what it sends. Outbound: the control ring has its real size, and
seven records are enough to go once round it during a transfer; two records overflow an
audio ring with one usable entry; with two repetitions one record comes three times, or
a record of each ring twice.

Lifecycle: `MaxUpsets` counts together what may go wrong: frames lost, polls failed,
restarts at any step, expired statuses, lost meshes, and timeouts or pauses that end
with the answer still under way (300 ms and 1 s against polls of 2 ms). `RestartCost` is
what a restart, an expiry or a lost mesh takes of that bound. Sixteen generations do not
wrap within these bounds; `NRF_RECONCILE_INTERVAL_MS` is two pauses of the loop.
* `mesh_lifecycle`: two presses (on and off again), a command is tried twice, and either
  two of the frames lost, polls failed and waits cut short, or one of the others
  (`RestartCost = 2`). The theorems cover a restart on top of a loss.
* `mesh_lifecycle_live`: one press and the same upsets. A command has one attempt and
  reconciliation two (three and three in the code), so two upsets are enough to make it
  give up at `transport_nrf.c:465`, and do: without the exception `GaveUp`, TLC refutes
  `Converges` on this instance. A second press is beyond what TLC can do for liveness.

`TickBacklog` only delays a status tick until the ring is short, as the control slot
every frame does.
Deadlock is not checked in the membership, session and slot runs: with the bound on
elections and sessions used up, nothing remains to be done.

**Fairness.** SPI: the tasks run, the nRF polls, the ISR runs once latched, and the
ACK deadline passes; nothing is assumed of ACK edges, new audio or statuses.
Membership: the workqueue processes received packets, the join timer fires, and a
coordinator's SYNCs, sent every 200 ms, do not all miss a node (strong fairness).
Lifecycle: the tasks and threads run, the nRF polls, the worker works, and the loop's
pause ends and the periodic status is requested again and again (strong fairness: both
wait for a bridge that is idle in between). Nothing is assumed of the button, of frames
on the wire or of the mesh.
Slot transmission: timers fire, handlers return, and neither the frame timer nor the slot
work is late for ever (strong fairness: a resynchronisation may take either away, and the
schedule is periodic); transmissions may all fail.
ESP-NOW transport: every thread runs; nothing is assumed of the radio, whose send callback
may never come. ESP-NOW session (`espnow_orphan`): the task receives, notices silence and
acts on its deadlines.

## 4. Proofs

Every invariant and every safety action property of the passing runs is a theorem, for
every value of the constants that the stated assumption admits. `TypeCorrect` is proved
in each module; it is a consequence of the inductive invariants below and not repeated.

From `SpiAssumption` (positive ring size and sequence space):

* `SlotsCorrect`: `TypeOK /\ SlotsConserved` is inductive. Types need the slot
  count because the used semaphore must count the ring's entries for `Head` to exist.
* `OrderCorrect`: `PipeInOrder` is the inductive strengthening of "the nRF admits in
  order": it orders every place a copy of a frame can be, and says that a copy of the
  newest admitted frame carries the sequence number the nRF remembers.
* `ImplementsChannel`: with these, each step is a channel step or a stutter.
* `FalseDuplicateCorrect`: `SeqInv` says that until the ESP restarts every copy of a
  frame carries the sequence number of its place in the order of encoding. Two frames
  with one number are then a whole sequence space apart (`SeqDistinct`).

From `OutboundAssumption` (each ring has at least two entries):

* `AccountedCorrect`, `NewestKeptCorrect`: `TypeOK /\ Accounted /\ NewestKept /\
  PeekInv` is inductive. `PeekInv` describes the peeked record while the lock is
  released: either it is still the oldest, or overflow has removed it.
* `RemovesSentCorrect`: from `PeekInv`, as long as fewer records than the ring has
  entries are queued during one transfer; section 3 says why the condition is needed.
* `ChannelsCorrect`: `OrderInv` puts what the ESP decoded before what is peeked or
  waiting, up to equality while the ring is unconfirmed; once a transfer has succeeded,
  the commit moves past its record unless overflow already has. So each step accepts,
  delivers or confirms, or is a stutter.

From `MembershipAssumption` (addresses are positive, a table has at least two entries):

* `PeerTableCorrect`: `TypeOK /\ PeerTable` is inductive, for any set of nodes. The
  argument: the action of a node leaves the other tables alone (`TableFrame`); a join
  takes an unused id, an unused entry and an unknown address (`JoinTable`); hearing a
  peer moves exactly the entries it counts (`HearTable`); removal uncounts the
  announced ones and never entry 0 (`RemoveTable`).
* `OnlyActiveSendCorrect`: relative to the peer table, which says that a coordinator
  is active. The run `nrf_membership_merge` has no speech (`MaxSpeakers = 0`); the theorem
  covers the part of the property about speakers.
* `AssignmentHonouredCorrect`, `SlotFollowsIdCorrect`: from `JoinInv`, an invariant on
  all packets under way. `FlightInv`: a JOIN_ACK in a control or receive ring is a
  promise that stands: its sender still has the addressee in its table under that id, or
  has removed it since (`Promises`). `SponsorInv` says the same of the id a participant
  uses. A promise is kept by every step of every node (`PromiseKept`); that a new one is
  made only with an entry to record it needs a pigeonhole argument (`EntryForId`: as many
  entries as ids, so a free id means a free entry).
* `SlotsDisjointCorrect`: a consequence of all of these.

From `SlotTxAssumption` (queues of at least one entry; the schedule theorems without it):

* `KeepsRunningCorrect`, `OnlySynchronizedCorrect`: both are conjuncts of `ScheduleInv`,
  which is inductive. Neither is by itself: between the two sections of a handler the
  timers must be quiesced and every generation outdated (`Quiesced`), so that an interrupt
  renews nothing, and without SYNC nothing may be armed once a handler has returned
  (`NothingArmed`). The queues do not matter.
* `FrameAccountedCorrect`, `SentInOrderCorrect`: `QueueInv` orders the ingress queue, the
  transmit ring and what was sent, by sequence number, the deferred frame included.
* `RelayGetsTurnCorrect`: `TurnInv` says that a slot that passes a relay over gives it the
  turn, unless a successor failed, and that takes a deferred frame.

From `LifecycleAssumption` (at least one attempt, generation and control slot):

* `TonesMatchIntentCorrect`: `ToneInv` holds of what the button task, the loop and the
  status callback share; the rest of the node does not matter.
* `AckedAppliedCorrect`, under the hypothesis `MaxUpsets + 1 < GenMod`. A command carries
  a generation that wraps (256 values in the code), and answers are matched by it alone.
  `AgeInv` bounds how old anything under way is, in generations, by the upsets that can
  have delayed it; `FlowInv` follows the command waited for through the control slot and
  the bus; `AppliedInv` says that an answer to it exists only once it was applied. Without
  the hypothesis the claim is false: TLC finds an old answer taken for a new one with two
  generations and two upsets. In the code the hypothesis means that no command or answer
  is delayed past 255 later commands.

From `SessionAssumption` (as `MembershipAssumption`), for `EspNowSession`:

* `CoordinatorTableCorrect`, `MembersListedCorrect`, `CleanScanCorrect`: conjuncts or
  consequences of `SessionInv`, which describes each node with its table and outbox
  (`NodesInv`), the receive queues (`RxInv`), and of each member that its coordinator
  lists it and that no LEAVE of it waits there (`MembersInv`). One lemma per way of
  changing a node shows that it keeps the others' parts.
* `NeverYieldsCorrect`: an action property; see section 3.

From `TransportAssumption` (queues of at least one entry), for `EspNowTransport`:

* `QuietWhenIdleCorrect`, `NoStaleScheduleCorrect`: conjuncts of an invariant that also
  says which threads can be where in each phase of a start and a stop (`Phases`).
* `StatusKeptCorrect`: `StatusInv` relates the bits not reported yet to the bitmaps, the
  queued STATUS and the one in flight.
* `OnlyLeaveCorrect`: the action property, from `Phases`.

Only model-checked: liveness, since the prover has no fairness (`InflightReleased`,
`RingDrains`, `CoordinatorsMerge`, `JoinEnds`, `Converges`, `StopEnds`, `FramesLeave`), and
the three violated claims, which TLC refutes. The invariants that range over packets under
way were checked with TLC before they were proved: those of `JoinInv` on the instance of
`nrf_membership_reuse`, those of `AckedAppliedCorrect` with four generations, two upsets
and two attempts (3.8 million states).

## 5. Plan and what is not modelled

Done: the bridge in both directions, membership, lifecycle, slot transmission, the
ESP-NOW mesh, and the theorems of section 4. Next, in this order:

1. Theorems beyond the runs' invariants: what still holds where a claim is violated (which
   frame a late ACK can release; that a SLOT_MAP names only nodes that were members);
   disjoint slots of the ESP-NOW session, as `SlotsDisjoint` of the nRF's.
2. `AudioStore`: packet store, source selection and recovery from bundles; the jitter
   buffer of the ESP-NOW mesh; pure algorithms of `mesh_core.c` (dedupe, sequence
   windows, relay masks) against reference definitions.
3. Join and leave tones (peer counts of a status) in the lifecycle; power states; period
   corrections of both schedules.

Known limits of the models, beside the hazards of `PROJECT.json` without a property: a
mesh task that does not answer in time is deleted whatever it holds (`mesh.c:324`); a
STATUS that fails after its session was cleared leaves its bits to the next one
(`mesh_transport.c:306`); packets of a second ESP-NOW mesh in range keep a dead
coordinator's entry alive, since both coordinators have id 1 (`mesh_session.c:626`); a
SYNC handled after the next boundary measures an error that was partly corrected
(`tdma.c:655`); a MESH_STOPPED of the previous cycle cancels the tone of the next
(`transport_nrf.c:419`).

Not planned: signal processing, codec and I2S drivers, radio register driver, word
clock PLL, hardware test, bench tool, board design. They carry no protocol state, or
state that only hardware timing makes interesting.
