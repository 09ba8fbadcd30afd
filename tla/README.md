# Tapestry: TLA+ models, model checks and proofs

Tapestry is an operating system layer for swarms: every element (a small robot, drone or sensor) runs the same
seven-layer stack on Zephyr, gossips its state over a radio, and from what it hears derives, without any central
authority, whether the swarm has a quorum, who leads, which task slot it holds, what facts about the world are agreed
and which step of its script it is in. This directory holds TLA+ specifications of that logic, the TLC configurations
that check them on small instances, and TLAPS proofs of the properties that matter most for all instances.

Paths below are relative to the repository (`tapestry-os/...` stands for `src/tapestry-os/...`).

## 1. The system

### 1.1 One cycle

`tapestry_runtime_tick` (`tapestry-os/subsys/runtime/runtime.c:84`) runs every `WM_CYCLE_MS` (100 ms), in one thread:

1. `transport_drain`: every frame received since the last cycle goes to `wm_receive_gossip` (L4) or is relayed (L3);
   fact frames go to `wm_fact_receive`; a remote directive, if any, goes to `choreo_remote_directive` (L7);
2. `wm_tick` ages the entries and recomputes the consistency metric; `wm_update_self` advances the own Lamport clock;
3. `scr_tick` (L5) recomputes quorum, abort signal, leader, slot and role; its `on_tick` hook is `choreo_tick` (L7),
   which calls `bse_tick` (L6);
4. on the edge of the abort signal a HARD_RT gossip frame leaves at once; otherwise a soft one leaves every
   `GOSSIP_INTERVAL_MS` (500 ms); then telemetry and the power policy.

Within an element everything is called from this loop (the flight controller and the serial receivers apart, which have
threads and interrupts of their own), so the hard behaviours are not data races but: frames that are lost, late,
repeated and reordered; peers that crash, reboot with all counters at zero, or leave; views that differ between elements;
state updated at one point of the cycle and read at another; and long sequences of legal calls on the state machines of
L6, L7 and the applications, which call the public functions of L7 and L5 between two cycles.

### 1.2 Inventory

| Component | State | Operations | Hard behaviour | What makes it correct | Modelled |
|---|---|---|---|---|---|
| **World model, L4** `csm/world_model.c` | one entry per peer: state frame, age, active/stale flags, merged Lamport clock; consistency metric | `wm_receive_gossip`, `wm_tick`, `wm_update_self` | late and repeated frames, reboots that restart a clock at zero, ageing and receiving at different moments | a dead peer fades in bounded time, a live one is not shut out, flags and metric never say better than the ages | partly |
| **Shared facts, L4** `csm/facts.c` | bounded table of facts and tombstones, Lamport clock, sequence number, epoch, synced flag; Trickle timer | publish, retract, receive, tick, pack | concurrent publication, retraction against copies in flight, eviction at capacity, expiry, reboot | replicas agree, no key means two things, retraction holds, no duplicates within a radius | partly |
| **Coordination runtime, L5** `scr/scr.c` | quorum, recovery timer, abort signal, leader, slot, size, role, anomaly mask | `scr_tick`, anomaly setters, configuration setters | flapping quorum, a recovery interrupted, a loss in the cycle of an all-clear | every loss is announced and answered once, outputs come from one election | yes |
| **Behaviour engine, L6** `bse/bse.c` | active intent and one parked intent, goal parameters, anchor and its debounce, last directive, achievement | submit, preempt, resume, tick | anchors that go stale, goals that outlive an activation, slots each element computes for itself, exchanged stations | shapes form and exchanges complete, anchors switch only after the hold, a hold is at a place the element has been | yes (on a line) |
| **Choreo, L7** `choreo/choreo.c` | lifecycle state, goal, script and step, time in step, one parked goal, tracks, departure edge, recall/hold in progress, debounce, remote directive | submit goal/script/tracks, preempt, terminate, cancel, tick, remote directive | one tick may advance, preempt, resume, end and suspend; quorum changes anywhere; two stacks kept in step | L6 and L7 park and resume together, an element runs its own track, a departure is final, waiting is bounded | partly |
| **Gossip, relay, directives, L3** `transport/gossip.c` | relay queue, last relayed clock per origin, directive sequence numbers, Trickle timer | send, drain, relay, directive filter | full queue, an origin that reboots, replays | no storm, emergencies are not displaced, only a live host steers | partly |
| **Auto-ID, L3** `transport/transport.c` | nonces heard, claims heard, identifier, registry of transceivers | discovery window, rank, renegotiate | lost beacons, windows that overlap in part | equal views give different identifiers, nobody stays grounded alone | partly |
| **Runtime loop** `runtime/runtime.c` | gossip accumulator, last abort state, election count | `tapestry_runtime_tick` | edges over variables of other layers | one HARD_RT frame per loss; the order above | yes |
| **Power policy, L2** `runtime/power.c` | level, countdown | `tapestry_power_request`, `tapestry_power_tick` | quorum flapping | an application's sleep request is kept, never asleep with quorum otherwise | yes |
| **Transceivers** `transport/transceiver_*` | parser state, queues, echo ring, handshake counter | receive byte, send, poll | a damaged length byte, echoes of the own frames, a radio processor that boots late | a sound frame gets through after noise, the link comes up | partly (serial ones) |
| **Boards, drivers** `boards/crazyflie21bl` | flight control flags, battery monitor, Lighthouse jump gate | stabiliser iteration, fix, battery sample | fixes lost and found, tumble, hung application | what stops motors in the air, what holds position | partly |
| **Applications** `examples/cf21bl-formation`, `examples/cutebot-formation` | flight state machine; start barrier, search, odometry | main loop | fixes, batteries, unbounded waits, failed reads | comes down, starts together, finder stands, motion made up | partly |
| SDK mirrors (Python), script compiler, host simulators, tests, warehouse demonstration | - | - | - | - | no |

Interaction: L3 calls L4 (frames); L5 reads L4's entries; L6 and L7 read L5's quorum and L4's entries; L7 drives L6's
intents; the runtime reads L5's abort edge to trigger L3; applications submit to L7, look at its completion flags and
turn L6's directive into motion. Elements interact only through frames: state gossip (relayed), fact frames (not
relayed), directives, beacons.

`PROJECT.json` lists the components with their status, the hazards (what can go wrong at which line that a test would
hardly reach, with the properties that cover it), the mapping from definitions to source lines, the theorems, and for
every checked property a mutant: a plausible bug in the modelled code that makes TLC find the property violated.

## 2. The modules

```
 PeerTable <--implements-- WorldModel            WorldModelProofs
     | EXTENDS                 |
    Scr --implements--> QuorumSignal             ScrProofs
     | EXTENDS                 |
  Runtime --> MCEngine         |
                    Facts -----+--> MCCsm        FactsProofs
 Choreo --> MCChoreo                             ChoreoProofs
 Relay, Directive, AutoId --> MCGossip           GossipProofs
 Slots <-- Bse, Formation, Swap --> MCEngine     BseProofs (of all three)
                Swap --> MCExchange --> MCEngine
 Stabilizer <-- Flight                           FlightProofs
 Barrier, Finder, Odometer, FixGate,
 SerialLink, Handshake --> MCDevices             DeviceProofs
```

Every module opens with what it models and what it leaves out; here is how they divide the system.

- **WorldModel**: `entries[p]` is `wm_entry_t` without the payload. `Receive` is `wm_receive_gossip`: `Accepts` compares a
  frame's clock with the stored one unless the entry is missing or inactive, and stores `max + 1`. `Tick` is one cycle of
  all elements. Peers `Send`, `Depart`, `Crash` and `Boot` (clock back to zero, all frames of the old life still in the
  radio); `radio` is a set of frames, each of which may be received in any order, more than once, or lost, and is gone after
  `MaxDelay` cycles. `life`, `ended`, `heard` and `caught` are history; no guard reads them.
- **PeerTable** is what L4 promises L5: an age reset by an accepted frame and advanced by every cycle up to the expiry age,
  and the last DEPARTED flag. What decides acceptance is hidden. `WorldModel` implements it (checked and proved), so what
  holds of `Scr` over `PeerTable` holds of L5 over the real L4.
- **Scr** (L5): `Cycle` is `wm_tick` followed by the whole of `scr_tick`. **QuorumSignal** is the promise of `scr.h`: a run of
  `Need` good readings raises the signal, one bad one drops it, and once up its absence is an alarm.
- **Runtime** extends Scr with the send path and the power policy: its `Tick` is `tapestry_runtime_tick` in its order.
- **Facts**: one table per element, with `Publish`, `Retract`, `Deliver` (a frame of one or two records merged one after the
  other), `FactTick` (tombstones, the sync time-out) and `Reboot`; `Merge`, `Admit`, `Near`, `EvictBefore` are the pure
  functions of the file. Tables are sets: the code addresses slots only to iterate.
- **Choreo** (L7 and L6's intent stack): the static variables of `choreo.c` are the fields of one record `c`, because the C
  functions call one another within a tick: `AdvancedTo`, `Landed`, `Triggered`, `ScriptAdvanced`, `RecallChecked`,
  `HoldChecked`, `QuorumChecked`, `SuspendedTimedOut` nest as they do in the file, and `Tick` is `choreo_tick`. What L5 and L4
  say changes between ticks by actions of its own; what only the tick finds (goal achieved, votes, another event, a recall
  point known) is chosen in the tick.
- **Bse** (L6 of one element): the active and the parked intent, what an activation captures, the choice and debounce of the
  anchor, the directive and the achievement of each tick. **Slots** is its geometry (the slots of a shape, the cheapest
  assignment by successive shortest augmenting paths, the standoff of an exchange). **Formation** and **Swap** put several
  elements side by side that form a shape, or change places, without a message being agreed. In Swap `Capture(i)` is
  `exchange_capture` in element i's own first EXCHANGE tick with a peer: whose place it takes follows from whoever it has fresh
  then and from where it last heard them, so an element whose script is behind captures places others are already moving from.
- **Relay**: state frames that are sent, drained and relayed on any graph of links, with hop count, per-origin clock and the
  queue with its QoS tiers. **Directive**: a host's stream, its filter, and its adoption and staleness in L7. **AutoId**: the
  window of beacons, rank and claim, retry and renegotiation.
- **Stabilizer** is the flight controller's decisions and the battery monitor, **Flight** the application's flight state
  machine above it. **FixGate** is the Lighthouse driver's jump gate.
- **Barrier**, **Finder**, **Odometer** are three machines of the Cutebot application; **SerialLink** and **Handshake** the
  receivers of the serial transceivers and the start of the link to the radio processor.
- **MCCsm**, **MCChoreo**, **MCGossip**, **MCEngine**, **MCExchange**, **MCDevices** instantiate them. Where several machines share a run they
  never interact, and the run's state space is their sum, not their product: the initial state chooses which one goes on, and the
  variables of the others keep their initial values.

## 3. The runs

| Run | States | Asks | Instance |
|---|---|---|---|
| `csm` (MCCsm) | 175 634 | peers: `PastLifeFades`, `BlindnessBounded`, `ImplementsTable`; facts: `SameKeySameFact`, `NoNearbyDuplicates`, `RetractionStands`, `EventuallyAgreed` | 1 peer, stale 3, expire 4, delay 1, clock to 8, 2 lives, 2 frames in the air; 2 replicas of 2 slots, one of which may reboot, 2 kinds, 3 places, numbers modulo 4, stamps to 2 |
| `choreo` (MCChoreo) | 39 492 | `StacksAgree`, `TrackRunsItsOwn`, `DepartureIsFinal`, `IsolationEnds` | 2 peers, 3 scripts (2 refused), a show of three tracks and one refused on a full battery, track hold 1, steps to 3 ticks, departure's hold 2 |
| `gossip` (MCGossip) | 272 833 | relay: `NoStorm`, `HardKeepsItsSlot`; directives: `SteersWhileFed`, `ReplaysAreInert`; identifiers: `EqualViewsDiffer`, `IsolationResolves` | a line of five elements, queue of 1, one reboot; one host, numbers to 3, 2 frames a poll, stale 2, adopt 3, wrap 4; 3 joiners, window 2, 7 identifiers, one power-off |
| `engine` (MCEngine) | 194 353 | runtime: `ElectionConsistent`, `ImplementsSignal`, `Recovers`, `OneAnnouncementPerLoss`; behaviours: `AssignmentIsBest`, `StationWasVisited`, `AnchorHoldsStill`, `ShapeFormed`, `SwapCompletes` | peers {1,3} around element 2, stale 2, expire 3, hold 2, gossip every 3, grace 2; anchors and achievement held for 2 ticks; three elements on five places in an arena; a pair ten apart |
| `crazyflie` (Flight) | 175 387 | `CutAloftOnlyBlind`, `HomeHeld`, `BrakeRunsDown`, `CoastStaysInFence`, `CriticalStaysDown`, `HungComesDown` | heights to 3, distances to 2, fence and grace 1, settling 2, forced disarm after 5 |
| `devices` (MCDevices) | 125 176 | `StartsTogether`, `BarrierOpens`, `FinderStands`, `FindIsShared`, `MotionMadeUp`, `FlipFlopSeedsNothing`, `FramesGetThrough`, `LinkComesUp` | 3 robots and a post; 2 robots, 1 leg; 8 ticks of odometry; ghosts at 9 and 16; frames of two bytes, one damaged; a boot of 6 ticks, 2 losses |
| `world_model_newer`, `facts_bounce`, `choreo_hold`, `choreo_tracks`, `flight_blind`, `exchange_skew` | | violations, see 4 | smaller instances of the same modules |

**Why the bounds are enough.** Ages and holds are as small as keep the thresholds apart from one another and beyond each other's
reach of the delay. A first life may outrun the second, so the blocking entry matters. In `csm` one peer is enough because
entries do not interact. Two slots make eviction happen in most behaviours, three places make nearness not transitive, two kinds
make priority decide. In `engine` two peers of the runtime on either side of the own identifier make the element lead or follow;
minimum 1 and target 2 give all three classifications, a hold of 2 can be interrupted. In `choreo` the scripts have a goto, one
step that cannot end and a goto beyond the end (both refused), a goal out of reach, and steps whose policy is HOLD, RECALL,
CONTINUE or LAND_IN_PLACE; time in a step is not told apart beyond the longest bound. The steps of the show outlast the hold of
a change of track, so an element may change tracks before any step's time is up; a show that is refused leaves its table under
whatever comes next. In `gossip` a frame of two hops ends in the middle of the line, a queue of one is full at once, the age of
a silent stream wraps while a replay comes, and the identifiers are more than twice the joiners. A leader may come, leave and
flip; a team of three has stations with ties. The pair's distance is twice the standoff, the metre of `bse.h:232`, so that the
place one waits at is one the other may capture. Three elements that exchange were explored to three million states without a
violation of `SwapCompletes`, too many for a run. In `crazyflie` a drone at height 3 takes as long to come down as the forced
disarm allows.

**Fairness.** `tapestry_runtime_tick` and the drivers' loops run on timers for ever: `WF` of the tick (Runtime, Choreo, Flight,
Handshake, the calm ticks of the barrier, Drive and Track in L6's team and pair); of `Capture`, as every script comes to its
exchange step and has a peer fresh then. Radio: `Facts` assumes that what a peer could teach does not stay unheard (`WF` of
`Teach`: Trickle sends at least every `FACT_IMAX_MS` and its cursor brings every record round), AutoId that once the radio works
rounds, gossip and renegotiation go on, Formation and Swap that an element is heard again some day (`WF` of `HearOf`,
`HearFrom`); the barrier's and the finder's peers are heard again (`WF` of `Hears`, `Reported`) and the answer of a radio
processor asked again and again comes (`SF` of `Asked`). Nothing is assumed of applications, and nothing of when a frame
arrives.

Deadlock is checked in `crazyflie`. The others stop at their bounds (clocks, stamps, lives) or when a mission is
over and nothing changes any more (in `engine` a team that stands in its shape, a pair that has changed places); liveness
properties are stated so that stopping does not satisfy them for free: each has a mutant that breaks it. What they assume of
the surroundings occurs in the runs, and without it they fail: `IsolationEnds` without `TracksSettle`, `SwapCompletes` without
`RoomToWait`.

## 4. Findings

Each is a violation run: the property is what a comment or a document says, and TLC finds the behaviour that breaks it.

1. `world_model_newer`: `wm_receive_gossip` stores `max + 1` (`world_model.c:186`) and compares the next frame's plain clock
   with it, so a frame sent exactly one cycle after an accepted one is refused although it is newer than the state held:
   a HARD_RT frame that follows a soft one is dropped by every receiver.
2. `facts_bounce`: a tombstone merged for a key not held starts its lifetime anew (`facts.c:137`), so two elements can
   teach it to each other for ever; `csm.h:670` says it is dropped after its lifetime.
3. `choreo_hold`: a departure's hold is counted in RUNNING ticks only (`choreo.c:1302`) and its preemption switches off the
   step time-out of SUSPENDED, so an element that loses quorum during the hold may stay suspended for ever, beyond the
   bound `choreo.h:178` states.
4. `choreo_tracks`: `choreo_submit_tracks` that finds no track for this element returns -1 with `s_n_tracks` set
   (`choreo.c:1235`); whatever is accepted next may be replaced by the refused show when, say, the battery goes low.
5. `flight_blind`: a landing without a fix counts as being down (`main.c:1304` of cf21bl-formation), so the motors stop after
   two seconds however high the drone is.
6. `exchange_skew`: each element captures its destination in its own first EXCHANGE tick (`bse.c:661`), from what it has heard
   by then. If one script is behind, the first element drives to the standoff point half way and waits; the second takes that half
   way as its station, and its own standoff point is where it already is. Each keeps the other away until the step time-out,
   although `bse.h:229` says the approach completes when the owner vacates, and `bse.c:654` that the snapshots differ by at most
   one gossip interval of motion. What completes, whatever the skew, is an exchange in which the captured places are an occupied
   radius and a standoff apart (`SwapCompletes`); no other cause of a stall exists, for any number of elements (`OnlyCrowdingStalls`).

Smaller facts met on the way, for the reader of the code:

- One frame brings quorum back: the recovery hold of the applications (2 s) is shorter than the stale age (3 s), although
  `scr.h:222` says the hold filters such frames out (`scr.c:168`). A vacuous solo is also declared beside a silent peer.
- One fact frame of two records counts as being synced (`facts.c:350`), so a booted element may publish a duplicate under a
  lower key than the one it has not heard of yet (`csm.h:487`). The sequence number has 8 bits; the digest 16; the share of
  one origin is below the capacity.
- An element heard by its nonce and later by the identifier it took counts twice in `n_total` (`transport.c:291`); the
  Cutebot's start barrier, which has no time-out, then waits for a robot that does not exist.
- `relay_clock` is not reset when an origin reboots (`gossip.c:189`).
- A change of track starts the step's time again (`choreo.c:1159`), so an element alone in RUNNING whose battery reading crosses
  the threshold before each step's time is up changes tracks for ever and never gives up, although its steps are bounded
  (`IsolationEnds` assumes `TracksSettle`).
- `choreo_terminate` leaves the hold and recall flags; the membership debounce keeps its candidate, also through
  suspension; after a refused show `choreo_current_track` publishes a stale index while idle.
- The hold reported as a known issue at `choreo.c:1068` has two causes that fit: a link that is heard once per 5 s expiry but
  never fresh for the 2 s of recovery keeps a script suspended beside a partner that counts as live, so its step time never
  runs; and a lone rover whose HOLD times out while SUSPENDED enters FORM without its target ever being computed.
- `bse.c`: the LOWEST_ENERGY selector accepts departed peers (476-480); exact ties between slots may flip (343-345); a HOLD after a HOLD inherits the older station; a
  resumed intent's `achieved` is that of the time it was parked, until the next tick; `bse.h:442` says DISPERSE is never
  achieved.
- Crazyflie: a fix lost while RAMPING leaves a stale own position; a landing with a stale setpoint or a critical battery
  flies to home; the recovery of a link releases the touchdown latch. The comment at `cf21bl_lighthouse.c:968` does not
  describe the counter below it. The `cloud_bot` comment says the initial target is pre-seeded, but it keeps still.
- Cutebot: before the first accepted difference the odometry's limit uses the tick's time only; the finder has one tick of
  grace while suspended.
- Serial: the syslink parser has no silence that resynchronises it and drops a repeated first preamble byte; relayed frames
  may equal one's own, which the UART header excludes; a radio processor that restarts later is not greeted again.
- The Python mirror `choreo.py` differs from `choreo.c`: its tick lacks the guard of the parked depth, its collective
  achievement ignores tracks and DEPARTED, its swarm size counts the departed.

## 5. The proofs

All theorems hold for every value of the constants that the named assumptions of the modules allow: any number of peers,
elements, robots, any graph, queue, table, script, age and hold. Each module of proofs first strengthens the property to
an invariant that is inductive (TLC checked each on a run first), shows that the initial states have it and that every
action keeps it, one step per action, and concludes with temporal logic.

**WorldModelProofs.** Whether an entry fades in time depends on what the radio may still deliver. `IInv` adds `FramesBehind` (a
frame of the running life carries no later clock than its sender; a frame of a life that is over has less delay to spend
than its sender has been gone) and `EntriesBehind` (an active entry of a past life is at least as old as its sender has been
gone, less the delay). From it `TypeCorrect`, `FlagsAreAge`, `ClockLeadsByOne`, `PastLivesFade`, `MetricNeverOverstates` and
`TableIsImplemented`, the refinement of PeerTable: an accepted frame is `Accept`, a cycle is `Age`, all else stutters.
`BlindnessIsBounded` needs `HeardInv`, which relates a peer's clock to what was heard of this life and to the entry that may
block it, and an assumption the code's numbers satisfy: the stale age is at least three cycles (it is 30); TLC finds the
property violated at two.

**ScrProofs.** `IInv` is TypeOK with `AbortAgreesWithQuorum`, `NoPartialCredit` and `ElectionConsistent`: the recovery counter's type is
preserved only because it is zero with quorum, and the pairing of aborts only because a raised abort means LOST. Slots rest
on two lemmas about finite sets: every non-empty set of naturals has a lowest element, and the number of smaller
candidates is strictly monotone (`SlotsAreDistinct`: elements with the same candidates never share a slot). From it
`AbortAgrees`, `ElectionIsConsistent`, `RecoveryHasNoCredit`, `AbortsArePaired`, `CyclesAreReadings` and `SignalIsImplemented`, the
refinement of QuorumSignal, whatever the hold, 0 included. `ImplementsSignal` is the refinement and `EveryCycleReads` together: the
refinement alone may stutter, and would not see credit kept from a hold that was interrupted.

The same module proves about Runtime. `RuntimeIsScr`: no step of the runtime drives L5 otherwise than Scr does, so all of the above holds in it.
`LossIsAnnouncedOnce` relates the edge the runtime detects to the pair of quorum and abort L5 left; `PowerIsShared`: power
follows the quorum, and what the application put to sleep stays asleep.

**FactsProofs.** `FactsInv` says of every replica by itself that it is within capacity, has one record of a key, no live fact
with a tombstone's age and no two near facts of a merged type (`Sane`), and of all together that no replica holds a fact of
an epoch its origin has not drawn yet and that a live key means the same everywhere. Its step is not unconditional: `next_seq`
has 8 bits and comes round, and a number used again while its fact is still held somewhere breaks `SameKeySameFact` (TLC
shows it with `SeqMod = 1`). So the theorems say what the code promises: `FactsSpec /\ []NumbersFree => ...`, where `NumbersFree`
says that an element's next number is borne by none of its facts of this boot that anybody still holds. `NumbersStayFree`
proves that this condition holds where fewer stamps are given than there are numbers. From it `FactsTypeCorrect`, `KeysMeanOneThing`,
`NeverNearbyDuplicates`, `RetractionsStand`. The work is in `Admit`: what is evicted, and that a merge by key and a merge by
nearness leave a sane table. `SharesAreKept` adds that no boot of an element holds more than its share of a replica.
`GossipStopsAgreed` is what can be proved of `EventuallyAgreed`: where no frame that anybody could send changes what is live
anywhere, all replicas hold the same live facts, so gossip never comes to rest short of agreement. The packing of frames
hides nothing (`PackingHidesNothing`, `FramesTellAll`). A live fact that one replica has and the other lacks is kept out by a near
fact of a lower key (`NothingNearby`), by its origin's share (`NoShareKeepsOut`) or by want of room; each time what keeps it out
is in turn a fact that one of the two lacks, and following them leads to a contradiction (`RestIsAgreement`). That each change
brings the replicas nearer to rest stays with TLC.

**ChoreoProofs.** `AlwaysSound` proves the invariant: L6's stack and L7's match entry by entry, a step in progress is a step
of a script that was validated, a parked entry has its script, a finished script is quiet, and the track in progress exists and
matches. The operators of one tick nest as deeply as the C functions, and each has a lemma. From it `TypeCorrect`,
`StacksAlwaysAgree`, `TracksRunTheirOwn`, `DeparturesAreFinal`. The assumption is `EveryShowHasATrack` (for an element with
a full battery). Without it `IInv` as it stands is not invariant: the refused show of finding 4 leaves its tracks
behind, later migrations replace the goal in progress, and a preemption may save a step beyond the script. `TrackRunsItsOwn` is
about shows that have a track for the element on either battery; the run checks it among shows that are refused, the theorem
proves it where none is. `OnlySubmissionsStart` proves that
with it the property finding 4 violates holds: the refused submission is the only cause.

**GossipProofs.** `NeverAStorm` on every graph: `RelayInv` bounds the clock of every frame under way by its origin's, and what waits in
a queue by `relay_clock`, and the hop count by `Hops`; `HardAlwaysKept` follows the tiers through the queue. `HostSteersWhileFed` uses `Filtered`
(what passes the filter is new) and `StreamInv` (what the wrapped age still tells), and `AdoptTicks > StaleTicks`, as in the
code: after the age has wrapped, a stream must be fed for the adoption time again. `ReplaysFeedNothing` is its action
property. `EqualViewsAlwaysDiffer` uses `JoinInv` (who has decided has seen itself, and equal views rank differently) and more than twice as many
identifiers as joiners, so that claims never use them up.

**FlightProofs.** `FlightInv` is the conjunction of types, what a landing drone's target does (`Sinks`), what being grounded means,
the time a landing has taken (`InTime`) and what cut the motors (`Cuts`). `OnlyBlindCutsAloft` needs `DescentIsInTime`: from the
greatest height anybody commands the drone sinks to the ground before the forced disarm. With the code's 0.3 m/s and 10 s
that is 3 m, which the code does not enforce: above it the forced disarm cuts the motors in the air. `OutageInv` gives
`HomeAlwaysHeld` and `BrakeAlwaysRunsDown`, `CoastInv` gives `CoastAlwaysInFence`; `CriticalAlwaysDown` is an action property,
and so is `HungAlwaysSinks`, what each tick does for `HungComesDown`: without the application the setpoint ages, and once it is
stale the drone is down, begins its descent or sinks by one step, whatever else goes wrong.

**DeviceProofs.** `MotionIsMadeUp`: the estimate stands where the baseline is, and a genuine baseline is no farther behind the
counter than the wheel turns in the time since. `FinderAlwaysStands`: in every order of ticks and restarts, who has
confirmed the marker does not follow the directive of that step, ticks that begin suspended excepted.
`AllStartTogether`: who drives off has had every other robot on within the stale age. `GateIsSteady`: phantoms convince the
driver only after `RejectN` in a row, and as many genuine fixes always bring it back. `LinkKeepsItsPromise` proves
`FramesGetThrough`, from three parts. `SerialInv` follows a frame byte by byte (`Midway`: how much of it has passed, and
that the element's own is in the echo ring meanwhile) and says what the parser has made of one that follows a silence
(`Aligned`); `WhatAddsUp` shows that a sum fits the frame that passes and no other. So the bus hears (`BusAlwaysHears`) and only what
was sent whole is queued (`PeersAreQueued`), whatever bytes the payloads are. The third part, how many frames a fault can
eat on syslink, counts the bytes a phantom frame still has to take against those of the frames it eats; it holds for
frames in which no preamble can be read (`Odd` are the others) and assumes that a length cannot be taken for a preamble (`Mtu` below
`MaxByte`, and room above the preamble's bytes).

Three theorems are the safety cores of liveness properties of the same run. `FindsAreKept`: a find is a fact or
waits to be one, each loop shortens the wait, who hears everybody learns it, and only a restart forgets it (for
`FindIsShared`). `HoldAlwaysRunsDown`: once the radio is clear an entry from before a restart only ages, and who has none counts
down with every tick (for `BarrierOpens`). `NobodyGivesUpEarly`: the handshake ends by its echo or after as many lost
messages as there are tries (for `LinkComesUp`).

**BseProofs.** `BseInv` says of the active intent and of the parked one that the station captured is a place this element has
been (or within the slack `Eps` of one), and the same of the inherited goal and of the goal of an activation that is achieved:
that link is why only an achieved goal may be inherited. For anchors it says that a pending switch has been named in every
tick it has waited (`Pending`), and that an intent uses one of the two debounces, by its kind of anchor; without the second
half the invariant is not inductive, as the history of what was named is one for both. `DebounceWaits` is the lemma about
the debounce itself, and each case of the tick has a lemma (`HeldDecides`, `FormedDecides`, ...). From it `HoldsWhereItWas` and
`AnchorsHold`. How slots are assigned and where a centroid is plays no part in it. A view is assumed to have a place for
every element.

The module also proves where L6's teams come to rest. `OnlyCrowdingStalls`: an element that is short of the place it captured,
with everything heard and nobody moving, is kept off by somebody on that place (`HolderCrowds`): by one whose script has not come to
the exchange, or by one that has captured and so is on its own place or stands off from it, which puts the two captured places
less than an occupied radius and a standoff apart (0.35 m and 0.5 m). So crowding is the only cause of a stall, whatever was captured, whenever and
by whomever; no spacing of the stations is assumed, and with room to wait the only rest is `Arrived`. `bse.h:231` asks only that
the occupied radius be less than half a spacing; finding 6 shows what that leaves open even a whole metre apart.
`FormationsRestInShape`: as long as `AssignmentIsBest`, a formation in which all is heard and nobody moves is the shape. That
they come to rest (`SwapCompletes`, `ShapeFormed`) stays with TLC.

**Model-checked only.** Liveness, which the prover does not reach (`Recovers`, `EventuallyAgreed`, `IsolationEnds`,
`IsolationResolves`, `ShapeFormed`, `SwapCompletes`, `HungComesDown`, `BarrierOpens`, `FindIsShared`, `LinkComesUp`);
`AssignmentIsBest`, whose proof is an induction over the augmentations of a recursive algorithm; and the violations. Of
most of the liveness properties a theorem above proves the part that is safety; what is left is that the fair steps come.

Proved but of no run: `FlagsFollowAge`, `ClockLead`, `MetricConservative`, `AbortAgreesWithQuorum`, `NoPartialCredit`, `AbortPaired`,
`PowerFollowsQuorum`, `Shares`, `StuckIsAgreed`, `OnlyCrowdsWait`, `RestsInShape`, `FindKept`, `FindSpreads`, `HoldRunsDown`,
`GivesUpForCause`, `HungSinks` and the type invariants. The runs spend their time on properties that say more.

## 6. Abstractions, and what is not modelled

- Time is counted in cycles. All periods in the code are multiples of its cycle and its timers count in steps of it, so
  this is exact; a run's cycle stands for several of the code's (500 ms or 1 s), the theorems hold for any numbers.
- Elements' cycles have one period in `WorldModel`, `AutoId` and `Barrier` (no drift); in `Facts` and `Relay` the loops are
  independent.
- Positions are points on a line: the code compares distances with thresholds, and sums and averages positions. What a
  line cannot show (an EXCHANGE's arc, a shape's second axis) is seen along its chord.
- The estimators, control laws, sweep decoding, encoding of frames and authentication tags are left out; the drone is where its
  estimate says, or has no fix, and frames parse or not.
- `wm_reconcile` has no caller outside tests. `choreo_configure` and `choreo_deploy` have no caller of their own in the
  tree; their bodies are part of `SubmitGoal` and `SubmitScript`.
- Not modelled: the Trickle timer and its digest, the membership debounce, the transceiver registry, the Bluetooth and UDP
  transceivers, the other boards, the warehouse demonstration, displays and telemetry. SDK mirrors, simulators and tests
  repeat or exercise what is modelled. The map covers about a sixth of the implementation's lines; most of the rest is
  drivers, floating-point mathematics, Python mirrors and simulators.

## 7. Plan

1. `Bse`: L6's intent stack as an abstract specification of its own, which `Bse` and the fields `intent` and `bseParked` of `Choreo` implement.
2. `Facts`: an abstract specification of the agreed table, which a quiet swarm implements; the Trickle timer.
3. `Choreo`: the membership debounce, as a machine of its own beside the tick.
4. **Swarm**: several elements with their own tables over a lossy radio: when views settle, one leader and distinct slots
   (`SlotsAreDistinct` gives the second half).

## 8. Running

```
tlc -config Engine.cfg MCEngine    # or any run's module and cfg, see PROJECT.json
tlapm FactsProofs.tla              # or any module of proofs
```

The longest run takes two and a half minutes with two workers, the longest proof three and a half.
