# Gate automation system: TLA+ verification project

Models, model-checking configurations and machine-checked proofs for the
ALPR + LiDAR gate automation system. Paths are relative to the repository root.

1. [Inventory](#inventory)
2. [Modules and the code they model](#modules-and-the-code-they-model)
3. [Runs](#runs)
4. [Fairness](#fairness)
5. [Proofs](#proofs)
6. [What the checks showed](#what-the-checks-showed)
7. [What is not modelled](#what-is-not-modelled)
8. [Plan](#plan)

## Inventory

A camera and a LiDAR at each gate feed a vision daemon, which submits detection
frames to a server. The server fuses them into a decision, publishes the decision
and, if it authorises, an OPEN_GATE command on an event bus. A field controller
(ESP32) at the gate holds a Control stream to the server, executes commands and
acknowledges them. Dashboards subscribe to the bus, issue commands and edit the
allowlist. A simulator stands in for the field controller.

```
 vision daemon --SubmitDetection--> fusion engine --reads--> allowlist store <--edits-- admin RPCs
                                        |  ^                                               (dashboard)
                                        |  +-- overrides <--IssueCommand-- dashboard
                                        v
                                 event broadcaster --Subscribe--> dashboard backend --WebSocket, REST--> browser
                                        |
                                     Control (bidi stream)
                                        v
              control client + command tracker  --events-->  gate controller  --relays--> motor
              (or the simulator's session loop)              (or virtual gate) <--inputs-- limits, beam
```

| Component | State | Operations | Hard because |
|---|---|---|---|
| Gate state machine (`firmware/components/gate_state_machine`) | state, reason, beam latch | `handle`, `init_*` | the beam latch is a copy of the beam |
| Gate controller and input drivers (`gate_control`, `gate_drivers`) | event queue, relays, two one-shots, snapshots, callbacks | `start`, the pump, `execute`, `manage_timers`, `apply_policies`, edge callbacks, `command_*` | three threads around one queue that drops when full; edges only; timers that have fired but not been handled; restart in mid-travel |
| Command tracker (`gate_rpc/src/command_tracker.cpp`) | the armed command | `arm`, `on_gate_event`, `on_tick` | several rules race to complete a command |
| Control client and dispatcher (`gate_rpc/src/control_client.cpp`, `main/main.cpp`) | outbound queue, connected flag, pending update, reboot timer | sessions, receipt, dispatch, completion, telemetry | the pump, the RPC task and the updater all complete commands; sessions end under them |
| Event broadcaster (`server/dash`) | ids, ring, subscriber queues | `publish`, `subscribe`, `next`, `drain`, `stop` | fan-out outside the mutex, stop in the middle |
| Stream handlers and dashboard resume (`server/rpc`, `dashboard/backend`) | cursors, streams | `Subscribe`, `Control`, reconnect | reconnects, restarts, ids that begin again |
| Fusion engine and RPCs (`server/fusion`, `server/rpc`) | override per gate | `decide`, `SubmitDetection`, `Authorize`, `IssueCommand` | three locks per decision, publication after the decision |
| Allowlist store and admin service (`server/auth`) | SQLite tables | upsert, remove, blocklist, list, lookup | failing batches, listings in pages among edits |
| Vision daemon (`server/vision`, `server/inference`) | frame counter, deadline of the next frame, place in the script | camera cadence, detection, crops, text, scenario replay; build, submit with retry | an answer that is lost after the server acted; plates at the edge of the frame; rounding |
| Gate simulator (`simulation`) | virtual gate, session loop, reader | `issue`, `advance`, console | several deadlines in one step, sessions that break |
| OTA updater and boot (`gate_ota`, `main/main.cpp`) | two slots, boot slot and image states, reboot timer | manifest, download, read-back, signature, finish, mark valid | power may fail between any two writes; a new image may crash before it vouches for itself |
| Status LED (`gate_drivers/src/status_led.cpp`) | pattern, frame, timer | `render`, `on_tick` | three tasks and a timer without a lock |
| gRPC framing (`gate_rpc/src/grpc_framing.cpp`) | header, payload so far | slices out, chunks in | messages cut anywhere |
| Ethernet (`gate_drivers/src/ethernet.cpp`) | link, address, the client's network bit | `start`, event handlers | events tell of a past the link has left |
| Dashboard backend and browser (`dashboard`) | event cache, streams, sinks; secret, token, calls | the event thread and `stop()`, WebSocket, status; login, filter, controllers, bridge | snapshot and sink are two locks; a seed that overtakes telemetry; calls that outlive their deadline |

What makes each correct: the gate never drives both contactors, never closes
blindly, never moves without a bound and never from an unverified position; every
command has exactly one completion and is not forgotten; every subscriber gets
what it is owed once; a decision is justified by the tables it read; a latch is in
force before it is announced; what an admin is told is what happened; whatever the
controller boots is a whole image the site stands for.
`PROJECT.json` lists the 40 hazards behind these properties at their lines.

## Modules and the code they model

A module adds threads and state to the pure definitions of the one it EXTENDS.
`AckContract` is an abstract specification; `ControlClient` and `SimClient` are shown
to implement it through `INSTANCE AckContract WITH stage <- ...`.

| Module | Models | Built on |
|---|---|---|
| `GateStateMachine` | `state_machine.cpp` as a function from machine and event to machine and outputs | |
| `GateController` | `gate_controller.cpp`, `limit_switch.cpp`, `safety_beam.cpp`, relays | `GateStateMachine` |
| `CommandTracker` | `command_tracker.cpp` as functions on a tracker record | `GateStateMachine` |
| `AckContract` | what a gate promises about a command: accepted, then owed, then answered once, or lost with the process | |
| `ControlClient` | `control_client.cpp`, the dispatcher in `main.cpp`, `ota_updater.cpp` seen from outside | `CommandTracker`, implements `AckContract` |
| `EventBroadcaster` | `event_broadcaster.cpp`, one step per critical section | |
| `EventDelivery` | `Subscribe`, `Control`'s threads, `event_stream.cpp`, `event_cache.cpp` | `EventBroadcaster` |
| `AllowlistStore` | `allowlist_store.cpp`, `admin_service.cpp`, one step per call (each holds the store's mutex) | |
| `AccessControl` | `fusion_engine.cpp`, `SubmitDetection`, `Authorize`, `IssueCommand`, the vision daemon | `AllowlistStore` |
| `VirtualGate` | `virtual_gate.cpp` as functions from gate to gate (each public method holds its mutex) | `CommandTracker` |
| `SimClient` | `sim_client.cpp` and `main.cpp` of the simulator: two threads, a console, reconnects | `VirtualGate`, implements `AckContract` |
| `OtaUpdater` | `ota_updater.cpp`, `ota_manifest.cpp`, the start-up and rollback handshake of `main.cpp`; the bootloader is external | |
| `StatusLed` | `status_led.cpp`, one step per access to shared state | |
| `GrpcStream` | `grpc_framing.cpp`, `cb_data_read`, `cb_on_data_chunk` | |
| `Ethernet` | `ethernet.cpp`, the callbacks of `main.cpp`, the wait in `task_main` | |
| `AlprPipeline` | `camera_source.cpp`, `alpr_pipeline.cpp`, `cpu_algorithms.cpp`, the decoding in `yolo_plate_detector.cpp` | |
| `ScenarioSource` | `scenario_source.cpp` | |
| `DashboardFeed` | `event_stream.cpp`, `event_cache.cpp`, the WebSocket and status controllers, `live.ts` | |
| `DashboardAdmin` | `auth.cpp`, the filter and REST controllers, `grpc_bridge.cpp`, `auth.ts`, `api.ts` | |
| `Parts` | the eight modules above side by side; a behaviour belongs to one of them | all eight |
| `MCCommandPath` | the client and the event bus side by side, with values for their constants | `ControlClient`, an instance of `EventDelivery` |
| other `MC*` | values for the constants | the module they name |
| `GateStateMachineProofs` | lemmas about the pure machine | `GateStateMachine` |
| `GateControllerProofs`, `ControlClientProofs`, `SimClientProofs` | theorems about the module they name | it and `GateStateMachineProofs` where the machine runs |
| `EventDeliveryProofs`, `AccessControlProofs` | theorems about the module they name | it |
| `FirmwareProofs` | theorems about updater, Ethernet, LED and framing | the four modules |
| `PartsProofs` | theorems about admin, scenario, feed and pipeline, and about `Parts` | `Parts`, `FirmwareProofs` |

**GateController.** The thread that owns the machine has a program counter `pc`
that names its next call: `recv` (take an event and `handle` it), `drop` and `pick`
(the two relay writes of `execute`), `timers`, `policy`, and `resolve` when a fault
was cleared. `start()` runs the same calls in `boot`, with one step per callback it
registers. The timer task commits one debounced input or expires one timer at a
time (`tmr` holds the event it is about to post). `pos`, `stuck` and `GateMoves`
are the environment: where the gate is, which switch is stuck. `lost` is a history
variable: whether the full queue dropped an event or an edge fell into the boot
window.

**ControlClient.** `rpc`, `pump` and `ota` are the program counters of the three
tasks; `held` is a frame for which a foreign thread has tested `connected_` and not
yet queued it; `fate` is a history variable with what became of each command.

**EventBroadcaster and EventDelivery.** `fan` is a `publish()` between its mutex
and its last push, `sweep` a `stop()` between its flag and its last close. `owed`
and `seen` are history variables: what a session has yet to take, and what a client
has read over all its sessions.

**AllowlistStore and AccessControl.** A plate is its rank in the database's order,
texts are spellings that `Normalize` maps to plates, confidences are percentages,
an instant is the three values the code takes from the clock. `req` holds a request
between the locks of `decide()`; `seen` is a history variable with everything the
tables have said about the request's plate since it began; `epoch` counts writes of
a gate's override. `sensor` is the vision daemon: the frame it is submitting and
the attempt it has reached.

**VirtualGate and SimClient.** A deadline is kept as the time left until it.
`heard` is a history variable: receipts and answers of each command.

**AckContract.** The refinement mapping computes a command's stage from who holds it
(reader, tracker, updater, the pump's pending answer, the simulator's ack list) and
what became of it. A command that two threads could answer, or none, maps to no
stage at all, so the specification of the contract excludes it.

**OtaUpdater.** A slot is the sequence of blocks written since its erasure, a digest
the content it was taken of. Manifest and image are two requests, and the server may
publish something else between them; blocks may be corrupted on their way. `dev.at`
names the call `app_main` makes next. A power cut resets everything but `flash` and
`otadata`. Nothing in the code keeps a BEGIN_OTA from arriving while the reboot timer
runs, nor bounds what it may write before the timer fires; the history variable
`rewritten` holds the slots that such an update has erased although they were staged,
until its checks have passed. `esp_ota_begin` is taken not to touch `otadata`, as in
ESP-IDF.

**DashboardFeed.** `reader` is the thread of `EventStream`, `stopper` is `main()` in
`stop()`, `conn` the WebSocket on the backend with what it has been sent, `browser`
what the page shows. The telemetry of the one gate is the id of the event it came
with, so that stale and current are told apart.

**DashboardAdmin.** A call runs from the browser through the filter, the checks of
its controller and the bridge to the server, which executes it once or refuses it at
any time, before or after the bridge gave up. A signature is the generation of the
secret it was made with.

**AlprPipeline.** A length is a whole number of 1/`Unit` pixels (1/8 in the run); the
two axes are alike, so the geometry is written for one. What the networks return is
chosen from boxes inside, across and outside the edges of the canvas. `Detect` is the
set of all orders that `std::sort` may leave, since equal scores come in any. The loops
that skip some elements and collect the others (`ctc_greedy_decode`, `process`, the
daemon's) share the operator `Collect`. What they should yield is said without a loop:
`Spells` (one letter for each run of equal classes that has a character) and
`ShowsFrame` (different detections, the best ones, best first; a readable plate is
missing only when too many score as well).

**GrpcStream.** `wire` holds the bytes between the data provider and the assembler,
`chunk` what is left of the piece handed to `push()`, `eaten` is a history variable that
counts the bytes consumed. `Arrived` is the reference: the messages that `eaten` bytes
hold, whatever the chunks were.

Each module also holds a few operators marked *Broken variant*: a definition as a
plausible bug would have it. `PROJECT.json` pairs every property with one of them;
put in the place of the real definition it makes the property fail, which shows
that the property depends on that piece of code.

## Runs

| Run | Module, cfg | Distinct states | Bounds |
|---|---|---|---|
| `gate_controller` | `MCGateController`, `GateController.cfg` | 5.1 M | queue depth 2, travel 2, all four commands, auto-close on, healthy switches, restarts at any moment |
| `gate_controller_live` | `GateControllerLive.cfg` | 0.6 M | queue depth 2, travel 1, shipped commands and policies, an open switch that may be stuck |
| `gate_boot_beam` | `GateControllerBoot.cfg` | violation | healthy switches |
| `command_path` | `MCCommandPath`, `CommandPath.cfg` | 0.18 M | client: two commands of any kind, event queue 1, outbound queue 2; bus: one publisher, a gate and a dashboard, ring 1, queue 1, a stop at any moment |
| `event_delivery` | `MCEventDelivery`, `EventDelivery.cfg` | 1.6 M | two publishers (symmetric), a gate and a dashboard that reconnects, ring 1, queue 2, two ids per server run, one restart |
| `event_command_replay` | `EventDeliveryReplay.cfg` | violation | ring 2, one reconnect |
| `access_control` | `MCAccessControl`, `AccessControl.cfg` | 0.78 M | one gate, two plates in four spellings, two handlers and two operators (symmetric), two attempts per frame, eight budgets of calls |
| `access_lockdown` | `AccessControlLockdown.cfg` | violation | one frame, one command, one edit |
| `sim_client` | `SimClient`, `SimClient.cfg` | 0.2 M | two commands, stroke and watchdog 3 ticks, auto-close 2, deadline 4, backoffs 1 and 5, two broken streams or refused connections |
| `parts` | `MCParts`, `Parts.cfg` | 1.0 M | see below |
| `led_threads` | `StatusLed`, `StatusLedThreads.cfg` | violation | two tasks |
| `ota_restaged` | `OtaUpdater`, `OtaUpdaterRestaged.cfg` | violation | two commands, no power cut |

Why the bounds are enough to meet the interesting cases:

* *gate_controller*: two queue slots hold an edge behind a command and a command
  behind an edge, and overflow with the third event; two steps of travel give a
  position at neither limit.
* *command_path* is the sum of two state spaces, the client's and the bus's. Client: a
  second command is needed to supersede the first, to overwrite the pending update and
  to reboot twice; an event queue of one still overflows, and an outbound queue of two
  drops the third frame. Bus: the second event overflows ring and queues.
* *event_delivery*: a ring of one evicts with the second event; two publishers can
  push in the order opposite to their ids; the second run of the server starts its
  ids again.
* *access_control*: the thresholds, the ends of the windows and the ends of the validity
  dates are hit exactly by one frame and two instants each. The budgets spread the
  calls: edits around a question, latches and a restart around a question, a frame among
  latches, edits and restarts, two frames in a row, edits around two listings. A
  behaviour chooses one budget, so that all of them are one state space.
* *sim_client*: the watchdog allows exactly one stroke, the shorter backoff is one
  tick and the longer one exceeds every other time, so that a single `advance()` can
  make deadline, limit, watchdog and auto-close due together.

* *parts* is the sum of eight small state spaces, not their product: *updater*, four
  releases (one unsigned, one that crashes), images of two blocks in slots of three, two
  commands and a power cut, with and without a key; *LED*, one task, since what two do
  is `led_threads`; *framing*, two frames of length 0, 3 and 256 against a buffer of 3,
  chunks of one to six bytes; *Ethernet*, three events in the queue; *pipeline*, two
  plates at most from up to three boxes at all edges, two frames with a stall longer
  than two intervals; *scenario*, two events, counts on both sides of the modulus 4 in
  which they are stored, and one document for every reason to refuse one; *feed*, two
  telemetry events with a decision between them, which no tile shows, a ring of one, two
  sockets; *admin*, two calls of four kinds, one restart, tokens that expire within the
  run.

What the passing runs say:

* **gate_controller**. `RelayInterlock`: no two contactors, also between the two writes.
  `MotorFollowsState`: outside `execute` the contactors are what the state says.
  `MotionIsWatched`: a moving gate has its watchdog running or its timeout in flight.
  `NoBlindClosing`: a closing gate with a blocked beam has the trip in flight.
  `LatchFollowsBeam`: with no beam edge in flight the latch is the beam.
  `AutoCloseNotForgotten`, `ReversalIsPending`: countdown and reversal are pending when
  they should be, after refusals too. `LeavesFaultVerified`: Faulted and Initializing
  are left only for a position that exactly one switch vouches for. All but the
  interlock, the motor and the fault properties hold *until an event is dropped by the
  full queue*; those of the beam also until an edge falls into the boot window.
* **gate_controller_live**. `MotionEnds`, `ReversalHappens`.
* **command_path**. `KeepsContract`: the client implements `AckContract`, that is,
  one owner and one completion per received command, whoever gets to it first.
  `ReceiptFirst`, and `CommandsEnd` for a client that keeps getting sessions. Of the bus,
  `OwedIsTaken`: what a session that dropped nothing is owed is taken; `StopReleases`:
  after `stop()` every `Subscribe` handler returns.
* **event_delivery**. `SessionExact`: in a session that dropped nothing, replay and live
  delivery meet without gap or duplicate. `NoReplay`: a dashboard paints nothing twice.
* **access_control**. `VerdictIsJustified`: each verdict was right at some moment
  of its request, against a reference definition of the windows (`InWindow`) and
  the entry (`Admits`) that does not use the ladder. It does *not* say that one
  moment justifies all of it: `decide()` reads two tables under two locks, and TLC
  readily shows an authorisation that no single state of the tables would give.
  `LatchesHold`: a request that began under a lockdown denies, and a latch is in
  force before it is announced. `OpenHasItsDecision`, `FrameIsSettled`,
  `ListingIsExact`, `AdminIsToldTheTruth`.
* **sim_client**. `PositionIsTrue`; `MotionIsGoverned`: a stroke fits its watchdog,
  and countdown and reversal are never forgotten; `KeepsContract` and `CommandsEnd`
  of the simulator.
* **parts**. `NextBootIsSound`: at every moment the image that would boot and the one
  that runs are whole and ones the site stands for; in a slot that was staged and is
  being written over by a second update only "whole" is left (`ota_restaged`).
  `ControllerComesUp`: the device comes up again after every update, crash and power
  cut. `LedShowsPattern`: without overlapping calls a pattern is played to its end.
  `StreamIsExact`: however it is cut, the byte stream yields exactly the messages sent.
  `NetworkIsNoticed`: once the event loop has caught up, an address that is held is
  known to the client. `PipelineIsSound`: every reading lies in the frame and carries
  the text of its own box, the readings are those of the best plates and none is left
  out without a reason, and frames keep their cadence: each is due a whole number of
  intervals after the first, whatever stalls and retries came between, and none is
  early. `ReplayIsFaithful`: a script is played event by event, never early, and as
  often as it says while that fits an `unsigned`. `FeedIsSound`: a
  socket is sent a run of the event stream but for the registration gap, and a stale
  tile heals with the next telemetry. `StopEnds`: `stop()` returns wherever it finds the
  thread, but for the one place described below. `CallsAreSound`: "ok" means done exactly once, a refusal means never
  done, and only holders of a token of this process act.

Deadlock is checked in the gate, command-path and simulator runs (the bus, whose bounded
clients run out, may rest there). In `EventDelivery`, `AccessControl` and `Parts` the
bounded clients, calls and inputs run out, so their configurations switch it off.

## Fairness

* `GateController`: weak fairness of the pump, of `start()` and of the timer task's
  post (FreeRTOS tasks that are ready run); strong fairness of the two expiries,
  because the pollers of the same timer task keep interrupting them, and the
  `esp_timer` task serves expired timers in order. Commands, inputs, gate motion and
  restarts are owed nothing: motion ends through the watchdog alone.
* `ControlClient`: weak fairness of the pump, of the RPC task's steps and of the
  updater (its HTTP client has timeouts); strong fairness of the deadline test,
  which every turn of a session makes and which a new command may disable for a
  turn. Connections are not fair; `CommandsEnd` assumes infinitely many sessions.
* `EventDelivery`: weak fairness of publishers, handlers and client reads.
* `SimClient`: weak fairness of the reader thread and of the session loop. It is
  written out as "infinitely often not ready or infinitely often a step", with
  `ReaderReady` and `LoopReady` for the enabling conditions.
* `Parts`: weak fairness of the boot sequence (a controller with power boots), of the
  event thread and of `main()` in `stop()`, written out with the guards of these
  actions. A `Read` or `Finish` without anything to return, the network, browsers,
  commands and power are owed nothing.
* `MCCommandPath`: the fairness of `ControlClient` and of `EventDelivery`, each required
  only in the behaviours of its own end.
* `AccessControl` has safety properties only.

## Proofs

TLAPS checks the theorems below for every value of the constants that the `ASSUME`s
of the modules admit; the runs above check the same properties on small instances.
The invariants were tried with TLC on the runs' instances before they were proved.

| Theorem | States |
|---|---|
| `GateControllerProofs!TypeCorrect`, `ControlCorrect` | `[]TypeOK`, `[]ControlInv` |
| `InterlockHolds`, `MotorCorrect` | `RelayInterlock`, `MotorFollowsState` |
| `MotionWatched`, `AutoCloseKept`, `ReversalPending` | `MotionIsWatched`, `AutoCloseNotForgotten`, `ReversalIsPending` |
| `LatchCorrect`, `NeverClosesBlind` | `LatchFollowsBeam`, `NoBlindClosing` |
| `FaultLeftVerified` | `LeavesFaultVerified` |
| `ControlClientProofs!TypeCorrect`, `HandsCorrect`, `OwnershipCorrect` | `[]TypeOK`, `[]HandsInv`, `[]OwnInv` |
| `ContractKept`, `ReceiptsComeFirst` | `Spec => KeepsContract` (the refinement of `AckContract`), `ReceiptFirst` |
| `SimClientProofs!PositionCorrect`, `MotionGoverned` | `PositionIsTrue`, `MotionIsGoverned` |
| `SimContractKept` | the simulator's refinement of `AckContract` |
| `EventDeliveryProofs!DeliveryTyped`, `SessionsExact`, `NothingReplayed` | `TypeOK`, `SessionExact`, `NoReplay` |
| `AccessControlProofs!LatchesCorrect`, `VerdictsJustified` | `LatchesHold`, `VerdictIsJustified` |
| `TrailCorrect`, `FramesSettled` | `OpenHasItsDecision`, `FrameIsSettled` |
| `AdminToldTheTruth`, `ListingsExact` | `AdminIsToldTheTruth`, `ListingIsExact` |
| `FirmwareProofs!NextBootCorrect`, `NetworkNoticed` | `OtaSpec => []NextBootIsSound`, `EthSpec => []NetworkIsNoticed` |
| `LedCorrect`, `StreamCorrect` | `LedShowsPattern`, `StreamIsExact`, each of its own specification |
| `PartsProofs!AdminCorrect`, `ReplayCorrect` | `CallsAreSound`, `ReplayIsFaithful`, likewise |
| `FeedCorrect`, `PipelineCorrect` | `FeedIsSound`, `PipelineIsSound`, likewise |
| `PartsRunAlone`, `PartsCorrect` | a behaviour of `Parts` is one of each part, so the eight properties hold of `Parts` |

None of these properties is inductive. What is added, and why:

**GateController.**

* `ControlInv` ties the program counter to what the call in progress serves and to
  its outputs: at `drop` the outputs are those of the step just taken, a job that
  resolves the position finds the machine in Initializing. Without it an arbitrary
  `out` could reach the relays.
* `MotorInv` says what the contactors are *inside* `execute`: after the first write
  at most the one that stays, which is why the second write cannot close both.
* `DebtInv` (`WatchdogOwed`, `AutoCloseOwed`, `ReversalOwed`) extends each "timer
  runs or event in flight" to the program points between the step that incurs the
  debt and the call that pays it. `PostOwes` and `ReceiveOwes` say that posting
  loses no event but through overflow and that receiving takes only the head.
* `BeamInv` orders the beam edges in flight: behind every edge that is out of date there
  is one that agrees with the committed beam, and a latch that disagrees with the beam
  has such an edge in flight. `PostKeepsOrder` and `TailKeepsOrder` carry the order
  through the queue. It is the order, not the presence, of the edges that makes
  `LatchFollowsBeam` true, which is why a variant that posts to the front breaks it.

**ControlClient.** `HandsInv`: a thread has a command exactly at the calls that deal
with it. `OwnInv`: a command that is owed an answer is in exactly one pair of hands
(reader, tracker, the two verdicts, updater), any other in none. Together they make
the stage that the refinement mapping computes a function of the command's fate
(`StageInv`), and each action is shown to be a step of the contract or a stutter of
it. `QueuedInv` and `HeldInv` add that a completion on its way, queued or still held
by a thread that has tested `connected_`, belongs to a command whose receipt is
queued before it.

**SimClient.** `Sound(gate)` relates the virtual gate's state, position, motor, beam
and timers; it is proved of every pure step, then of the loop of `advance()`, whose
four deadlines may fall due in one call. `AnswerInv` places the one answer of a
command in the tracker, in the list of acks or on the wire.

**EventDelivery.** `DeliveryInv`: an id of one server run is handed out once; an event
is at one place at a time on its way to a subscriber (a publisher's fan-out, the
queue, the wire, the client); what a dashboard has read is behind its cursor; and
what a session is owed is what is on its way. The replay in `subscribe()` is a loop
over the ring, so `ReplayIs` says what it leaves in the queue for any ring.

**AccessControl.** `LatchInv` carries the epoch of an override through the three locks
of a decision and through the two steps of an operator. `VerdictInv` says that a
request between its locks has read something that the tables have said since it
began. `TrailInv` follows a decision from the handler to the bus, and a frame from
the daemon through its attempts. `WalkInv` says that a listing is complete up to its
token. `WindowContains` is shown to agree with the reference `InWindow` for every
window, past midnight too; the batch transaction to be all or nothing with true
counts for every batch; `Ordered` to sort every table.

**OtaUpdater.** `OtaInv`: a slot that may boot is sound (`SoundSlot`), that is, it holds
a whole image of a release the site stands for, or just a whole one while it is in
`rewritten` (`FlashInv`); what runs came from such a slot (`RunningInv`); and each
step of an update knows what the steps before have established about the spare slot,
and that it is in `rewritten` when it was staged before (`UpdaterInv`). Only the order
read-back, signature, boot slot makes it hold at a power cut.

**The other parts.** `EthInv` says that the news of an address that is held is still in
the queue, with no news of a lost one behind it, or has been handled. `LedInv` says what
`render()` and `on_tick()` have done at each of their accesses. `AdminInv` follows a
call from its token to the answer. `ScenarioInv` counts: what was played is `iteration *
n + index` events, and the epoch is the instant the first of the iteration was asked
for; `LoopsInv` that the stored count is the document's, reduced; `Position` recovers
index and iteration from the count. `FeedInv`: the ring is the run of ids up to the
reader's, sent and missed together are such a run, and telemetry newer than the sink is
on the wire or shown.

**GrpcStream.** `GrpcInv` holds for any frames, payload sizes, buffers, slices and
chunks. `WireInv`: each byte in the provider, on the wire or in a chunk is the one that
the frames put at its place of the stream, and the three follow each other without a gap
behind the bytes consumed. `HandledInv`: what was handled are the first messages, whole
and in order, and the assembler is as far inside the next frame as bytes were consumed
since (`Inside`). The places are sums of lengths: `SumsGrow` orders them, so a byte
belongs to one frame only (`Located`), and a chunk that ends inside a header or a
payload is no special case. `HeaderSays` is the encoding of the length and its decoding.
`HandledArrived` then identifies what was handled with the reference `Arrived`, which
takes the largest number of frames that fit.

**AlprPipeline.** `PipelineCorrect` holds for any detections, frame, canvas, margin,
unit of length, thresholds, stalls and retries. `AlprInv` adds to the property that the
detections in hand are one of the orders of `Detect(raw)`, and `CadenceInv`: the
deadline is the first frame's instant and one interval for each frame asked for, and
the one before it has passed. The rest are lemmas about the operators:

* `CollectIs`: `Collect` yields the kept elements, all of them, in their order. From it
  `DecodeSpells` gets one letter per run of a path.
* `UnmappedWithinFrame`, `AxisFits`: unmapping and clamping stay in the frame, and
  rounding origin and size separately (`PixelsFit`) does not leave it either. The unit
  and the scale are symbols there, so `Divided` states what a quotient is.
* `DetectSorts`, `RankIs`: in any sorted order the elements that score better than the
  k-th come before it, so fewer than k of them exist; and a detection with at most
  `MaxPlates` contenders is among the first `MaxPlates`. That is a count of two finite
  sets through the bijection that the order is.

*Assumptions.* Capacities and periods are positive, a watchdog allows one stroke
(`MotorTimeout >= Travel`), an image fits its slot, the shipped release does not crash.
Inputs have the types that parsing gives them: entries, batches and texts of the store,
frames and instants of the decision, documents of the scenario source, boxes and paths
of the networks. TLC evaluates each `ASSUME` on the instance of the runs.

*Exceptions.* Some properties state a case they leave out, and the theorems leave out
the same: the beam and timer properties of the gate after an event was dropped,
`SessionExact` for sessions that dropped, `NextBootIsSound` for a staged slot that is
written over, `ReplayIsFaithful` for counts beyond `unsigned`, `FeedIsSound` for the
registration gap, `LedShowsPattern` for calls that overlap. What happens
there is said below.

*Loops.* A loop of the code that a theorem is about is a recursive function over the
prefixes of a sequence (`Transaction`, `Replay`, `Ordered`,
`Collect`, `Totals`); what it computes is
proved by taking the least prefix for which it would be wrong.

*Only model-checked.* The liveness properties (`MotionEnds`, `ReversalHappens`,
`CommandsEnd`, `OwedIsTaken`, `StopReleases`, `ControllerComesUp`, `StopEnds`), since
fairness is out of the prover's reach. Every safety property that a passing run checks
is a theorem.

## What the checks showed

Five runs expect a violation. Each states what a comment or a document says and is
refuted by what the code does; `PROJECT.json` quotes the lines.

* `gate_boot_beam`: a beam edge between `is_blocked()` and `set_callback()` in
  `start()` is lost, and a close is driven against the obstacle.
* `event_command_replay`: a gate that reconnects is sent every command still in the
  ring again.
* `access_lockdown`: an OPEN_GATE decided before a LATCH_CLOSE is published after it.
* `led_threads`: two tasks in `render()` both find the blink timer inactive; the second
  start fails its `ESP_ERROR_CHECK` and the controller resets.
* `ota_restaged`: a BEGIN_OTA within the 1.5 s of the reboot timer writes over the slot
  that is staged to boot; when the timer fires before its checks, a whole image that
  nobody has verified is booted. How much is written within 1.5 s depends on the image
  and the server, not on the code. A partial image is refused by the bootloader.

Observations made while modelling that have no run of their own:

* The refusal of a close can be reported before `handle_command` has armed the tracker
  (`control_client.cpp:474`, `:492`); the deadline answers instead.
* A tick of the LED's timer that ends one pattern can stop the timer that `render()` of
  the next has just found running, so that nothing picks the new pattern up, although
  `status_led.hpp:69-70` says the next tick does; or light the LED after it was put out
  (`status_led.cpp:83-157`). `LedShowsPattern` leaves out calls that overlap.
* Ids begin again with the server process (`event_broadcaster.cpp:145`); a dashboard with
  an old cursor misses the new events up to it, although `event_stream.hpp:5-9` says the
  replay fills any gap.
* What a full subscriber queue dropped lies below the cursor after the next event, so no
  replay brings it back, although `event_broadcaster.hpp:17-19` says so; a replay longer
  than the queue drops its own beginning. `SessionExact` and `OwedIsTaken` leave out
  sessions that dropped.
* `loop` of a scenario is cast to `unsigned` (`scenario_source.cpp:198`): a count is
  replayed modulo 2^32, although `scenario_source.hpp:45` says `loop` times.
  `ReplayIsFaithful` compares with the document's count while it fits.
* `EventStream::stop()` misses a thread that has tested `stop_` and not yet published its
  context (`event_stream.cpp:39`, `:59-63`), and joins a stream nobody cancels, although
  `event_stream.hpp:44` says it cancels the stream in flight. `StopEnds` leaves out this
  one place.
* A status snapshot that is applied after a newer one, or after newer telemetry
  (`live.ts:30`), and an event that falls between `recent_frames()` and `add_sink()`
  leave the tile stale until the gate's next telemetry, although `live.ts:4-6` says the UI
  converges. `TileHeals` bounds it by that.
* `main.cpp:235-236` takes reaching the handshake to mean that "drivers, controller,
  and RPC all came up"; an Ethernet failure only runs the gate offline
  (`main.cpp:222-224`) and the image is marked valid.
* A BEGIN_OTA that arrives before the handshake is refused by `esp_ota_begin`, because
  the running image is still unverified.
* Nobody registers `on_lost_ip`, and a GOT_IP behind a DISCONNECTED in the queue sets
  the bit of a dead link; the client then tries in vain until the next change.
* `expand_box_with_margin` rounds origin and size separately, so that up to a pixel
  at the far edge of the plate is cut off.
* `process()` leaves the recogniser's confidence floor to its caller by design
  (`alpr_pipeline.hpp:65-66`); the daemon does not apply it either, so a reading of any
  confidence is submitted and only the server's threshold filters it.
* After a stall the camera submits a burst, since its deadline counts from the last
  deadline.
* `streamConnected` is false until the first event (`event_stream.cpp:66-73`), although
  the stream may be up.
* A browser that reconnects is sent the ring again, and disconnecting and connecting at
  once can leave two sockets (`live.ts`).
* A 401 for an old token that arrives after a fresh login ends the new session
  (`auth.ts:24-29`).
* `list()` returns every page but the last before its follow-up queries
  (`allowlist_store.cpp:555-558`), so those entries come without classes and windows,
  while `README.md:1611-1613` says they are stitched in. `Page` models this.
* A stop caused by one motion completes whichever command is armed when the listener
  runs (`command_tracker.cpp:45`), perhaps one that was armed after the motion began.
* The reversal starts Opening without looking at the limit switches; when the open
  switch is already asserted only the watchdog ends the motion (`MotionEnds`).
* A force-open override authorises blocklisted plates and frames of low confidence,
  as `fusion_engine_test.cpp:269-283` expects, though the ladder in
  `fusion_engine.hpp:6-16` lists it later. A LATCH_OPEN after a LATCH_CLOSE replaces
  it, and a server restart forgets both.
* A window past midnight is tested against the bit of the current day, not the day it
  began; a window whose ends are equal is empty.
* A frame that is submitted again can open the gate once per attempt, and the handler
  of an abandoned attempt may publish after the decision of the next one.
* The simulator arms the tracker before it steps the gate and reports limits by
  level, so it meets neither the refusal race nor the reversal into an asserted
  switch; its reboot keeps the tracker, which the firmware's does not.

## What is not modelled

* TensorRT (`trt_engine.cpp`) and the tensors it is given: numerical and external; what
  the networks return is an input of `AlprPipeline`. LiDAR input arrives with a frame.
* HTTP/2 settings and flow control, TLS, generated protobuf code, logging, command
  lines, the formatting of JSON fields.
* Debouncing: an input's committed value may change at any moment instead.
* Clocks of the firmware: an armed deadline or one-shot may pass at any moment, which
  includes every order the clock allows (the simulator, whose clock is `advance()`,
  counts it). The wrap of the 32-bit millisecond clock is therefore out of the model,
  and so are the durations of backoffs.
* The states a frame reports (`state_after`, telemetry contents), hence the race on
  `last_wire_state_` (`control_client.cpp:435`).
* The browser's list of recent events and the Svelte views; database read errors; the
  mock server, a test tool; provisioning.

## Plan

Done: the firmware core, the command path and its contract, event delivery, access
control with the allowlist, the simulator, and the parts around them (updater, LED,
framing, Ethernet, pipeline, scenarios, dashboard), with proofs of every safety
property.

Next, in this order:

1. The state a frame reports, for the race on `last_wire_state_`.
2. The debouncer of the limit switches and the beam.
