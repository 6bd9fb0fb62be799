# Rust-Microproject: the sorting cell and the wireless emergency stop, in TLA+

The repository holds two embedded systems and some teaching demos. This
directory models the two systems, model-checks them on small instances and
proves the central facts for every size.

* **The sorting cell** (`src/Project ESP32S3/rust`): an ESP32-S3 that sorts
  coloured caps into six hoppers, sends an AMR to fetch a box when a hopper is
  full, has a cobot stack boxes on pallets, and reports to a SCADA and to a
  database, all over MQTT.
* **The wireless E-stop** (`src/E-Stop`): a handheld with a normally closed
  button loop that sends Heartbeats by radio, and a pod on the rover that trips
  when it hears a Stop or nothing.

## 1. Inventory

### Sorting cell

| Component | State | Operations | Talks to |
|---|---|---|---|
| `ControlState` (`control_state.rs`) | order (mode, targets, counters, `id_lote`), hopper counts, AMR fields, cobot fields, pallets, notice flags; the counts also in flash (NVS) | default, save, reset, load | shared under one mutex |
| MQTT callback (`mqtt_manager.rs`) | none of its own | SCADA `status`, `set_mode`, `gen`, `reset`; Delta, AMR and cobot reports; `estop`/`resume`; answers to `db/pull` | `try_lock`s `ControlState`, writes `emergency_stop`, fills a 64-place event queue, answers through `pull_slot` |
| Logic task (`logic_task.rs`) | colour rotation, id counters, locals of a cycle | every 500 ms: drain events, spawn a cap, handle a cobot completion (may wait 5 s for an operario), time out, dispatch, publish | everything above; the only writer of most fields |
| Emergency task (`emergency_task.rs`) | two edge flags, last state shown | buttons to `emergency_stop`, LED, buzzer, status message | locks the MQTT client |
| MQTT client (`mqtt_manager.rs`) | session, place in the list of topics | connect, subscribe with retries; the library reconnects, and calls the callback under a lock of its own | `main`, both publishers |
| Wi-Fi manager (`wifi_manager.rs`) | station, association, address, `wifi_ready` | set up, connect with retries, watch, reconnect | `main`, through `wifi_ready` |
| Start-up (`main.rs`) | none | wait for Wi-Fi, make the client, subscribe, start the tasks | all of them, once |
| Delta, AMR, cobot, database bridge, broker | outside the repository | do and report | MQTT, QoS 1: at least once, late, twice |

What makes it hard: three threads share one mutex and one MQTT client, which has
a lock inside, and two of them give up when a lock is taken; a robot's report
passes through two queues before it is used; two timeouts race late answers; a
restart keeps the hopper counts and forgets everything else, while the plant
goes on; the network is built by four parties that each try again on their own.

What makes it correct: a box belongs to one hopper and one robot at a time and
gets one id; hopper counts match flash; batches are neither overrun nor
announced early; pallets close at their capacity; nobody waits for a robot or
for a lock for ever; an emergency is heard, parks the cell and is shown.

### E-Stop

| Component | State | Operations |
|---|---|---|
| Safety machine (`shared/src/safety.rs`) | Armed/Tripped, Live/Lost, time of the last reception | Heartbeat, Stop, Tick, `mark_rx` |
| Pod (`pod/src`) | `RX_CHAN` (8 places), the loop's timer, iterations since the last report | radio task, select loop, USB report |
| Handheld (`handheld/src`) | pin, interrupt, notification, `LOOP_CLOSED` | debounce thread, Stop burst, heartbeat thread |
| Wire format (`shared/src/frame.rs`, `cobs.rs`) | none | encode, decode |
| Host bridge | not in the repository | stops the rover on a trip, a lost link or silence |

What makes it hard: the radio loses frames, the two handheld threads look at
one flag at different moments, an interrupt that fires is off until it is
enabled again, and either board may restart. What makes it correct: an open or
dead handheld stops the rover within a bounded time, a trip lasts, and a
damaged frame is never taken for another.

### Not modelled

* The Arduino sketch is a template the Rust firmware replaces; the demos and
  lessons belong to neither system.
* The host bridge of the E-stop is not in the repository. What it should do with
  the pod's reports is in the E-Stop's README, and enters as `HostStops`.
* A USB write that blocks, the set-up of both radios and of the board's
  peripherals, and the MQTT library's retransmission are behaviour of drivers. Of
  `publish_text` the model has that the client takes a message or refuses it.
* Payload text, `pending_source` (the wording of one message), logging and
  `total_processed` are data no property reads.

`PROJECT.json` lists every component, and every hazard met in the code with the
property that covers it or the reason none does.

## 2. Modules

| Module | Models |
|---|---|
| `CellState` | variables and types, `ControlState::default`, flash, the messages and `Publish`, which may fail |
| `MqttCallback` | one action per message the callback handles |
| `LogicTask` | one action per critical section or publication of a cycle |
| `Cell` | composes both with the plant, time, faults and restarts; the properties |
| `CellReset` | `Cell` with a history variable: the batch a reset was given for |
| `CellStop` | `Cell` with a history variable: what each robot was told since the emergency stop was set |
| `Boxes` | abstract: what the cell promises about boxes; `Cell` implements it |
| `Locks` | the four locks of the controller and who has them |
| `WifiManager` | the Wi-Fi thread and the station it drives |
| `EmergencyTask` | buttons, their interrupts, `emergency_stop`, LED and status message |
| `Controller` | composes the three with start-up, the MQTT client and the locks of a cycle; the properties |
| `Safety` | the safety machine as operators on a record |
| `Handheld`, `Pod` | the two boards |
| `EStop` | composes them with the radio, time and crashes; the properties |
| `Watchdog` | abstract: what the pod promises the rover; `EStop` implements it |
| `Wire` | frames, their CRC and COBS, as functions on bytes |
| `EStopWire` | `EStop` with the bytes of its frames, and what may happen to them |
| `MCCell`, `MCReset`, `MCStop`, `MCController`, `MCEStop` | values for TLC |
| `CellProofs`, `BoxProofs`, `CellStopProofs`, `ControllerProofs` | theorems about the cell and its controller |
| `EStopProofs`, `EStopBounds`, `WireProofs`, `EStopWireProofs` | theorems about the emergency stop |

`Cell` and `Controller` are two views of one firmware. `Cell` has what a cycle does
to `ControlState`, with locks that may be found taken at any `try_lock`.
`Controller` has who takes which lock when, and what comes before and around the
cycle; of a cycle it keeps every lock it takes or tries, in their order: the
drain's wait for `ControlState` at each report, the spawn, the two `try_lock`s of
`handle_cobot_completed`, the two waits for `pull_slot` with the 5 s wait between
them, every publication, and `publish_status`. What a section finds under its lock
is open there. What crosses from one to the other is `emergency_stop`,
which is free to change in `Cell` (`Emergency`) and has its writers in
`Controller`, and the commands, which reach `Cell` whenever they like.

How state corresponds to code, where it is not one to one:

* The fields of `ControlState` are grouped: `order` (mode to
  `manual_spawn_pending`), `amr` (the `amr_*` fields without the prefix), `cobot`
  (the `cobot_*` fields), `pallets`, and `flags` (the three `bool` notices).
* A colour is its hopper's index, as `color_to_index` makes it. `Rotation` is
  `VALID_COLORS`, whose order differs from the hoppers'; TLC gets a reversed
  rotation so that the two are not confused (the plain one in `CellTimely`, where the
  first hopper has to fill first, and `CellBatches`, which has one colour).
* An `Instant` is only compared with one fixed delay, so it is `"off"` (None),
  `"running"` or `"due"`. `LoadingDelayElapses`, `AmrTimeoutElapses` and
  `CobotTimeoutElapses` make it due at any time after it was set. The E-Stop
  needs quantities instead and counts units of 100 ms.
* A section under the mutex is one action. The callback only `try_lock`s: a
  command that meets a held lock is dropped, a step that changes nothing. Where
  `logic_task` `try_lock`s, the failure is an alternative (`LocksContended`).
* `pc` is the place in the logic thread's cycle; `job` its locals between the
  sections of `handle_cobot_completed`.
* `out` holds what the last step handed to `publish_text`, `lost` what of it the
  client refused (the fault `publish_error`); the rest reaches the plant. The
  caller never learns: it has counted the cap and cleared the notice in either
  case. `caps`, `amr_goal`, `arrivals`, `cobot_task`, `completions` and `bridge` are
  the plant and are external.
* A restart (`Reboot`) comes between two sections, or cuts one short where flash or
  the plant can tell: between the count of a cap and the end of its save
  (`CutDelta`), within the save of a collected hopper or of a reset (`CutLoad`,
  `CutReset`), and after any of the messages of `publish_status` (`CutPublish`). Reports in the event
  queue are lost with the rest of memory.
* In `Controller` a lock is an entry of `holder`. The MQTT library runs the
  callback under a lock that a publication or subscription needs as well, which
  is why a callback that waited for `ControlState` could block a publisher that
  has it. `link` is the station's truth, which the Wi-Fi thread only sees through
  `is_connected`. The emergency task subscribes to its buttons anew in every pass,
  and an edge that comes while their interrupts are off is not seen: `Press` is
  only possible where the flag it sets is still read.
* A byte of `Wire` is the set of its bits that are 1 and a CRC register likewise,
  so that xor is the symmetric difference and a shift a renaming of bits.
* The pod's `last_rx_ms` is `since_rx`, the time since then. `Elapse` lets a unit
  pass only when every frame in the air has landed or is lost and every thread
  that is ready has run; threads may oversleep by `Jitter`.

`PROJECT.json` maps every definition to its lines.

## 3. Properties and runs

### Cell

`CellFaults` (2 hoppers, boxes of one cap, pallets of two boxes, a queue of 2,
two commands of any kind, a quantity of 6 cut to a 2-bit "u32", one fault of any
kind, contended locks, emergencies; 1.4 million states):

* `TypeOK`.
* `AmrCoherent`: hopper, dispatch time, box and arrival of the AMR agree between
  any two steps. Five fields, written by two threads, cleared in four places.
* `BoxesFlow`: the cell implements `Boxes` (see Refinements).
* `WarehouseTripCarriesBox`: an AMR sent to the cobot has a box, the box is
  registered in the same step and its hopper, no other, is emptied.
* `BoxesInOrder`: the box being recorded, the one the cobot has, the one the AMR
  has and the next one have increasing ids: no box is in two places.
* `PalletSeries`: no full pallet stays open, and two colours never share an id.
* `RestartKeepsCounts`: a restart brings every hopper back with the count it had, or
  with the one change that was being saved: one cap more in the hopper of the
  report being counted, zero in the one being collected, zeros during a reset. In
  this run only the restart cuts a save short; a key that cannot be written
  (`NvsMayFail`) leaves an old count in flash, which no restart can repair.

`CellBatches` (1 hopper, three commands, one message of any kind may be refused;
230 000 states): `BatchWithinTarget`, that neither counter passes the target however
late reports and new orders mix; and `BatchCompletes`, that the last batch ordered is
completed and, after that, announced. The notice of an earlier batch does not count
as its announcement. The premise `CommandsSent` is needed: a refused spawn counts as
spawned, its cap is never made, and the batch waits for it for ever.

`CellTimely` (2 hoppers, contended locks, no faults; 118 000 states), liveness with robots
that answer: `FullHopperCollected` and `StatusAnswered`. A batch of three caps in
rotation, all spawned before the first is reported, lets hopper 0 fill again while
hopper 1 is full and waits, so that the AMR, which takes the first full hopper, passes
hopper 1 by. Orders are bounded; whether a supply without an end could keep hopper 1 waiting for ever is open.

`CellBrokenRobots` (1 hopper, robots that may never answer, messages that may be
refused, saves that may stop half way, emergencies; 163 000 states): `AmrReleased` and
`CobotReleased`, that the timeouts free the robots, and `EmergencyParks`, that a lasting
emergency ends the cycle in progress and publishes nothing more. `CobotTimed` is the
safety half of `CobotReleased`: a cobot at work has its timeout running and no
report of its end unread, although the report of one job and the start of the
next meet in the same fields. `LastCommands` (the run takes `CellStop`'s
specification, which adds only the history): `publish_status` does not look at the
emergency stop, so that a robot may be told something after it was set; but no
robot is told anything twice, however long the stop lasts, because the cycle under
way is the last one and none of its sections comes twice.

`WarehouseTripCarriesBox`, `LastCommands` and `StatusAnswered` speak of messages handed to
`publish_text`; whether the client takes them is up to the network.

Bounds: two hoppers are enough for one to be full while another is served and
for two pallet series to meet; a threshold of 1 and a capacity of 2 make boxes
and full pallets frequent; a queue of 2 overflows while `logic_task` is parked
or waits for an operario. `MaxCommands` and `MaxFaults` bound the inputs, not
their order. A property that holds once all faults are used up is excused by
`Excused`.

### E-Stop

`EStop` uses the code's own timing (tick 1, Heartbeat 2, timeout 6, two ticks per
report, jitter 1, burst of 3) with a channel of 2, two changes of the pin, one
fault (a crash of either board, or a frame of another sender, which the radio
task queues as `BadFrame`), and any losses (3.5 million states):

* `SilenceTrips`: a pod that has taken nothing for the timeout and one tick is
  tripped. A frame of anybody ends the silence, as `mark_rx` has it.
* `LoopOpenStops`: within `SettleTime` (1 s) after the loop is seen open, or the
  handheld died, the host stops the rover, though every Stop is lost, a
  Heartbeat was on its way or the pod restarts.
* `SeenPressStops`: a press that lasts stops the rover unless it came in the
  window `EStopMissedPress` is about.
* `HostCurrent`, `TripHasCause` (no stop without an open loop, a crash or two
  losses in a row), `TripLatched` (until the pod restarts).
* `KeepsPromise`: the pod implements `Watchdog` (see Refinements).
* `AirIsUnderstood`: the pod decodes each frame of the handheld to what was
  meant, and takes one with up to three inverted bits, one replaced byte or a
  missing end for noise: a damaged Stop never passes for a Heartbeat.
* `HostResyncs`: a host that misses any stretch of two successive reports, or
  begins to read in the middle of one, reads no state the pod did not send, and
  is in step again at the next delimiter.

The bounds are tight. With the code's timing `LoopOpenStops` holds for a `SettleTime` of
0.9 s and fails for 0.8 s, and `SeenPressStops` holds for 1 s and fails for 0.9 s, as
the theorems' inequalities have it (section 4).

`LoopOpenStops` and `SeenPressStops` are stated for behaviours without strangers'
frames (`noise = 0`): each one restarts the pod's timeout, and no bound holds for a
sender that goes on. `TripHasCause` needs two losses in a row because the first
alone leaves 200 ms of margin even with jitter; booting counts as one loss.
Booting is assumed to end within the timeout (`PodAssumption`): a pod that takes
longer trips at its first tick, which is safe. The bytes of `Wire` agree with
the repository's own examples: `crc16` of "123456789" is 0x2189, and a report is
the a5 01 01 07 00 6f 0b its README shows.

### Controller

`Controller` (two topics, one loss of link, address or session, driver calls that
fail any number of times; 16 000 states). A behaviour in which `logic_task` runs
its cycles (`cycles`) has `MaxDropsInCycles` losses, none in this run, and one in which
it stays idle `MaxDrops`: the cycle's locks and the network's losses meet only in the
library's lock, which a loss does not touch.

* `ControllerTypeOK`.
* `SubscribedAtFirst`: the tasks start with every topic subscribed to, however
  many attempts failed while the client was connecting.
* `NoCircularWait`: in no set of threads does each wait for a lock another of
  them has, over all four locks and every wait of a cycle; and `CycleEnds`, that
  every cycle comes to its end, whatever the others hold when it tries or waits.
* `LampRemembered`: LED and last status agree with what the emergency task
  remembers, except on the way from a change shown to its status, when the LED
  alone is ahead. What changes while the task waits for the client is found in the
  next pass, because it is not what is remembered.
* `PressHeard`: an emergency press the task was woken by stops the cell, whatever
  the resume button and `emergency/action` do in the same moment.
* `StopShown`: once `emergency_stop` settles, the LED and the last status agree
  with it, although it may change while the task waits for the client.
* `StartsUp`, `NetworkRecovers`: the cell starts, and a lost network comes back, or a
  call that is not tried again has failed. The exception in `StartsUp` is real: a
  station that is associated and stays without an address is never given a second
  chance, as `is_connected` does not ask for the address.

Two topics are enough for one to be subscribed to while the other is not, one
loss for every place in start-up where it can come, and presses and commands are
not bounded at all.

### Where code and documents disagree

Six runs are expected to be violated. Each trace is the finding.

| Run | What the trace shows |
|---|---|
| `CellWrongPallet` | the AMR delivers box 2 while the cobot stacks box 1; the completion of box 1 is recorded as box 2 on the pallet of box 2's colour |
| `CellBatchNotice` | a new order between the last cap and publication gets the old order's `batch_complete` |
| `CellLostCompletion` | a completion handled one cycle late, after a failed `try_lock`, clears the start time of the next job; if that job never completes, no timeout frees the cobot |
| `CellReset` | `reset` clears `id_lote` before `publish_status` reads it: the database is never reset |
| `EStopMissedPress` | an edge after the pin was looked at and before `enable_interrupt` raises no interrupt; the button is held and Heartbeats go on. (The shortest trace has the first look, at boot; the sample in the loop leaves the same window.) |
| `ControllerDeaf` | the session ends and opens again; nothing subscribes a second time, and `emergency/action` is not heard any more, though SISTEMA.md has the cell listen to it |

`CobotReleased` passes in `CellBrokenRobots`, with locks that are free, and fails in
`CellLostCompletion`, with contended ones; `SubscribedAtFirst` holds at the start,
and `NeverDeaf` fails later. Those pairs say what each depends on.

Five more statements of the documents are not what the code does; no run is
about them:

* SISTEMA.md:73 and :112 have `logic_task` as the only one that publishes;
  `emergency_task.rs:98` publishes too. `Locks` and `NoCircularWait` exist because
  of it.
* SISTEMA.md:286 sets `emergency_stop` at every press; an edge between the swap of the flag
  and the next subscription raises no interrupt (`EmergencyTask.Press`).
* `wifi_manager.rs:62` has `wait_until_ready` guarantee that MQTT does not start
  without a network; the link may be gone again when it returns, and the retries of `subscribe_all_topics` make up for
  it.
* SISTEMA.md:314 has `auto_spawned` as the caps already made in RoboDK. A spawn the
  client refuses is counted too (`logic_task.rs:196-197`): no cap is made, and the
  batch never completes. It is the premise of `BatchCompletes`; without it the property
  fails.
* The E-Stop's README.md:89 has the pod trip 600 ms after the handheld stops
  transmitting; `pod/src/main.rs:72` counts any frame, `BadFrame` included.

### Refinements

* **`Cell` implements `Boxes`** (`BoxesFlow`). The abstract state is one box counter and
  the box that the AMR, the cobot and the record of a pallet have; a step makes a
  box at the AMR, hands one on, or gives one up, and a restart numbers afresh. The
  mapping takes them from `next_caja`, `amr.caja`, `cobot.pending` and the box `job`
  holds. What it excludes is a box that is recorded twice, changes its
  number or colour, or appears at the cobot without having been at the AMR.
* **`EStop` implements `Watchdog`** (`KeepsPromise`). The abstract pod hears, ages,
  trips, fails and boots, and must not be armed and deaf for longer than
  `Deadline`. Radio, queue, timer and handheld are gone: the deadline is the
  timeout plus one tick, which the detailed clock has to keep to although every
  frame starts a new timer.

### Fairness

* `LogicFairness`: FreeRTOS keeps scheduling the logic thread (weak fairness of its
  step, which includes waiting at most 5 s for an answer) and an `Instant` that
  is waited for is reached. Strong fairness of a spawn that is published: the
  callback holds `ControlState` for one command and the emergency task the client
  for one message, so `try_lock` does not fail at every cycle for ever.
* `RobotFairness` (`CellTimely` only): robots do what they are told, and what they
  report arrives.
* `ThreadFairness` (`Controller`): every thread goes on, and a mutex that is free again
  and again is given to the one that waits for it (FreeRTOS wakes the waiter of
  highest priority, and each of the three gives its locks back). A drain finds its
  queue empty in the end (`SF(EndDrain)`): robots report what cycles asked of
  them, and none asks while it drains. Buttons, commands and faults have none.
* `NetworkFairness`: driver and broker answer a call that is made again and again, and
  the client notices that its connection is gone, by the keep-alive.
* The E-Stop's bounds are safety properties over counted time and need none.

### Slips

Beside some operators stands a variant that nothing uses: a plausible slip in
the code at that line. Putting it in the operator's place makes the property
fail.

| Property | Variant |
|---|---|
| `TypeOK` | `NextCounterUnbounded`: the rotation is not taken modulo the colours |
| `AmrCoherent` | `AmrArrivedUnasked`: an arrival is not compared with the hopper the AMR was sent to |
| `BoxesInOrder` | `NextCajaSame`: the id counter does not move |
| `PalletSeries` | `FillsPalletOver`: `>` for `>=` |
| `RestartKeepsCounts` | `SaveTolvaCountsButLast`: the last key is not written |
| `WarehouseTripCarriesBox` | `AmrLostEvenLoading`: the timeout ignores the arrival |
| `BatchWithinTarget` | `AutoSpawnDueOneMore`: `<=` for `<` |
| `BatchCompletes` | `BatchDoneLate`: `>` for `>=` |
| `FullHopperCollected` | `FullTolvasOver`: `>` for `>=` |
| `StatusAnswered` | `NoticesWithLote`: status only sent with a batch |
| `AmrReleased`, `CobotReleased` | `AmrLostNever`, `CobotLostUnloaded` |
| `CobotTimed` | `CobotCompletedBusy`: a report leaves `cobot_in_progress` set |
| `EmergencyParks`, `LastCommands` | `BeginCycleAnyway`: the check at the top of the cycle is missing |
| `SilenceTrips` | `TickOnlyWhenLive`: a pod that never heard anything does not trip |
| `LoopOpenStops` | `LoopClosedAlways`: the heartbeat thread does not look |
| `EStopTypeOK`, `HostCurrent` | `ReportDueLate`: `>` for `>=` |
| `TripHasCause` | `TickTooEarly`: off by one |
| `SeenPressStops` | `SampledSticky`: a sample cannot open the loop |
| `TripLatched`, `KeepsPromise` | `HeartbeatRearms` |
| `BoxesFlow` | `CreditedFromAmr`: the completion is credited to the box the AMR has |
| `AirIsUnderstood` | `to_be_bytes`: the CRC is sent in the other order |
| `HostResyncs` | `UndelimitedCobs`: the delimiter is not appended |
| `ControllerTypeOK` | `LeaveMonitorReady`: `wifi_ready` stays set when the association is lost |
| `SubscribedAtFirst` | `AfterErrorSkips`: a failed topic is skipped |
| `NoCircularWait` | `TryControlWaits`: the callback locks for `try_lock` |
| `PressHeard` | `FirstFlagResume`: the resume flag is looked at first |
| `LampRemembered`, `StopShown` | `ShownNow`: what is remembered is read after the wait |
| `CycleEnds` | `HeldInVainStays`: a spawn that finds no client keeps `ControlState` |
| `StartsUp` | `RestartedNever`: a retry does not stop and start the station |
| `NetworkRecovers` | `LostNever`: the watch does not end |

## 4. Proofs

TLAPS checks these for every value of the constants that satisfies the named
assumptions (`CellAssumption`, `CajaAssumption`, `LogicAssumption`,
`PlantAssumption`; `ControllerAssumption`; `SafetyAssumption`, `PodAssumption`,
`HandheldAssumption`, `EStopAssumption`; `WireAssumption`), which only say that sizes
are positive numbers, that None and the other special values are none of the
ordinary ones, and that a frame is short enough for one block of COBS.

**The cell** (`CellProofs`, over `Cell`):

- `TypeCorrect` (`Spec => []TypeOK`). `TypeOK` is inductive; one lemma per group of
  actions. `publish_status` is cut along its decisions: what the AMR half and the
  cobot half do to their own records, then the counts it saves and the pallets.
- `AmrFieldsAgree` (`[]AmrCoherent`). Inductive together with the types. Every
  handler leaves `amr` alone (`AmrLeftAlone`), clears it, takes an arrival, or is
  `publish_status`, whose cases (loads, departs, times out, is sent) are
  `AmrStatusCoherent`.
- `WarehouseTripsCarryBoxes` (`WarehouseTripCarriesBox`, an action property). From
  the two above: only `publish_status` moves the AMR's destination
  (`OnlyStatusMovesAmr`), it sends it to the cobot only in the pass that loads, and
  a pass loads only where `AmrCoherent` says the AMR has arrived.
- `RestartsKeepCounts` (`RestartKeepsCounts`, an action property), given `~NvsMayFail`. Between
  two steps flash equals memory (`FlashCurrent`, the inductive part: three places
  change the counts, and each saves all keys before it returns). A restart that cuts a
  save finds the keys before the cut new and the others old, and the three counts
  that can be under way differ from memory in one hopper, or are all zero
  (`CutSave`, `RestartStep`). With a save that fails it is false, which is why the
  assumption is part of the statement.
- `BatchesWithinTarget` (`[]BatchWithinTarget`). Inductive with the types: the two
  counters grow only under their guard, and every other write of `order` starts a
  batch from zero or keeps both.
- `CobotAlwaysTimed` (`[]CobotTimed`), given `~LocksContended`. `CobotTimedInv` adds
  what `handle_cobot_completed` relies on: an unread report belongs to a cobot that
  stands still, the clock is only stopped while it does, and from the taking of a
  report to the next drain none waits, so that `publish_status` starts the next
  job over an empty `cobot_completed_event`. With contended locks it is false, which is the
  finding of `CellLostCompletion`.
- `AtMostOneLastCommand` (`StopSpec => []LastCommands`, in `CellStopProofs`). `LateInv`: a
  robot that was told something since the stop was set is one this cycle does not
  come back to (`MayCommand`, the phases from which it may still be told), and
  without a stop nothing is counted; a restart, which may cut `publish_status` short,
  comes up without one. `Told` has that a step commands a robot at
  most once and is the last of the cycle to do so, `NoWayBack` that while the stop
  is set no step leads back to such a phase.
- `CellImplementsBoxes` (`BoxesFlow`, in `BoxProofs`). The initial states map to
  `Boxes!Init`; then one lemma per action says what it does to the four abstract
  variables. Most leave them alone. `publish_status` is the case that needs
  invariants: that the box handed to the cobot is the one the AMR has, and
  that a new one is only made at an empty AMR, comes from `TypeCorrect` and
  `AmrFieldsAgree`.
- `BoxesKeepTheirOrder` (`[]BoxesInOrder`, in `BoxProofs`). This is where the abstraction
  pays: `OrderStep` shows that a step of `Boxes` keeps the order, from its definition
  alone, and `BoxesStep` that every step of the cell is one.
- `PalletsInSeries` (`[]PalletSeries`, in `BoxProofs`). Only the record of a box and a
  reset or restart change a pallet; `SameRemainder` has that adding the number of
  hoppers to an id leaves its remainder.

**The controller** (`ControllerProofs`, over `Controller`; one inductive invariant):

- `ControllerTypeCorrect`, `StartsSubscribed`, `NoDeadlockOfLocks`. The invariant `Inv`
  is the types and: `LocksAgree` (who is in which place has which lock, and the
  other way round), `LinkKept` and `TopicsPassed` (as long as nothing was lost, a
  session that opened is still open and the topics before `next_topic` are
  subscribed to), `PastTheList` and `NotBefore` (which thread exists when). The
  types alone do not give either of the other two. From `LocksAgree` a circle of
  waiting threads is impossible by the order control, client, library; `pull_slot` is
  waited for with no lock in hand, and the callback, which has the library's lock when
  it has the slot's, waits for none.
- `LampIsRemembered` (`[]LampRemembered`). Inductive with the types and `NotBefore`
  (the task starts with nothing shown). It is the safety half of `StopShown`.

**The emergency stop** (`EStopProofs`, over `EStop`):

- `EStopTypeCorrect` (`[]EStopTypeOK`): the queue keeps its capacity and the counter
  of iterations its bound.
- `SilentHandheldTrips` (`[]SilenceTrips`). It is not inductive: it compares the
  silence at the pod with a limit and says nothing of the pod's own clock.
  `SilenceInv` adds: while not tripped, the silence is at most the pod's own
  `since_rx`, and `since_rx` plus what is left of the current tick is still within
  the timeout and one tick. The assumption on `BootTimes` (a restarted pod starts
  with less than the timeout on its clock) is what makes a boot keep it.
- `HostIsCurrent` (`[]HostCurrent`). `ReportInv` relates the age of the last report to
  the counter of iterations and to what is left of the current tick.
- `TripIsLatched` (`TripLatched`). By cases of the loop: of the inputs of the state
  machine none leads from Tripped to another state; only a restart does.
- `PodIsWatchdog` (`KeepsPromise`): the steps of the loop, the clock and the power map
  to those of `Watchdog` or to none, from the types and `SilenceInv`.

**Its bounds** (`EStopBounds`, over `EStop`, from the invariants above). Each theorem
has an inequality between the timings as its hypothesis; it is what the worst case adds
up to, the code's values satisfy it, and with one unit less TLC finds the property
violated.

- `OpenLoopStops` (`[]LoopOpenStops`), if `SettleTime` is more than `HEARTBEAT_TIMEOUT` plus
  `USB_HEARTBEAT_TICKS` ticks (0.8 s). The inductive part is `Calm`: since the loop is open,
  no Heartbeat can be sent, is in the air or is in the queue (`NoHeartbeat`), and
  while the host does not stop the rover, that has lasted no longer than the pod's
  `since_rx`, or, with a dead pod, than the timeout and the age of the last report
  (`Bounded`). It spans handheld, radio, queue, machine and host because each may be
  the one that is late. A crash of the pod moves from one bound to the other by
  `HostInv`: what the host was told is what the pod was.
- `NoticedPressStops` (`[]SeenPressStops`), if `SettleTime` is one unit more. `PressInv`: a
  press that can be noticed has its thread notified, in the debounce or late, or
  the loop is seen open; time does not pass twice over any but the last. From there
  it is `Calm` again, one unit behind.
- `TripsHaveCause` (`[]TripHasCause`), if two Heartbeats, each as late as `Jitter` allows,
  fit in the timeout, and one fits in what a restarted pod has left
  (`TimelyHeartbeats`). `Paced` relates the pod's `since_rx` to how long the heartbeat thread
  has slept, to whether a frame is on its way and to whether the last one was
  lost. With a timeout of 0.5 s, or a boot that takes 0.4 s, TLC finds a trip without
  a cause.

**The wire** (`WireProofs`, over `Wire`):

- `FramesRoundTrip`: what `Encode` makes, `Decoded` gives back, for every kind and
  payload; and `OnlyFramesAccepted`, the other direction: a buffer that `decode`
  accepts is, byte for byte, the frame of the kind and payload it is taken for.
  Frames and accepted buffers are the same thing.
- `BurstRefused`: an accepted frame of any length in which two neighbouring bytes
  (or one) were changed to anything else is refused. The CRC of a frame with its
  own CRC is zero (`Residue`, `AcceptedResidue`); a shift of the register is
  injective (`ShiftedInjective`), two bytes enter it as 16 bits side by side (`TwoBytes`), so
  that two different pairs leave different registers (`PairsDiffer`), and equal bytes keep
  registers apart (`SameEnd`).
- `CobsRoundTrip`: `Unstuffed(Stuffed(frame)) = frame` for a frame of fewer than 254
  bytes, and what is stuffed has no zero (`StuffedFacts`). The invariant of the
  decoder's loop is that what is left to copy is the distance to the next zero.
- `HostInStep`: a host at a delimiter, or at the beginning, reads the payload of the
  next frame, whatever bytes precede the delimiter and whatever follows. From the
  two round trips and the delimiter, which no stuffed byte is.

`crc16` and `Unstuffed` are recursive functions. What they compute is proved by
induction all the same: `Counting` (a set of numbers that has 0 and with each its
successor has them all) follows from `Least`, which follows from the library's fact
that < on Nat is well-founded; it is used with the set of the positions up to
which the claim holds.

**The emergency stop's bytes** (`EStopWireProofs`, over `EStopWire`):

- `AirUnderstood` (`[]AirIsUnderstood`). What is in the air is a Heartbeat or a Stop, by
  the types of the handheld. Each is decoded to its kind by `FramesRoundTrip`. A
  damaged one is noise: one replaced byte by `BurstRefused`; a missing end by the
  minimum length; up to three bits (`FlippedUnheard`) because a change within magic
  and version, or within the CRC, is refused, and to turn one kind into the other
  takes two bits of the kind, one of the first byte of the CRC, which differs
  between the two (`KindsFarApart`, computed step by step from `VersionShifted` on), and
  one of the second, as three and four are neighbours. A kind that became
  StateChange is noise to the pod anyway.
- `LaterReportRead`, the half of `HostResyncs` about getting back in step, for every
  `MAX_PAYLOAD` of at least the two bytes of a report: a cut in the first of two
  reports leaves its delimiter and the second (`CutBefore`), and `HostInStep` does the rest.

Each property a theorem states is also checked by a run (`CellFaults`,
`CellBatches`, `CellBrokenRobots`, `Controller`, `EStop`).

TLC's part: liveness (TLAPS has no fairness or ENABLED); the other half of
`HostResyncs`, that a spliced stream is never read as a state the pod did not
report, which is a fact about the bytes of four reports and their 16 pairs and
which TLC settles by looking at every splice of each; and the six disagreements.
Every state invariant a passing run checks has its theorem.

## 5. Plan

What is left, in this order:

1. **Account of boxes and caps**: history variables that give every cap its
   batch, for the hazards without a property. It waits for a document that says
   what should hold.
2. **One model of the firmware**: `Cell` under the locks of `Controller`. The two
   state spaces multiply; what it would add over the interface above is the
   correlation between failed `try_lock`s and the thread that has the lock.

## 6. Running

    tlc -workers 2 -config CellFaults.cfg MCCell
    tlc -workers 2 -config EStop.cfg MCEStop
    tlc -workers 2 -config Controller.cfg MCController
    tlapm CellProofs.tla

Each `.cfg` belongs to `MCCell`, except `CellReset.cfg` (`MCReset`), `CellBrokenRobots.cfg`
(`MCStop`), `Controller*.cfg` (`MCController`) and `EStop*.cfg` (`MCEStop`). No run disables the deadlock check: the emergency may always toggle
or the logic thread always move, and in the E-Stop time always passes.
