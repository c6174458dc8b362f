# Formal models of the AirGradient Go firmware

The models cover the parts of `products/go` and the components it uses where several tasks,
callbacks, faults or restarts meet. Everything is translated from the code; documents are
quoted only where the code disagrees with them.

- [The system](#the-system)
- [Modules](#modules)
- [Runs](#runs)
- [Fairness](#fairness)
- [Proofs](#proofs)
- [Disagreements found](#disagreements-found)
- [Not modelled](#not-modelled)
- [Plan](#plan)

## The system

The Go is a battery-powered air monitor on a single-core ESP32-C5. One task, the
**orchestrator** (`go_orchestrator.cpp`), owns the operating mode (Portable, Stationary, or
Offline, shown as Energy Saving), the settings and the tracking session. It receives from one
FreeRTOS queue of 16 events; every other task only posts into it. A handler runs to its end
before the next event, so most interleaving is *inside* services that other tasks call
directly.

| Part | State it keeps | Operations | Other tasks or faults it meets | What makes it correct |
|---|---|---|---|---|
| Route storage `go_storage.cpp` | open stream, point count, time of last fsync | create, resume, append, end, delete, clear | torn writes, failed syncs, power cuts | synced points survive; slots stay whole records |
| Tracking `go_orchestrator.cpp`, `go_power.cpp` | Idle/Recording/Paused, session id, copy in RTC memory | start, pause, resume, stop, measure, mode change, sleep, boot | failed closes, sleep, resets | state shown = route open; a session's file is never taken away |
| BLE update `ota_ble_service.cpp` | state, pending command, counters, binary semaphore | START/DATA/END/ABORT callbacks; `run()` | NimBLE host task, silent phone, disconnect | only whole images; every transfer ends; writer not shared |
| Local HTTP API `go_local_api.cpp` | access, snapshots, FIFO of 4 requests, epoch | submit, trigger, pop, clear, publish | httpd task, full event queue, mode changes, updates | each admitted request handled once, under current authority |
| Settings `go_settings.cpp` | one record, saved key by key in NVS; the factory's mode, which is not | validate, merge, save, load, reset | seven writers, power cut during a save, reboots | never an invalid combination in force or loaded; what was not to be saved is not |
| Wi-Fi `go_wifi.cpp`, `wifi_manager.cpp` | STA state, retry, sweep, deadlines, flags for echoes | connect, disconnect, tick, callbacks | Wi-Fi event task, timers, lost events | a device with a network never stays unconnected for good |
| Provisioning `provisioning_manager.cpp` | transport, phase, Wi-Fi callbacks it took over | start, submit, stop | NimBLE and httpd tasks | callbacks handed back; one Connected event |
| Sensors `go_sensor_producer.cpp` | one notification value, PM state, pending flags | measure, prepare, sleep, sweep, calibrate, stop, start | requests crossing results, the task deleted anywhere | no request of the orchestrator replaces another, no reading of a sleeping sensor, measuring goes on |
| Cloud `go_cloud.cpp` | schedule, back-off | post, fetch configuration | network failure, mode change | back-off bounded, results of an old mode ignored |
| Fuel-gauge learning `fg_learning/` | stage, cycle, losses; the same in three NVS keys | arm, resume, tick, ship, verify, abort | resets between two writes, gauge resets, the operator's plug | no cycle uncounted for, verdict stored, every run ends |
| Serial commands `serial_command/` | one command awaiting its result | receive, complete | lost event | the task does not stay busy |
| Event loop | 16-entry queue, timer deadlines | receive, dispatch, compute timeout | queue full, 32-bit clock wrap | no deadline is missed |

### How they interact

Callbacks of the Wi-Fi, BLE and httpd tasks post events and never change orchestrator state.
They do change the state of their own service, and two services are written by both sides:
the BLE update through atomics and one binary semaphore, the local API under one mutex. The
orchestrator calls the route storage synchronously; the storage calls the NAND file system
through stdio. Settings flow from the UI, the cloud task (as an event) and the local API (as a
FIFO entry plus an event) into the orchestrator, and back out as published snapshots.

### What is hard

- *Power and media*: a record may be torn in the stdio buffer, the file system or by a power cut.
- *Interleaving*: a BLE callback between two stores of `run()`; an HTTP admission between the
  steps of a mode change.
- *Stale reads*: validation against a snapshot, wake events of discarded requests.
- *Limits*: a full event queue, a full FIFO.
- *Partial failure*: a close that does not flush, a save that fails, an update that fails half way.

The full list, with a source line each, is under `hazards` in `PROJECT.json`.

## Modules

| Module | Models | Kind |
|---|---|---|
| `RouteStorage` | route half of `StorageService` over stdio and the NAND file system | system |
| `DurableLog` | what recording promises: per session a log with a safe prefix | abstract |
| `Tracking` | the tracking session of the orchestrator; EXTENDS `RouteStorage`, implements `DurableLog` | system |
| `OtaBle` | `OtaBleService` and the flash writer, two tasks | system |
| `LocalApi` | `GoLocalApiService` and the orchestrator's handlers around it, two tasks | system |
| `WifiManager` | `WifiManager`: one station connection over the ESP-IDF driver, event task and timer task | system |
| `Stationary` | `WifiService`, a provisioning session and the orchestrator's policy; EXTENDS `WifiManager` | system |
| `SensorPipeline` | `SensorProducer` and everything in the orchestrator that drives it, two tasks | system |
| `FgLearning` | the factory run: controller, runner, its three NVS keys; cell and operator external | system |
| `SettingsStore` | the settings, their writers, saving key by key, power cuts and boots | system |
| `EventTimeout` | how long the event loop waits and which timers then fire, in wrapping milliseconds | operators |
| `RouteStorageProofs`, `TrackingProofs`, `OtaBleProofs`, `LocalApiProofs`, `FgLearningProofs`, `SensorPipelineProofs`, `StationaryProofs` | theorems about these modules | proofs |
| `OrchestratorProofs` | theorems about `EventTimeout` and `SettingsStore` | proofs |
| `MC*` | constants and symmetry for TLC | model checking |

Variables carry the names of the C++ members they stand for, noted at each declaration, and
each action is named after the function it translates. A definition whose comment says
*Broken variant* is no part of any specification: it is a plausible bug put in place of the
definition after it, to see which property notices.

### RouteStorage

A file is a sequence of units, two per record, which is the least that can be torn. The three
layers a point passes are separate variables: `buf` (stdio), `file` (what the file system
shows) and `durable` (what a power cut leaves). `Faults` chooses what the medium may do. The C
library is external and modelled as the code depends on it: `fwrite` buffers and may spill, or
stop anywhere inside a record, with or without leaving the rest buffered; `fflush` may stop
short; `fsync` may fail after a good flush; a cut leaves any prefix at least as long as what
was synced, and may lose a file name that was never synced. `ok` and `saved` parameters are the
results callers see.

### Tracking and DurableLog

One handler is one step, because nothing else touches its state: `StartTracking`, `Measure`,
`ChangeMode`, `DeepSleep`, `Wake` and so on are `RouteStorage` operations combined with the
orchestrator's own assignments, in the code's order. Only the interval since the last
measurement is kept of the clock. `unsyncedAge` is a ghost that dates the oldest point that is
not durable. The refinement drops stdio and files: a log holds the accepted points, and its safe
prefix is the durable one. It is checked, and proved, without write faults, since after a torn write
the code keeps no such promise (see below).

### OtaBle

The NimBLE host task has the higher priority on one core: a callback is one step, except the
Data callback, which blocks inside `writer.write()` and is therefore two (`Data`,
`DataWritten`). The orchestrator's `run()` is split wherever a callback may preempt it with
effect: the writer calls, the loop, and the three stores of `_emit_terminal`. The semaphore is a
Boolean, the image a byte count. `Teardown` happens only between two polls, as `run()` blocks the
orchestrator.

### LocalApi

Every call the orchestrator makes on the service takes its lock, so a handler is a *plan*: a
sequence of calls, between any two of which the httpd task may run. The task serves one request
at a time (ESP-IDF httpd), and a PUT is two steps: validation against the snapshot it copied
(`BeginPut`), then admission under the lock (`FinishPut`). Abstractions:

- `Away` stands for Portable and Offline, in which the API is down.
- The settings are the two fields policy depends on and `other`, which stands for every other
  field.
- Receiving an event and `pop_request()` are one step; httpd could run between, but it appends at
  the tail and so commutes.
- Other producers fill the event queue too: a send may fail at any time.
- `httpd_stop()` waits for the request being served.
- The menu offers neither control nor cloud connection, and the cloud's answer changes neither.

### WifiManager and Stationary

`WifiManager` has no lock: the orchestrator's calls, the system event task and the timer task
meet in its fields, each handler being one step. The driver below is external: it posts its
events in order to `inbox`, and its own view of the link (`link`) may be ahead of what the
manager has been told. What a handler reports to the owner of the callbacks is `notice'`, and
`Stationary` reacts to it in the same step, as the code calls them synchronously.

`Stationary` adds the owner (`owner`: the service, the provisioning session, or nobody), the
latches and deadlines of `WifiService`, and the orchestrator's loop: it receives one event,
handles it, then looks at the timers (`Tick`). Two handlers paint and wait in the middle, during
which the other tasks run: `step = "failing"` before provisioning opens, and `step = "linked"`
before a session is handed back. Abstractions:

- Timers carry no time: an armed one may be due whenever the orchestrator looks.
- Disconnect reasons are three, by what is done about them: `hard`, `missing`, `soft`.
- The credential store is a count, as only none, one or several make a difference.
- A sweep keeps how many candidates are left; which is best plays no part.
- `prov = "Hung"` is `connect()` refused under the session's mutex, whose callback takes it again.
- Events that only change what the provisioning page says are left out; the transport is not
  kept, as only its failing to start matters.

Every refusal of the driver, every loss of the link and every order of queued events is a step of the
model; none is switched off. Seven kinds of them are *mishaps*: the code does not provide for them,
and each breaks a property, some of which the code's comments claim without exception. The model
takes such a step like any other and notes its kind in the history variable `mishaps`, which a
reboot of the device empties; a property that a mishap breaks says so by `Spared(kinds)`, so that it
holds until the first of them, and no longer. They are hazards of the code, listed with their lines:

| Mishap | What happens | What it ends |
|---|---|---|
| `drop` | between provisioning's Connected and the hand-back the link is lost, or started over by the retry timer of an attempt that has ended (`wifi_manager.cpp:475`, `:542`); nobody hears of it | `Supervised`, `KeepsTrying` |
| `late` | an address already posted meets the end of its attempt (`wifi_manager.cpp:524`); `_has_been_online` is set for the wrong session | `OwnerMatches`, `PageHasTransport`, `Supervised`, `KeepsTrying` |
| `stale` | a second failure of one bring-up (`go_orchestrator.cpp:2922`) schedules a reconnect that takes the callbacks from the session the first one opened | the same four, and `VerifiedOnly` |
| `overtake` | an input is handled ahead of a provisioning success that is queued or retained (`go_orchestrator.cpp:3055` has no look at the mode), or Stationary is entered over events of the time before | the first four, and `CloudStationaryOnly` |
| `start` | a first provisioning session does not start, and posts nothing (`go_wifi.cpp:196`) | `OwnerMatches`, `PageHasTransport`, `Supervised` |
| `scan` | the scan of a bring-up is refused (`go_wifi.cpp:116`): no provisioning and no window | `BringUpEnds` |
| `resubmit` | credentials are handed over while an attempt is under way (`provisioning_manager.cpp:703`) | `Supervised`, `KeepsTrying`, `VerifiedOnly` |

Every entry of the last column for a property of the run is needed: TLC finds the property violated
as soon as that kind is taken off its list.

A refused connect, also under the session's mutex (`Hung`), a reconnect whose scan is refused, a
transport that does not start on a switch, and a window event that the queue does not take are no
mishaps: the properties hold through them.

### SensorPipeline

Commands go down through one FreeRTOS notification value (`slot`), which a later command
overwrites; answers come up through the event queue. The orchestrator's helpers call each other
(`on_sensor_data` tries the test, then sleeps the sensor, and so on), so each is an operator from
the state it finds to the state it leaves (`Now` is the state found) and a handler is their
composition in the code's order. The task is split where the orchestrator may see it between:
taking the notification, and posting, which waits for room. `stop()` cannot wait for the task: it
lets 10 ms pass (`stopping`) and deletes it wherever it is. Abstractions: the clock is how far the
next measurement is (beyond the sleep threshold, near, due); settings the task applies are one
command, `setting`; readings, their origin and the gas sampler are left out, as is Energy Saving's
deep sleep, which rebuilds everything from a boot.

An answer that the orchestrator waits for can be lost, and the model loses it as the code does: a
calibration or setting overwrites a waiting command (`go_sensor_producer.cpp:77`; `sensor_producer.md:317`
says that any request replaces an unconsumed one), the sweep's result finds the queue full (`:291`),
or the task cannot be created after a pause, and nobody looks (`go_orchestrator.cpp:3180`).
`Orphaned` says that this has happened: what waits then waits until the next pause or reboot, so
`RefreshAnswered` and `SensingGoesOn` end there, and `AnswersComing` says that there is no fourth way.
The input that ends provisioning may have been queued before the last events of the deleted task;
they are then handled after the resume and taken for the new task's. `mixed` notes it until the
next pause, and while it lasts `ReadsLiveSensor` and `AnswersComing` promise nothing. After an
update it cannot happen, as `exit_ota()` empties the queue.

### FgLearning

One action per stage change of a poll, a save as one action per key, and a reset anywhere. A save is
a `job` with what follows it: the loop, ship mode, the verdict held on screen, a reboot. The gauge
reports a reset of its own or not, freely, at every boot. Two history variables say what really
happened to the cell: `top`, whether the charge of this cycle completed, and `drains`, how often the
cell went from full to the cutoff. Two more say what the code lets pass: `credit` counts the cycles
of the book that were not run, and `unsaved` the saves given up. The journal, fail reasons and
screens are left out. `tick()`'s branch from Discharge to CycleDone and resume's branch for a gauge
reset in Complete cannot be reached, as `run()` ships and holds before it gets to them.

Any write of any save may fail, and any save, that of arming included, may be cut between its keys.
Three things the code does not provide for, and the properties account for them instead of leaving
them out. A reset on battery during Charge resumes in Discharge
(`fg_learning_controller.cpp:122`), so the cycle is counted without the full charge that
`fg_learning.md:123` has it begin with. Arming that is interrupted over the keys of an interrupted
clearing starts with the cycles and the losses of another run; `settings.md:267` calls the
three-key save atomic. Both are `credit`, and the second is why the losses may pass their cap by
one a run. And the save of the verdict may fail and is not tried again
(`fg_learning_runner.cpp:478`), so the screen shows a verdict that the next boot does not find:
`unsaved` counts it, and `VerdictStored` says that it takes no less.

### SettingsStore

Five fields: the mode, the cloud connection, the control, onboarding, and `corr` for everything no
other field depends on. Writers make candidates as the code does, from the record in force.
`Activate` checks, `WriteKey` stores one key at a time in the code's order, `SaveEnds` puts the
candidate in force; power may go at any key. Faults: `cut`, power lost in a save; `provision`, in
the save of a provisioning result, which may change two fields at once; `fail`, a key that cannot be
written. `StoredValid` holds under `cut` (8471 states, and proved) and TLC finds it violated under
either of the others: provisioning that turns the cloud off under Cloud control writes the
connection first, and a cut between the two keys leaves the combination that `settings.md:133` says
normal writers prevent. From then on every candidate is refused but a change of control by a LAN
client or a factory reset.

### EventTimeout

A computation, not a machine: `QueueTimeout` is `compute_queue_timeout_ms()` and `Fires` what
`check_timers()` asks of each timer, over every state the two functions may read (`Loop`) and every
`uint32_t` time. The thirteen timers differ in what they keep (the time they last fired, a deadline
with 0 for none, a flag beside it) and in how they compare (elapsed time, a window of an hour after
the deadline, the sign of an `int32_t`, a plain `>=`). What decides whether a timer takes part is an
input. Its questions are about 2^32 times, so there is no run: they are theorems.

## Runs

| Run | Configuration | Shows |
|---|---|---|
| `route_storage` | 2 sessions, 3 appends, write and sync faults | synced records are never lost or changed; files without a failed write hold whole records in order; the count shown is what a reader finds |
| `tracking` | 2 sessions, 3 appends, sync faults, intervals of 1 and 3 ticks, sync budget 2 | state shown matches the open route, the session's file stays and no sleep takes it; implements `DurableLog` |
| `ota_ble` | images of up to 3 bytes, 2 ticks to a stall, 2 transfers | whole images only, no spurious reboot, nothing left open, notifications in order, every transfer ends |
| `local_api` | FIFO of 2, event queue of 3, 3 requests, 2 clears, 5 changes | wake events match requests, settings and authority hold, access follows the endpoint, no request is stranded |
| `stationary` | 2 saved networks, 1 retry, 2 driver events and 2 orchestrator events queued, in all 2 of entries and kinds of mishap, with fairness | every attempt is driven; a device once online is connected, connecting or has a reconnect ahead; callbacks, page and cloud agree with the session; the Info page ends; a device whose link is down tries again; each until the mishaps it names |
| `hand_over` | the same with 2 networks to hand over | disagreement 4 below |
| `sensor_pipeline` | queue of 16, 2 acts: tests, changes of interval or mode, resumes over queued events | at most three events of the producer wait; no answer is lost but in three ways, no sleeping sensor is read; a refresh is answered without a timer and measuring goes on while no answer is lost |
| `fg_learning` | 2 cycles, cap of 3 losses, 2 runs, 3 mishaps (resets, failed writes, wrong plugs) | counters within their caps, every cycle a cell is passed on accounted for, the verdict shown is stored or its save was given up, every run ends |
| `fresh_onboarding` | no bounds, no fault | disagreement 5 below |
| `loss_window`, `retry_framing`, `ota_writer` | as above, one property each | the disagreements below |

Why these bounds are enough: two sessions allow one to be deleted, resumed or created beside
another; three appends give a synced, a buffered and a torn record; one interval is below and
one above the sync budget. Two transfers show what the first leaves for the second; three bytes
allow a partial and an exact chunk. A FIFO of two can be full while the event queue has stale
entries, which takes three events and at least one clear. `InboxBound` is 2 because
fairness makes the run long; the safety invariants were also checked with 3. Two saved networks are enough for a
scan and a sweep with a second candidate, one of them for a direct connect, none for provisioning.
`MaxTrials` = 2 is the one bound on entries into Stationary and kinds of mishap together: one entry
in which any one kind happens, as often as it likes, or two entries without one. That is what shows
that each property survives every kind it does not name, one at a time; that kinds combine and
that events of one time meet the next with a mishap among them is left to the proofs, which have no
bound, and the safety invariants were also
checked with `MaxTrials` = 3 and one orchestrator event queued (with two queued that is more than TLC
searches in the time of a run), and `KeepsTrying` with `MaxTrials` = 3 up to the first mishap it names. The producer never has more than
three events queued but after an overtaken pause, so the queue of 16 is exact and only `MaxActs` bounds
`sensor_pipeline`; two let a test overlap a change, or events of a deleted task meet either. Two runs
show what an aborted one leaves for the next, three mishaps a verdict whose save is given up after
the save before it, or a torn save, a reset and another in the next run; the targets are the code's own. The code's own limits are 4 and 16;
nothing in the code depends on their values beyond the two comparisons modelled. `InboxBound`, `EventBound` and the
counters named `Max...` (but `MaxSaved` and `MaxRetry`, which are the code's, and `MaxTotal`, the size declared) in the guards bound the behaviours and do not exist in the code. Deadlock is checked in
all runs but those of `Stationary`, whose device may stay connected with nothing left to happen
once `MaxTrials` is used up, and of `FgLearning`, whose device goes on in normal operation, outside
the model, once `MaxRuns` is used up.

Each property is also tried against a broken variant of a definition it should guard (`mutants`
in `PROJECT.json`); all are noticed.

## Fairness

Safety needs none. `TransferEnds` (`OtaBle`) assumes that the scheduler runs the orchestrator
and that flash writes return (`WF` on both); the phone owes nothing, it may go silent at any
point. `NoRequestStranded` (`LocalApi`) assumes handlers end (`WF` on their calls; transfers and
joins in the code have timeouts), that httpd finishes the request it began (`WF`), and that the
orchestrator receives its events in the end (`SF`, as other handlers run in between: the queue is
first-in first-out with at most 16 ahead).

`BringUpEnds` and `KeepsTrying` (`Stationary`) assume that the orchestrator handles its events and
looks at its timers (`WF`: its queue receive has a timeout), and that the driver ends an association
and a scan it began (`WF`: ESP-IDF bounds both). `SF` is on the event and timer tasks, which in the
model wait whenever the bound on queued events is reached; on the window coming due and its event
admitted (a queue drained by one task is not full at every tick); and on a reconnect coming due and
being accepted, its scan included (a driver that refuses every connect for ever is outside the program). The access
point and the user owe nothing.

`RefreshAnswered` and `SensingGoesOn` (`SensorPipeline`) assume that events are handled, that `stop()`'s
delay ends and that the task runs (`WF`), and that a pass of the task's loop gets to the warm-up (`SF`: it
is looked at after every notification). `SensingGoesOn` also has time pass and the timers looked at, as the
premise `Timers`. Both end where an answer was lost (`Orphaned`). Tests, settings and pauses owe nothing: a test left open for ever, or a summary never
confirmed, is not an answer's delay but the operator's.

`RunConcludes` (`FgLearning`) assumes that the device runs (`WF` on booting, saving and polling), and that
the operator follows the prompts and the cell charges and drains when it should (`WF`): a run waits for
both. Gauge resets owe nothing, which is what the cap is for; other mishaps are bounded.

## Proofs

Each proof module holds for every value of the constants that its module's assumptions allow.
TLC agreed with each property, and with each inductive invariant, on the runs' instances before it
was proved, but for two things no instance reaches: `FramingInv`, which speaks of any number of
points, and `EventTimeout`, which speaks of 2^32 times. The theorems about `Stationary`,
`SensorPipeline` and `FgLearning` have no hypothesis: what the code does not provide for is a step of
the specification, and the property says what it stands. Two theorems about the stores assume
that the medium or the NVS does not fail in a named way (`LogImplemented`, `ValidAcrossBoots`); with
that fault added to the instance, TLC finds the property violated.

`RouteStorageProofs`, for any number of sessions, appends, intervals and set of faults:

- `StoreSafe`: `StoreSpec => []StoreInv`. The invariant is inductive as it stands: types, plus the
  shape that relates the layers (durable is at most the file, an absent file is empty, a buffer
  exists only for an open, existing file). Without the shape, `append_route_point` could not be
  shown to write to a file.
- `DurableRecordsKept`: `StoreSpec => DurableKept`, from `StoreSafe`: each operation either extends
  the file, cuts it at a record boundary above what is durable, or unlinks it.
- `RecordsWhole` and `CountShown`: `FramingIntact` and `CountAgrees`. The invariant `FramingInv` is
  about the file *followed by* what the stream holds back: together they are whole records in
  order, the open one being twice the count long. Neither layer is so by itself: stdio may spill
  half a record, and it is the buffer that has the other half. What a power cut leaves is a prefix
  of it, and `resume_route()` cuts that to whole records.

`FgLearningProofs`, for any number of cycles and tries, resets and torn saves included:

- `LearningTypes`, `VerdictKept` and `CyclesAreEarned`: the types, that a verdict on the screen is the
  stored one unless its save was given up, and that every cycle in the book is accounted for. No
  reset, failed write or interrupted arming is excluded.
- The invariant of the first and the last is `BookInv`: the controller's stage says what its goal, its losses and its
  verification may be, and what the three keys hold when they lag behind it. The lag is why it is
  needed: a reset between two writes leaves keys of different ages, and what a boot resumes from
  them must again be a state the controller could have been in.

`OrchestratorProofs`, on `SettingsStore`, for any sequence of writers, saves, power cuts and boots:

- `ValidAcrossBoots`: no invalid combination is in force or loaded. It assumes that no key write
  fails and that the result of a provisioning session is saved whole: the two faults break it.
- The invariant `StoredInv` says what NVS holds in the middle of a save: the goal's keys below
  `job.key`, the settings' keys from it on. It stays valid because the connection is written before
  the control, and because every writer but provisioning refuses to switch the cloud off while the
  control that is in force is the cloud's (`Orderly`).

`OrchestratorProofs`, on `EventTimeout`, for all settings, deadlines and times, wraps included:

- `WaitIsNearest`, `NeverLate`, `KicksInTime`, `PageNotHidden`: nothing ahead is slept through, the
  external watchdog is kicked in time, and a tracking page that is due is not kept waiting.
- `FiresWhenDue` and `WaitEndsInTimer`: each timer fires at its deadline, and when a wait ends with
  no event some timer fires, so the loop never spins. That the watchdog is always a candidate is
  what makes the second true.
- `OverdueCanWait`: the limit of this, disagreement 6 below.

`TrackingProofs`, for any intervals and faults:

- `RouteFollowsState`, `SessionStored`, `TrackingTypes` from `TrackInv`, which has what a handler
  must find: the RTC copy never holds a session, because the device only sleeps in Energy Saving,
  where none is active; so a boot has none to resume.
- `UsesStorage`: every step of the whole is a step of `StoreSpec` or leaves the storage alone. The
  storage's theorems then hold of the device: `SyncedPointsKept` and `ReadersAgree`.
- `LogImplemented`: `Spec => ImplementsUserLog`, assuming only that writes do not fail part-way
  (`"write" \notin Faults`; syncs may). The points of a log are read off the bytes of the file and
  what the stream holds back. That a record adds exactly one point is `FramingInv` again: what is
  written so far is whole records. That a spill, a flush, a close or the truncation of a torn end
  adds and takes none, and that a power cut leaves a first part no shorter than what was safe,
  follows from `StoreInv`.
- `OverrunSyncsNext` and `AppendSyncsAll`: what remains of the window that disagreement 1 refutes. Under
  every fault the append after an overrun syncs (`AgeInv`: no point is older than the anchor says), and on a good
  medium it leaves nothing unsynced.

`OtaBleProofs`, for any image size, stall window and number of transfers:

- `ImageWhole`, `PollDrives`, `TransferClosed`, `WriterShared`, `StatusInOrder`, `OtaTypes` from
  `OtaInv`: where each task is and what it may find there (`TaskInv`), that accepted bytes are the
  flashed ones and those in the callback's hand (`BytesInv`), and when the terminal latch and the
  semaphore are set (`LatchInv`). The image needs all three: the byte count alone does not say that
  no callback is still writing.

`LocalApiProofs`, for any depths of FIFO and event queue and with no assumption about faults:

- `SettingsValid`, `SnapshotPublished`, `AccessIsEndpoint`, `OtaDrainsNothing`,
  `CloudKeepsAuthority`, `LocalTypes` from `LocalInv`. As httpd may run between any two calls of a
  handler, the invariant is one of program points: for each plan that may be left to do, what the
  access, the endpoint, the queue and the snapshot are by then (`PointInv`).
- `WakesMatchRequests`: `WakeMatchesQueue`, stated by position and not by a count. It is nearly
  inductive as it stands; `WakeInv` adds that no event is of an epoch to come, so that a clear, which
  starts an epoch, leaves no event that looks current.

`SensorPipelineProofs`, for any queue length and number of acts:

- `LineAgreed`: the inductive invariant `PipeInv`. Its heart is a *line*: the events queued, those that
  what the task is doing will still post, and those that answer the command in the slot, in the order
  in which they reach the orchestrator. The line is one of eight sequences, of at most three events, and
  what the orchestrator believes of the PM sensor and of a measurement follows from it
  (`Says`); without it neither side's fields say anything about the other's.
  A lost answer only shortens the line, which is why the invariant survives it.
- `PipelineTypes`, `LiveReadings` and `AnswersCome` from it, with every overwritten command, lost result
  and failed start included. Once a pause has ended with events of the deleted task queued (`mixed`),
  the two sides need not agree until the next pause ends, and only `AlwaysInv` is left: an old event then
  answers a request that is still out.

`StationaryProofs`, for any number of saved networks, retries, credentials, sessions and queued events.
The invariant has three layers, each resting on the one before:

- the manager alone: `StationaryTypes` and `AttemptsDriven`, **whatever happens**, from `Driven`: which driver events may
  be in `inbox` in which order for each state of the manager, and which timer or event
  comes next. It is about the queue's *order* because a state is only safe if what unmakes it is told
  before what would confirm it;
- the policy above it: `CloudInStationary` (only `overtake` ends it), and `OwnersMatch` and
  `PagesHaveTransport` from `Session`, which says where a session is between the orchestrator's page,
  the service's latches, the owner of the callbacks and the provisioning manager. The invariant of the last two is
  `Calm => Governed`, where `Calm` says that none of `start`, `late`, `stale`, `overtake` has happened
  since the last reboot: a mishap is a step the invariant allows and after which it promises less;
- both together: `AlwaysSupervised` from `Watched`: what the event task has yet to tell of the link
  (`Sighted`), what a session hands back (`Handed`), and that a device once online is trying
  (`Trying`). It promises this while `Kept` holds: `Calm`, and neither `drop` nor `resubmit` has happened. Refused
  connects and scans, the deadlock and failing switches change nothing. The proof failed at first, on a
  retry timer that outlives its attempt; the counterexample it left was real, and is part of `drop` now;
- `VerifiedUnlessResubmitted`: `VerifiedOnly`, the property disagreement 4 refutes, holds until
  `resubmit` or `stale` has happened, whatever else fails: while a session has the manager only the session asks it to connect,
  and the network the session waits for is the manager's target (`Lent`).

Every invariant and action property of the passing runs, and the refinement, is proved. Only
model-checked is the liveness: `TransferEnds`, `NoRequestStranded`, `BringUpEnds`, `KeepsTrying`,
`RefreshAnswered`, `SensingGoesOn` and `RunConcludes`. Liveness under fairness is out of this prover's
reach, as are `ENABLED` and induction over data. The properties of the runs that expect a violation are
false of those runs.

No recursive operator is used.

## Disagreements found

1. **The sync window is not a bound** (`loss_window`). `storage_service.md:196` promises that the
   window bounds the loss "regardless of the measurement period". The sync is only looked at by an
   append (`go_storage.cpp:287`): raise the interval after two quick appends and the second point
   stays unsynced for the whole longer period. `OverrunSyncsNext` shows that it is never longer than to the
   next append.
2. **A retried append misframes the file** (`retry_framing`). After `fwrite` stopped inside a record
   the session goes on (`orchestrator.md:432`), and the next record starts inside a slot; nothing
   but a torn *tail* is ever repaired.
3. **Both tasks in the flash writer** (`ota_writer`). `ota_ble_service.h:34` says they never touch it
   concurrently. The stall watchdog aborts without latching a terminal, so a late Data write still
   enters `writer.write()` (`ota_ble_service.cpp:389`). `SharedOnlyInStall` shows that this is the
   only way, and `WholeImage` that no wrong image results.

4. **Unverified credentials stored as verified** (`hand_over`). `_accept_credentials()` ignores what
   `connect()` answers (`provisioning_manager.cpp:703`), and a switch of transport does not end the
   attempt of the session before it (`go_wifi.cpp:219`). Credentials handed over meanwhile get
   `AlreadyInProgress`, and the earlier network's address stores them as verified
   (`provisioning_manager.cpp:518`). `VerifiedUnlessResubmitted` shows that this takes a second hand-over,
   or the reconnect of a mishap `stale`.

5. **The factory's mode is stored after all** (`fresh_onboarding`). `orchestrator.md:330` and `:774`
   call the Stationary mode of a device that was never onboarded ephemeral. It is, as long as
   nothing is saved: `enter_manufacturing_mode()` changes `_settings` in place
   (`go_orchestrator.cpp:1719`), and the next writer copies all of it into its candidate
   (`go_orchestrator.cpp:2173`), so that a later boot is Stationary without ever having been onboarded.

6. **A due timer waits for another** (no run; theorem `OverdueCanWait`). `go_orchestrator.cpp:517`
   has the timeout be 0 "if any deadline already passed", and `orchestrator.md:264` repeats it. A
   deadline that passed, while a handler painted for instance, has wrapped to a large remainder, and
   the minimum passes over it: the timeout is 0 only when *every* deadline has passed. Only the
   tracking page's is clamped before the minimum (`go_orchestrator.cpp:514`). The wait is short, as
   the fast battery poll is mostly near.

The mishaps of `Stationary` break comments in the code as well:
"never provision, never give up" (`go_orchestrator.cpp:2936`, by `drop`) and "never stranded on the
Provisioning screen with no active transport" (`go_orchestrator.cpp:3098`, by `start`). The
properties `Supervised` and `PageHasTransport` say how far these hold. In the factory run, a cycle
without the full charge of `fg_learning.md:123` is counted after a reset on battery (`CyclesEarned`).

Limits the documents own up to are hazards and not listed here: the drain after a failed update
also throws away Wi-Fi events (`ota_service.md:136`), a full queue loses them
(`wifi_service.md:243`), settings are saved key by key (`settings.md`).

## Not modelled

- *User interface, display, input*: one task, no sharing; rendering is out of scope. Changes it makes
  to settings are inputs of `LocalApi` and `SettingsStore`.
- *BLE characteristics, JSON, HTTP routing*: encoding without protocol state.
- *Drivers* (NAND, GPS, accelerometer, LED, buzzer, battery, ULP), RTOS wrappers: the environment.
- *Cellular* and the reference product: not part of this product's control flow.
- *Vendored code*.
- *Wi-Fi beyond the station*: access point, mDNS, static addresses, Portable (attached) provisioning,
  lost Wi-Fi events other than the window's, and a change of mode that the settings refuse.
- *Cloud service, payload and measurement caches*: the orchestrator sees their results as events,
  which `Stationary` and `LocalApi` have as inputs; schedule and back-off are not modelled.
- *Serial task*: one command at a time, completed by the orchestrator.
- *What the timers do* when they fire, where that is a battery poll, the auto-lock, a snackbar or the
  accelerometer's page: one task, no sharing. When they fire is `EventTimeout`.

The map covers a small share of the repository's lines: most of them are vendored graphics and
fonts, the display, the user interface, encodings and drivers, which hold no protocol state.

## Plan

Done: 1. `RouteStorage`, 2. `DurableLog` and `Tracking`, 3. `OtaBle`, 4. `LocalApi`,
5. `WifiManager` and `Stationary`, 6. `SensorPipeline`, 7. `FgLearning`, 8. `SettingsStore`,
9. `EventTimeout`; proofs of all.

Left to model: the completion of serial commands, the cloud task's schedule and back-off, Portable
provisioning.

Theorems left: none of the runs' safety properties. Worth adding: an abstract specification of the pipeline's
requests and one of the device's connection, implemented by `SensorPipeline` and `Stationary`.
