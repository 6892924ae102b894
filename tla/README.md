# OpenAstroLink: verification project

OpenAstroLink is an observatory node: a Qt process that owns a camera, a mount,
a focuser and a solver, runs long actions on them for its clients (desktop GUI,
HTTP and WebSocket API, Stellarium) and executes a persisted calendar of
observations unattended. This directory holds TLA+ models of the parts of the
node, of its drivers and of its clients whose correctness depends on the order
of things. TLC checks them on small instances; TLAPS proves nearly all of their
safety invariants, and a refinement of the operation manager, for every value of
the constants.

Paths below are relative to the repository (its C++ is in `src/`, about 12 000
lines, and `drivers/`, about 4 300).

## 1. Inventory

| Component | State | Operations and interactions | Hard behaviour | What makes it correct |
|---|---|---|---|---|
| Operation manager `src/core/operation_manager.*` | records, FIFO order, lock table, thread pool | `submit`, `cancel`, `shutdown` on the main thread; `runOperation`, `updateProgress`, `finish` on pool threads; `operationChanged` queued to the main thread | several threads in `tryStartQueued`, signals emitted after the unlock, workers blocked in the main thread during shutdown | exclusive devices, exact locks, FIFO, no lost wake-up, final states final, ends delivered, shutdown returns |
| Scheduler `src/algorithms/scheduler.*` | plan, session status, pending order, per-block progress | called by the session executor on the main thread | reordering with partial progress, dates, one persisted cursor | nothing skipped, exact frames, dates respected |
| Session executor (in `src/core/application_controller.cpp`) | recentre attempt, calibration, one-shot timers, `QSettings` | steps by timers, submits operations, reacts to their ends, polls the mount, deferral by observable sky, resume after restart | timers without session identity, stop during operations, crash and shutdown, live view contending for the camera, devices that come back late | always driven, one operation at a time, pointed before exposing, calendar resumed as documented |
| Device connection and native discovery (same file, `src/node/main.cpp`) | device handles, discovery and health threads, pending requests, Canon hot-plug generation | connect, disconnect, refresh, restore | merged requests, hard recovery while a device is in use, unload during a scan | no call into an unloaded driver, no request lost, hints settle, shutdown ends |
| Mount motion (same file, `src/backends/oal_native_devices.*`, `drivers/eqdrive`) | axes, park flags, the slew operation | slew, abort, park, unpark, tracking, profiles, Stellarium | the abort passes the call in progress; flags settled by whichever status comes next | no GOTO unwatched, "parked" is parked, an abort ends in rest |
| Driver loader `src/oal/driver_plugin_loader.*` | loaded libraries, call mutexes, handles | load, reload, call, health, scan | directories and manifests in any order, driver-wide and per-device mutexes | the first offer of an id serves it, once |
| Serial session `drivers/common_blocking_serial_session.h` | worker thread, request queue, port | `transact`, `close` | timeout against late reply | a reply answers its own request |
| Serial drivers `drivers/skywatcher`, `drivers/eqdrive`, `drivers/gemini` | device table, sessions | OAL C ABI | a scan replaces the table from a copy; an exchange not answered may have been obeyed | a disconnect sticks, no motion nobody asked for |
| Camera drivers `drivers/canon`, `drivers/qhy`, `drivers/zwo_asi` | session, exposure and stream state | OAL C ABI, SDK events and threads | aborts, lost cameras, late files, failing SDK commands | own pictures, closed shutter, cycles end |
| Live view and SER (`src/core/ser_writer.*`) | stream, file and its counters, previews | start, frame, preview, region, stop | regions that move, dropped previews, finalisation after failure | provenance true, frame count exact, nothing left running |
| Autofocus `src/algorithms/autofocus_engine.cpp` | position, samples | called by its operation | cancellation, HALT and failing commands on the way | the focuser is where the search says |
| Solving and polar alignment `src/algorithms/adaptive_plate_solve.cpp` and others | last frame, last solution, samples | called by operations and clients | attempts replace frames that clients use; slews between samples | solution and frame belong together |
| Other backends `src/backends/*` | protocol state | device interfaces | INDI mirrors lag, UDP replies come late | commands taken as meant, done means done |
| HTTP/WS servers, remote controller `src/oal/*`, `src/core/remote_observatory_controller.*` | clients, video frames, mirrored state | requests, broadcast, poll, video | a lossy channel, encoding and callbacks on other threads, sockets and channels that fail | the newest frame goes out, shown whole; both roles' frames come back |
| Stellarium server, geometry, detection, GUI, tools | receive buffer, none | - | - | numeric or drawing |

`PROJECT.json` lists every component with its status, and every hazard at the line
where it bites.

## 2. Modules

    OperationLifecycle            what the manager promises (abstract)
          ^ implemented by
    OperationManager              the manager: threads, mutex sections, events
          ^ EXTENDS         ^ EXTENDS
    MCOperationManager     OperationManager_proofs

    Scheduler                     the Scheduler class, one operator per member
          ^ EXTENDS
    SessionExecutor               the handlers that drive it, and their world
          ^ EXTENDS
    MCSessionExecutor             plans and skies for TLC

    Devices <- MCDevices          discovery, health, connection, shutdown

    MountMotion  SerialDriver  SerialSession  HandController      mounts
    CanonDriver  SdkCamera  DriverLoader                          drivers
    Autofocus  Recording  Solving                                 operations
    IndiDevices  SynScanNetwork                                   backends
    VideoStream  VideoLinks                                       clients
          ^ EXTENDS or INSTANCE
    MCParts                       one of them at a time

    OperationManager_proofs            the manager
    SessionQueue_proofs <- SessionExecutor_proofs   the sessions and their queue
    Devices_proofs                     discovery and shutdown
    NativeParts_proofs                 DriverLoader, MountMotion
    Drivers_proofs                     SerialDriver, SerialSession, CanonDriver
    FrameParts_proofs                  SdkCamera, VideoLinks, VideoStream, Recording, Solving
    DeviceParts_proofs                 Autofocus, IndiDevices, HandController, SynScanNetwork

`MCParts` composes the parts that share no state with one another: the
initial state chooses one of them by `part`, and only its variables change from
there, so one run checks them all without multiplying their states. Two small
modules, `MCMountMotion` and `MCSerialDriver`, instantiate a part by itself for the
two findings about it. A part with several promises states them as named
conjuncts of one invariant (`MotionIsKnown`, `RecordingHolds`, `SolvingHolds`,
`StreamHolds`; in the same way `CalendarInv` and `DevicesInv`).

### OperationManager

One action is one stretch of code under `mutex_`, or one visible effect between
two such stretches: `Submit`, `Cancel` and `Finish` are the locked parts of the
functions of those names; `Announce` is the emission that `tryStartQueued()`
follows, `TryStartQueued` its locked scan, `LaunchNext` and `Dispatch` the loop
after it (emit, `pool_.start`). `pc[t]` says where a thread is. A pool thread's
signal is appended to `posted` and delivered by the main thread's event loop; the
main thread's own signals are delivered at once. `CallMain` and `Deliver` model
the proxies by which tasks call devices on the main thread with
`BlockingQueuedConnection`. `shutdown()` raises the flags (`Shutdown`), pumps
events while it waits (`Deliver` stays possible) and returns (`ShutdownReturn`).
An operation is named by its position in `order_`, which only grows. The events
left in the queue when `shutdown()` returns are not delivered in the model; the
code drains what one `processEvents` reaches.

`IsGrant` states what the scan of `order_` grants as a set, instead of looping:
exactly the queued operations whose resources are free and not taken earlier in
the scan.

`OperationLifecycle` has no threads, lock table, queue or events: an operation is
queued, runs while no running operation uses its resources, and ends once.

### Scheduler and SessionExecutor

`Scheduler` is passive and lives on the main thread, so each member function is an
operator from its state to the next; handlers compose them, as the code does.
`SessionExecutor` has one action per handler run:

* `StepIdle`, `DeferBlock`, `WaitCamera`, `WaitUnpark`, `PrepareBlock` and `SubmitStep`
  are the paths of `scheduleSessionStep()`. `timers.step` counts its pending one-shot
  timers; they carry no session id, so those of a stopped session fire in the next.
* `SkyTimer`, `ParkTimer` and `DateTimer` are the timers of
  `selectObservableSchedulerBlock`, `pollInterBlockPark` and `armScheduledSessionStart`.
* `SlewDone` ... `PlanetarySerDone`, `StepFailed` and `ForeignEvent` are the paths of
  `handleSessionOperationUpdate()`.
* `StartSession`, `StopSession`, `CancelOperation` and `StartLiveView` are clients.
* `OperationEnds` and `LiveViewEnds` are ends on the pool, with the lock release and
  the next grants; the end is an event the main thread handles later.
* `Crash`, `Shutdown`, `Restart`, `ResumeTimer` and `DevicesRestored` are the life of the
  process; `SkyChanges`, `DateComes` and `ParkMotionEnds` the world.

The executor relies on what `OperationManager` establishes: grants in submission
order for a device, exclusive devices, ends delivered in order. It therefore merges
a finish with the grants that follow it.

Abstractions, and what they leave out:

* Dates are the set `due` of blocks with no date or whose date has come; they come in
  any order and never go back.
* A handler's `QSettings` writes happen with the handler and survive a crash. The disk
  synchronisation of `QSettings` is not modelled.
* Coordinates are targets (a block and a mosaic tile), the observable region a set of
  targets that changes at any time. `setObservationPlan` is declared and called, but its
  definition is not in the tree: the plan is a constant.
* A handler runs to completion. Network devices are called through a nested event loop
  (`src/backends/http_json_client.cpp:11`), which breaks this; it is listed as a hazard.
* No client moves the mount during a session (`PointedAtTarget` assumes it), and only
  a restart takes devices away. A device a step needs may be missing (`SubmitStep`).
* The direct call of `scheduleSessionStep()` in the sky timer is a step timer of its own.
* The bodies of operations are what they leave behind: a result, and where the mount
  points.

### Devices

The main thread serves one posted event or timer at a time (`Main`); next to it run the
discovery thread (`Scan`: enumerate, hard recovery, reload through the main thread),
the health thread (`Health`), the operation pool (`Pool`), clients (`User`) and the hardware
(`PlugIn`, `Unplug`). `posted` holds rescans, Canon rediscovery timers with their
generation, lost-device events and what a thread passes to the main thread. `owed` remembers
every scan that was asked for until it is made, which is what `NoLostRequest` compares with.
`stage` goes through `shutdown()`. Its two waits take 6 s at most and then give up, whatever the
thread they wait for is doing (`Await`, `outlasted`); `Unload` takes no call mutex, so a
probe or a scan may be in a library that is unloaded, and goes on there.

Abstractions: one device per driver, so the driver-wide mutex never contends; a
driver's `device.disconnect` always emits the event it emits; a posted device event (0 ms)
is served before the 350 ms rescan; the test of the lock table and the device call
after it are one step on the main thread (the window at
`application_controller.cpp:642` is a listed hazard); a reload that fails leaves the
library unloaded. `restoreConfiguredDevices(refreshNative = true)`
(`application_controller.cpp:703-775`) has no caller that passes true, and the migration of
bindings (903-932) rewrites settings only: both are left out.

### Mounts

* `MountMotion` is a native EQDrive mount. The task of `mount.slew` (`pool`) and the main
  thread (`main`) make calls of several wire commands; each command to an axis is one
  step, and `mount.abort` comes between the steps of another call. Angles are two places, the park
  position and elsewhere. Alignment is left out, so a GOTO or tracking may be refused;
  there is one slew operation at a time, `sync` and the automatic home sync cost exchanges only, and the
  ASTEP protocol is not modelled.
* `HandController` is the Sky-Watcher mount behind its hand controller. An exchange that
  is not answered was obeyed or was not; late replies are `SerialSession`'s subject.
  Where motions lead, tracking, and what a rate command would do to a GOTO are left out.
* `SerialDriver` is the device table the three serial drivers share in form: a scan copies
  it, probes the port and swaps it, while a connect, disconnect, health check or call
  runs under the other mutex.
* `SerialSession` is the session below them: callers queue jobs for one worker, whose
  exchange clears the input, writes and reads until its time is up. A write that times out
  may have left its bytes in the port: they go out later and are answered, or never.
* `SynScanNetwork` speaks the Motor Controller protocol over UDP, where a reply names neither its
  command nor its axis. Commands are lost or answered late, never delayed themselves;
  each failed attempt may be the last; a new connection is a new object and socket; pulse
  guiding is never enabled in this backend; the controller is external.
* `IndiDevices` is a mount or focuser behind an INDI server: vectors travel on connections
  of their own and may overtake each other, and the properties the node reads lag behind. Driver and
  server are external; the polling loop of `mount.slew` is one poll.

Non-native mounts, focusers and cameras are reached through proxies that marshal every
call to the main thread (`application_controller.cpp:230-274`), so their modules have one
call at a time; native drivers are called from the pool thread, so theirs interleave.

### Cameras and the loader

* `CanonDriver` has both drivers, over EDSDK and over libgphoto2 (`body`). A capture runs
  through `Configure`, `Press`, `Shoot`, `LetGo`, a wait for its file, `LoadFile` and
  `Publish`; aborts, a camera switched off, its events (`Announce`) and scans come
  between. A picture is the number of the capture that made it. EDSDK's `closeCamera()` empties
  the queue of files first and ends the session later (`ReleaseItems`, `SessionCloses`), and
  the event thread may announce a file in between, which nothing discards. The end of the session
  discards what the camera had not announced; switching the camera off closes the shutter; a
  stop of the shutter that fails has failed in all its attempts.
* `SdkCamera` has the QHY and ASI exposure cycles and live views over the state of their
  SDK (`sdk`), whose commands may fail. `ASIStopExposure` makes the exposure not succeed;
  a library that is unloaded stops its camera. An ASI capture that cannot read its exposure's
  status returns and ends nothing: the exposure is `"adrift"` until something ends it.
* `DriverLoader` is one scan of the search path over every arrangement of two directories
  with a library and a manifest each. `Scanned` goes through the paths as the code's
  loop does. `OalDriverPluginLoader::cancel` has no caller.

### Operations and clients

* `Autofocus` follows both searches (coarse and fine scan, hill climb) position by position. How
  two grades compare is arbitrary; the driver's moving flag is truthful.
* `Recording` has the planetary recording, the live view with or without a file and the
  guide calibration, with the pool thread that prepares previews. Regions are model
  values, the slewing flag is truthful, and one operation is followed per behaviour, so
  the previews of two operations are not compared.
* `Solving` has the adaptive solve and the automatic polar alignment with the clients that
  solve the last frame, capture, move the mount and cancel. The outcome of the solver
  process is arbitrary; samples a user adds by hand are left out; one operation is followed
  per behaviour.
* `VideoStream` has the latest frame of a role, the flush timer, the encode thread, a
  channel that loses and reorders fragments, and the client's reassembly, with the
  server stopped and started again, its numbers with it. A full or refusing channel drops the whole frame;
  every frame has the same number of fragments; packets are never empty.
* `VideoLinks` has the remote controller's three sockets, its reconnect timer, its WebRTC
  peer with a channel per role, and the callbacks of the WebRTC library, each split between
  the test of the channel and what it then stores, with the main thread's handlers in
  between. `stopWebRtcPeer()` is two steps: the flags are cleared, then the channels and the
  peer go. Descriptions and candidates are abstracted: a negotiation may stop anywhere. A
  socket whose connection fails emits `disconnected`, as QWebSocket does.

## 3. Runs

| Run | Instance | Shows |
|---|---|---|
| `operations_safety` | 3 cancellable operations, 2 pool threads, 2 devices, each of three resource sets, no progress events | types, exclusive tasks, exact lock table, FIFO, no lost wake-up, quiet after shutdown, cancelled operations never run, terminal states final |
| `operations_live` | 2 operations, overlapping sets, 1 posted event, fairness | states are seen in order; the lifecycle is implemented; operations settle unless a task nobody cancels is in their way, ends are seen, shutdown returns |
| `session_calendar` | recentred and refocused block, parking block, dated block; 2 starts, 1 crash or shutdown, late devices, 2 sky changes (all, none or all but the first block visible), 1 live view | `CalendarInv`: types, nothing skipped, no replay while nothing was deferred; always driven, no orphan operation, pointed at the target, never early |
| `session_mixed` | mosaic of two tiles, planetary block that parks, dated block; GOTO rejection, 2 sky changes, 1 live view, fairness | frame counts are exact; sessions end |
| `devices` | QHY and Canon drivers, one role, 2 rediscovery timers, 1 hot-plug event, 1 client action, 1 plug or unplug, fairness | `DevicesInv`: types, no operation in a driver that is unloaded, and no probe or scan that was waited for; no scan request lost; a hot-plug event is settled; shutdown ends |
| `parts` | the bounds below | the 16 promises of the parts, next table |
| `session_shutdown`, `session_stop_resume`, `session_discovery`, `devices_reconnect`, `scan_race`, `mount_abort` | the smallest instance that shows it | violated: see Findings |

| Part | Bounds in `Parts.cfg` | Promise |
|---|---|---|
| `mount` | 3 requests, 1 exchange that fails | `MotionIsKnown`: no GOTO unwatched, what is reported parked is parked; `AbortStops`: an abort that succeeded ends in rest (with fairness) |
| `table` | 4 sessions, 6 calls and scans | `DisconnectSticks` |
| `session` | 2 callers, 3 exchanges | `RepliesMatch` |
| `loader` | 2 directories, 2 ids | `FirstOfferLoads` |
| `canon` | 2 captures, 1 fault | `FrameIsOwn`, `ShutterCloses` |
| `sdk` | 3 commands that fail | `CycleEnds` |
| `focus` | start 2, limit 4, steps 2 and 1, half range 3, 1 fault | `FocusAsReported` |
| `rec` | 2 regions, 2 lost frames, 3 frames, 1 kind of fault | `RecordingHolds`: provenance, previews in order, nothing left running |
| `indi` | 3 calls, 2 kinds of faults | `CommandsAsMeant` |
| `synscan` | 2 calls, 1 fault, 2 rates | `DoneIsDone` |
| `solving` | 3 attempts, stacks of 2, 2 samples, 1 client solve, 1 kind of failed call | `SolvingHolds` |
| `hand` | 3 calls, 1 kind of unanswered exchange | `MotionIsAsked` |
| `video` | 2 frames of 2 fragments and 1 or 2 units of length, 2 stops of the server | `StreamHolds` |
| `links` | 2 peers, 1 socket or channel that fails | `LinksHold`: events, signaling and frames of both roles come back |

Bounds. Two pool threads and two devices with the sets {camera}, {mount} and both give
every way two operations can conflict, and three operations let one overtake another
while a third holds a device. Symmetry permutes the threads and the devices, and is
used for safety only. `MaxPosted` holds back progress and calls while that many events wait,
never the events of ends. In the sessions each bound admits one interfering event more
than the scenario needs: a second start after a stop or failure, two sky changes for a
target that leaves and returns, one crash at any point. The frame counts give a first
frame, a cadence boundary and a last frame. In `devices` two drivers let one's request be
merged with the other's, and two rediscovery timers let a later one act after an earlier
one failed. In the parts the hazards take two calls that overlap and one thing that goes wrong,
and each instance has that, most with a call or a fault more: a picture left behind by one capture for
the next, a reply of one exchange for the next, an abort and a lost exchange in the same
GOTO. In `video` two stops let the server start again with what the first start left over: the
exception of `ShownIsWhole` is reached, and without the number or the length in `SameFrame`
TLC shows a frame made of two. The focuser's ranges are cut at both limits. Larger instances than `Parts.cfg`
holds were run once by themselves and agree: two faults of `SynScanNetwork`
(460 000 states), three frames of `VideoStream` (2 700 000), starts 1 and 3 of a focuser limited at 5
(126 000), two kinds of faults of `Recording` (139 000), two of unanswered exchanges of
`HandController` (116 000), two failures of `VideoLinks` (141 000).

Deadlock is checked in the runs of the operation manager and the sessions, where the
stopped process stutters explicitly (`Exited`). In the other modules a client that has
used up its bound really is at rest.

Fairness. The event loop keeps turning (strong fairness of `Deliver` and `ShutdownReturn`,
because commands use the same loop and each takes it away for a while) and threads are
scheduled. Nothing bounds a task as such: a live view loops until somebody cancels it
(`application_controller.cpp:1051`, 1054). A task that was asked to cancel does return, since
its loops look at the flag and its device calls answer or time out; it can leave its running
point to report progress or to call the main thread, hence strong fairness, of
`AskedReturn`. So `EveryOperationSettles` excepts an operation when a task that nobody cancels
runs for ever and is that operation, holds a device it asks for, or keeps a pool thread others
wait for; `shutdown()` cancels every task, and `ShutdownCompletes` needs no exception. In the
sessions timers, events and ends have weak fairness; clients, sky and crashes have
none; a live view has to end only once it was asked to. That is why `SessionsEnd` has its two exceptions: the
executor polls for ever while an uncancelled live view has the camera, and waits for ever
for a sky that shows nothing. In `Devices` the event loop and the health thread have
strong fairness, since a mutex or the other thread takes their turn away; the scan and
the pool weak. In `MountMotion` calls go on, the task is given the device mutex again and
again, and an axis told to stop comes to rest; that a GOTO arrives is not assumed.

## 4. Findings

* `session_shutdown`: an orderly shutdown disarms the calendar, against the comment at the
  line and `docs/SCHEDULER.md:19`.
* `session_stop_resume`: Stop between a restart and the resume timer is undone by it.
* `session_discovery`: the resume timer does not wait for device discovery; the resumed
  session fails and the calendar is disarmed.
* `devices_reconnect`: connecting the camera that is connected ends with a device the
  driver has closed, since the old proxy's destructor comes after the new one's connect.
* `scan_race`: a discovery scan holds the driver-wide mutex and a call the device's; the EQDrive
  driver puts the scan's copy of its table in place and undoes a connect that completed
  meanwhile, which the comment at `driver_plugin_loader.cpp:390` excludes.
* `mount_abort`: an abort reports both axes stopped while the GOTO it interrupted goes on
  to start one; the operation's own abort comes later, which is what `AbortStops` holds on to.

Known limitations, not runs: after a deferral and a restart a block that was complete may be
observed again, since one cursor is persisted (`resumeIndexHint()`). The checklist
(`docs/CURRENT_CHECKLIST.md:277`) denies it, `docs/OBSERVABLE_SKY_REGION.md:67` admits it; `NoReplay`
is therefore stated for a sky that never hid a target. After a wait of 6 s
`shutdown()` unloads the drivers even if the probe or the scan it waited for is still in one
(`application_controller.cpp:465-473`), while the comment at 462-464 says that the wait "avoids
a use-after-unload race on shutdown": it does for calls shorter than that, and `NoCallAfterClear`
names what remains (`outlasted`); without the exception TLC shows the race in `devices`. Several
promises of the parts carry the exceptions the code has, each named in the property: a file left
behind by an aborted capture, or announced while the session was being closed (`FrameIsOwn`), an
ASI exposure whose status could not be read (`CycleEnds`), an answer owed when an exchange begins (`RepliesMatch`), a GOTO
from Stellarium that nobody watches (`GotoIsWatched`), motions the hand controller's
driver does not look at (`MotionIsAsked`), late statuses over UDP (`DoneIsDone`), fragments of
two starts of the server with the same number and length (`ShownIsWhole`), a role whose channel opened
while its peer was being stopped (`LinksHold`). The last is a race of
`rtcDataOpenCallback()` with `stopWebRtcPeer()`: the flag is stored after it was cleared, and
the role's frames from `/video` are dropped until the next peer's channel opens, which
may never be negotiated, against "If either channel becomes unavailable, `/video` is restored"
(`docs/WEBRTC_STREAMING.md`). Without the exception TLC shows it in `links`.

## 5. Proofs

| Theorem | Module | States |
|---|---|---|
| `TypeCorrect` | `OperationManager_proofs` | `Spec => []TypeOK` |
| `LocksAreExact` | | `Spec => []LocksExact` |
| `CancelledStaysOut` | | `Spec => []CancelledNeverRuns` |
| `MutualExclusion` | | `Spec => []TasksExclusive` |
| `FifoWithinRequests` | | `Spec => []NoOvertaking` |
| `TerminalStatesAreFinal` | | `Spec => TerminalIsFinal` |
| `Refinement` | | `Spec => ImplementsLifecycle` |
| `WakeupsAreNotLost` | | `Spec => []NoLostWakeup` |
| `ShutdownIsQuiet` | | `Spec => []QuietAfterShutdown` |
| `NewsComesInOrder` | | `Spec => SeenInOrder` |
| `InvHolds` | `SessionExecutor_proofs` | `Spec => []IInv`, the sessions' inductive invariant |
| `CalendarKept` | | `Spec => []CalendarInv` |
| `SessionDriven` | | `Spec => []NoStall` |
| `NoneOrphaned` | | `Spec => []NoOrphanOperation` |
| `CameraOnTarget` | | `Spec => []PointedAtTarget` |
| `NoneEarly` | | `Spec => []NeverEarly` |
| `FramesTaken` | | `Spec => FramesExact` |
| `DevicesInvHolds` | `Devices_proofs` | `Spec => []DevicesIInv`, the inductive invariant |
| `NoneInsideAfterClear` | | `Spec => []DevicesInv` |
| `ScansKept` | | `Spec => []NoLostRequest` |
| `RepliesAreOwn` | `Drivers_proofs` | `SsSpec => []RepliesMatch` |
| `DisconnectHolds` | | `SdSpec => []DisconnectSticks` |
| `ShutterIsClosed` | | `CdSpec => []ShutterCloses` |
| `FramesAreOwn` | | `CdSpec => []FrameIsOwn` |
| `MotionStaysKnown` | `NativeParts_proofs` | `Spec => []MotionIsKnown` |
| `FirstServes` | | `Spec => []FirstOfferLoads` |
| `NoCycleLeft` | `FrameParts_proofs` | `Spec => []CycleEnds` |
| `LinksComeBack` | | `Spec => []LinksHold` |
| `NewestGoesOut` | | `Spec => []StreamHolds` |
| `RecordIsTrue` | | `Spec => []RecordingHolds` |
| `SolvedAsSeen` | | `Spec => []SolvingHolds` |
| `LeftAsReported` | `DeviceParts_proofs` | `Spec => []FocusAsReported` |
| `TakenAsMeant` | | `Spec => []CommandsAsMeant` |
| `MotionWasAsked` | | `Spec => []MotionIsAsked` |
| `ReportedWasDone` | | `Spec => []DoneIsDone` |

Operation manager: for any set of workers, resources and resource lists and any number of
operations. Assumptions: the main thread is not a pool thread, resource lists name resources, the
bounds are naturals. The argument is one inductive invariant, `Inv`. The properties are
not inductive alone: that `finish()` finds its operation running, and that nobody else has
ended it, depends on where a granted operation can be. `Placement` says that it is in
one place (one thread's launch list, the pool, or one worker), where it stays "running";
`ThreadShape` says what a thread holds at each point of the code. With these `LocksExact`
is kept by a grant because the granted set is pairwise disjoint (`GrantDisjoint`), and
`NoOvertaking` because whatever stops an earlier request would stop a later one that
contains it (`GrantKeepsOrder`). `MutualExclusion` follows from `Placement` and
`LocksExact`, the refinement from `Inv` with one abstract step per locked section.
`NoLostWakeup` is inductive over `Inv`: only a release or a submission can make an
operation grantable, and the thread that does either is then on its way to the scan. For
`QuietAfterShutdown`, `Located` says that a "running" operation is on a launch list, in the
pool or at a worker, and `AllAtRest` that none of these is left when `shutdown()` has returned.
`SeenInOrder` is about signals, which leave after the unlock and on any thread. `News` follows
them to the slots: what a slot has seen is no more than the operation's state tells
(`SeenIsTold`), queued events of one operation are in order and none is behind what was seen
(`PostedInOrder`), a worker emits the state its operation is in (`WorkersTell`), and what the main
thread is about to emit, which passes the queue, is not ahead of any queued event
(`MainInOrder`).

Sessions: for every plan, any changes of the sky, with or without refused GOTOs and late
devices, any number of starts, crashes and live views. Assumptions: the plan is not empty and
its blocks have the fields that `setPlan()` clamps (`PlanAssumption`), every sky is a set of
targets and one of them shows all (`SkyAssumption`), the switches and bounds are what they
should be. No property of a session is inductive alone, nor are all of them together, so `IInv`
adds three things. `Course`: a block asks for more frames than it has until it is left, the
current block is the front of the pending order, every block that is not done is pending,
and while nothing was ever hidden the order is the plan's from the cursor on; `CalendarInv`
and `NeverEarly` come from it. `Work`: the session's operation is alive or its update is on its
way, belongs to the session's step and target, and every other operation of a session has
been asked to end; `NoStall` and `NoOrphanOperation` come from it, over every handler that
starts, ends or hands over an operation. `Aim`: the mount rests on the block's target, and
only the session has moved it, at every step that works there; with `Work` it gives
`PointedAtTarget`. For `FramesExact`, `ShotsKept` counts the frames that were taken, tile by
tile: those of the block's progress, and one more while the operation has exposed and its update
is on its way. A tile gets its frames before the next one (`Shot`), so the total tells the count
of each, and a crash after an exposure undoes nothing because a restart begins the block anew. What the queue does is proved in `SessionQueue_proofs`: `Granted` and `Without`
are recursive functions over the queue, so each fact about every position is taken at the
least position where it would fail (`LeastNatural`, `UpTo`), and a function given by its
first value and its step exists for the same reason (`Recursion`).

Devices: for any drivers, roles, retries and bounds. That no operation is in a driver when it is
unloaded, and a probe or a scan only after a wait that gave up, needs to know who can be in a call
at all (`InCall`, `HasDevice`) and what each stage of `shutdown()` has waited for, or stopped
waiting for (`Stopped`); that no request is lost, that a scan waits as long as
the reload it asked for is posted (`Waiting`).

Serial session: for any callers and any number of exchanges. `RepliesMatch` follows from
`OwnLine`: when nothing was owed as the exchange began, what has arrived and what is owed
are nothing before the command is written and at most its own answer after it. What a failed
write leaves in the port counts as owed (`owing`), so the next exchange knows of it.

Serial driver: for any number of sessions and calls. A scan may put back an entry that names
an old session, so `Sessions` speaks of every copy of the entry (the table, the scan's old and
found ones, the call's): sessions are numbered as they are opened (`Numbered`), a session being
identified has the port and is in no copy yet (`Probing`), the port lets the scan or the
call identify but not both (`OneProbe`), no copy of the scan is usable unless the table's entry is
(`NewestIsUsable`), and a device reported disconnected is usable through no copy (`Gone`).

Canon drivers: for any number of captures and faults. `ShutterHeld` ties an open shutter
to the step of the capture that opened it; `Traces` says that, unless a file was left, the
pictures in the camera and on their way are those of the capture in progress (`OwnTraces`) and,
for cameras that make one file, at most one (`OneTrace`). While a session is being closed the
queue is already empty and the camera may still hold what it has not announced (`Closing`,
`SessionHeld`); what it announces then counts as left.

The parts are proved of the composition: each has an inductive invariant over its own
variables, which the steps of the other parts leave alone. Only `Solving` needs an assumption,
`SolvingAssumption` (its counts are naturals). What each invariant adds, and why:

* `MountMotion` (`MotionIs`, while no exchange was lost): a call is a list of commands still to be sent,
  and polls, aborts, arrivals and refusals come between any two. `Drives` ties what is left of a list
  to the axes (stop, wait, mode, start, axis 2 after axis 1); `SkyIsOwned` and `ParkIsOwned` name, for every
  axis in a GOTO, who will see its end: the operation at its stage, the park slew, or the call
  with its stop still to come; `Apart` says which calls exclude which; `ParkedStands` that a parked
  mount's axis 2 is in place and only read. Requests that begin while the mount may be parked are
  those of `Light`, and `FlagsThen` covers the flags at the end of every call. Each action is a lemma.
* `DriverLoader` (`AllServed`): after the first k directories every id is served by the first of them that
  offers it, or by none. What a scan has loaded is a recursive function of k; the step is proved for
  the least k at which it would fail.
* `SdkCamera` (`Doing`): what the camera may be doing at each step of the call that has it,
  since a call that begins, fails or is aborted relies on how the last one left the camera; an
  exposure adrift is nobody's, and never counts as a live view (`Unused`).
* `VideoLinks`: a socket that is off and should not be is about to be opened (`SocketsComeBack`);
  channels and the callbacks on them belong to the peer in the slot (`ChannelsAre`); a flag that was
  not overtaken is of an open channel or about to be cleared (`FlagsAre`).
* `VideoStream`: a start of the server and a sequence number tell the frame (`NumbersTell`), on every
  video and fragment under way and in what the client has put together; a frame that has not been
  sent has a call or an encoding of its start (`GoesOut`).
* `Recording`: while frames are taken the last mark, and the stream, are of the region
  (`Following`), so that the last mark before a frame tells its region (`Told`); the
  stream, the file and the mount are left as they should be or the failure is known
  (`StreamOff`, `Counted`, `Rested`); at most one preview is prepared, and what is shown, queued and
  prepared is in order (`InOrderShown`).
* `Solving`: what is to be published is of its frame (`ResultIsOfFrame`), an alignment that
  began at rest looks at a mount at rest (`RestsWhenSeen`), its slew is waited for (`SlewIsAwaited`).
* `Autofocus` (`Goes`, `Verifies`): where the search waits for the focuser is where the focuser goes,
  and a position that was verified was graded after the motion to it.
* `IndiDevices`: on the wire and in the call each vector follows its mode (`WireFollows`,
  `TodoFollows`), and the driver is in the mode of the vector it takes next or the mode is the last
  message to it (`WireInMode`, `TodoInMode`).
* `HandController`: the commands left of a call are the last ones of its program (`Runs`), a GOTO is
  an operation's (`GotoOwned`), an axis that turns was asked to or is going to be stopped (`TurnAsked`).
* `SynScanNetwork`: for each kind of call what holds of the axes it is done with and of
  the one it has in hand (`StopsAxes`, `StartsAxes`, `TurnsAxes`).

The last proof changed its property. That a manual slew reported done had started each of
its axes was true of one or two lost commands, but is not true of more: if the axis
turns already when the new slew begins, and each of its commands is lost while an older
acknowledgement is taken for its own, the verification finds an axis that turns and
`setManualRate()` reports success at the old rate. The comment at
`synscan_network_mount.cpp:174` calls the verification essential "because a late ACK can
otherwise be mistaken" for a manual motion that started; it cannot tell a new motion from
an old one. `DoneIsDone` now says so: such an axis was started, or turned before and was
never stopped (`claim.kept`).

Only model-checked: the liveness properties (`EveryOperationSettles`, `EveryEndIsSeen`,
`ShutdownCompletes`, `SessionsEnd`, `HintSettles`, `ShutdownEnds`, `AbortStops`), which are out of
the prover's reach. Every safety and action property of the passing runs is proved.

## 6. Not modelled, and why

* Desktop application, sky map and theme: widgets and drawing.
* `mount_geometry`, `equatorial_frames`, most of `astro_types`, planet detection, pattern
  matching, the polar fit, the focus curve: floating-point numbers and images.
* `oal_server`: its routes keep no state; what they call are the client actions of the
  modules above. The remote controller's polling mirror shows what it last read.
* `http_json_client`: a nested event loop in the middle of any handler. Every module of the
  main thread takes a handler as one step, which holds for native and serial devices
  only; a controller that can be re-entered needs another model of every handler.
* The Stellarium packets: framing without state beyond the input buffer; the GOTO they
  carry is `SlewNow` in `MountMotion`.
* ASCOM, Alpaca, simulated and Gemini backends: one call in, one call out.
* The EQDrive ASTEP protocol, `discoverIndiDevices`, polar samples added by hand,
  replacing the plan while the node runs.
* The two windows without a property: the lock test before a synchronous device call
  (`application_controller.cpp:642`) and the exposure `cancelOperation()` aborts (1138), both
  in `PROJECT.json` with the reason.
* Tools: stand-alone diagnostics.
