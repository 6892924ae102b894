-------------------------- MODULE SessionExecutor ---------------------------
(***************************************************************************)
(* The session executor of ApplicationController (src/core/                *)
(* application_controller.cpp): it drives the Scheduler's blocks by        *)
(* submitting operations and reacting to their ends, to one-shot timers    *)
(* and to the operator.  Everything here runs on the Qt main thread, one   *)
(* handler at a time; operations run on the pool of OperationManager,      *)
(* which grants resources in submission order and posts its updates to the *)
(* main thread in order (what OperationManager.tla establishes).           *)
(*                                                                         *)
(* A target is a block and one of its mosaic tiles.  The mount, the sky,   *)
(* the calendar and the process's life are the environment.                *)
(***************************************************************************)
EXTENDS Scheduler

CONSTANTS
    Skies,          \* the sets of targets the Observable Sky Region may show
    RejectGoto,     \* profile_.observableSky.rejectAutomatedGoto
    NeedDiscovery,  \* the mount's driver is native: it returns after discovery
    MaxStarts,      \* bound: operator starts
    MaxCrashes,     \* bound: process ends, by crash or by shutdown()
    MaxSkyChanges,  \* bound: changes of the visible set
    MaxLiveViews    \* bound: interactive live views

Tiles(b) == IF Plan[b].mode = "mosaic" THEN 1 .. Plan[b].tiles ELSE {1}
Targets == UNION {{b} \X Tiles(b) : b \in Blocks}
NoTarget == <<0, 0>>

ASSUME SkyAssumption == Skies \subseteq SUBSET Targets /\ Targets \in Skies
ASSUME SwitchAssumption == RejectGoto \in BOOLEAN /\ NeedDiscovery \in BOOLEAN
ASSUME BoundAssumption == {MaxStarts, MaxCrashes, MaxSkyChanges, MaxLiveViews} \subseteq Nat

\* imagingFrameTargetFor(), and planetary.serRuns for a planetary block.
FrameTarget(b) == Plan[b].frames * Cardinality(Tiles(b))

\* Mutant of Tile: the mosaic moves on one frame late.
TileLate(b, frames) ==
    IF frames = 0 \/ frames >= FrameTarget(b) THEN 1 ELSE (frames - 1) \div Plan[b].frames + 1

\* The tile mosaicTargetFor() points at after the given number of frames.
Tile(b, frames) ==
    IF frames >= FrameTarget(b) THEN Cardinality(Tiles(b)) ELSE frames \div Plan[b].frames + 1

Block(s) == Plan[s.block]
Target(s) ==
    IF Block(s).mode = "mosaic" THEN <<s.block, Tile(s.block, s.frames)>> ELSE <<s.block, 1>>

\* sessionRecenterDue() and sessionAutofocusDue(): the same cadence, counted
\* within a tile; from the second tile on its first frame follows the
\* mosaic's own switch as well.
CadenceDue(s, first, every, eachTile) ==
    LET local == IF Block(s).mode = "mosaic" THEN s.frames % Block(s).frames ELSE s.frames
    IN  IF local = 0
        THEN first /\ (s.frames = 0 \/ eachTile)
        ELSE every > 0 /\ local % every = 0

RecenterDue(s) ==
    CadenceDue(s, Block(s).recenterFirst, Block(s).recenterEvery, Block(s).recenterEachTile)
AutofocusDue(s) ==
    CadenceDue(s, Block(s).focusFirst, Block(s).focusEvery, Block(s).focusEachTile)
PlanetaryAutofocusDue(s) ==
    IF s.frames = 0 THEN Block(s).focusFirst
    ELSE Block(s).focusEvery > 0 /\ s.frames % Block(s).focusEvery = 0

VARIABLES
    sched,       \* scheduler_: status_, pendingOrder_ and runtimeProgress_
    attempt,     \* sessionRecenterAttempt_
    calibrated,  \* planetaryMountCalibration_.valid
    store,       \* QSettings: scheduler/armed and scheduler/nextBlockIndex
    up,          \* the node process runs
    resumeTimer, \* the constructor's 2.5 s timer that re-arms the calendar
    devices,     \* the configured devices are connected
    timers,      \* pending one-shot timers, by the handler they call
    ops,         \* live operations, in submission order
    events,      \* terminal updates posted to the main thread
    mount,       \* the hardware: park state and the target it points at
    visible,     \* targets inside the Observable Sky Region
    due,         \* blocks with no start date, or whose date has come
    done,        \* history: blocks completed since the calendar was last begun
    shots,       \* history: science frames or SER runs taken of each target
    lastCommand, \* history: the operator's last session command
    resumed,     \* history: the resume timer began the last session
    budget       \* what the bounds still allow

session == <<sched, attempt, calibrated>>
process == <<up, resumeTimer, devices>>
sky     == <<visible, due>>
history == <<done, shots, lastCommand, resumed, budget>>
vars == <<session, store, process, timers, ops, events, mount, sky, history>>

CameraKinds == {"capture", "solve", "autofocus", "planetary-acquire", "planetary-reacquire",
                "planetary-postcal-acquire", "planetary-autofocus", "planetary-calibration",
                "planetary-ser"}
SlewKinds == {"slew", "recenter-slew", "planetary-slew"}
ScienceKinds == {"capture", "planetary-ser"}

\* Mutant of Resources: a slew does not hold the mount.
SlewsUnlocked(op) == IF op.kind \in CameraKinds \cup {"live-view"} THEN {"camera"} ELSE {}

\* The resource lists of the submit() calls.  An operation's kind is the step
\* it was submitted for.
Resources(op) ==
    CASE op.kind \in SlewKinds -> {"mount"}
      [] op.kind = "solve" -> {"camera", "solver"}
      [] op.kind \in {"autofocus", "planetary-autofocus"} -> {"camera", "focuser"}
      [] op.kind = "planetary-calibration" -> {"camera", "mount"}
      [] op.kind = "planetary-ser" ->
             IF Plan[op.target[1]].corrections THEN {"camera", "mount"} ELSE {"camera"}
      [] OTHER -> {"camera"}

OpIds == 1 .. MaxStarts + MaxCrashes + MaxLiveViews + 2
FreeId == CHOOSE i \in OpIds : /\ i # sched.op
                               /\ \A k \in DOMAIN ops : ops[k].id # i
                               /\ \A k \in DOMAIN events : events[k].id # i

Running(q) == {k \in DOMAIN q : q[k].st = "running"}
Locked(q, r) == \E k \in Running(q) : r \in Resources(q[k])

\* tryStartQueued(): queued operations are granted in submission order, each
\* if no running operation holds one of its resources.
Granted(q) ==
    LET granted[k \in 0 .. Len(q)] ==
            IF k = 0 THEN Running(q)
            ELSE IF \A j \in granted[k - 1] : Resources(q[j]) \cap Resources(q[k]) = {}
                 THEN granted[k - 1] \cup {k}
                 ELSE granted[k - 1]
    IN  granted[Len(q)]

TryStart(q) ==
    LET granted == Granted(q)
    IN  [k \in DOMAIN q |-> IF k \in granted THEN [q[k] EXCEPT !.st = "running"] ELSE q[k]]

Submitted(q, kind, target) ==
    TryStart(Append(q, [id |-> FreeId, kind |-> kind, target |-> target,
                        st |-> "queued", cancel |-> FALSE]))

\* The operations of q but those at the positions `gone', in order.
Without(q, gone) ==
    LET kept[k \in 0 .. Len(q)] ==
            IF k = 0 THEN <<>>
            ELSE IF k \in gone THEN kept[k - 1] ELSE Append(kept[k - 1], q[k])
    IN  kept[Len(q)]

QueuedOf(q, ids) == {k \in DOMAIN q : q[k].id \in ids /\ q[k].st = "queued"}

\* Mutant of Cancelled: an operation that already runs is left alone.
CancelledInQueue(q, ids) == TryStart(Without(q, QueuedOf(q, ids)))

\* cancel(): a queued operation ends at once, a running one is only asked to.
Cancelled(q, ids) ==
    LET kept == Without(q, QueuedOf(q, ids))
    IN  TryStart([k \in DOMAIN kept |->
                     IF kept[k].id \in ids THEN [kept[k] EXCEPT !.cancel = TRUE] ELSE kept[k]])

Init ==
    /\ sched = Ready
    /\ attempt = 0
    /\ calibrated = FALSE
    /\ store = [armed |-> FALSE, next |-> 1]
    /\ up = TRUE
    /\ resumeTimer = FALSE
    /\ devices = TRUE
    /\ timers = [step |-> 0, sky |-> 0, park |-> 0, date |-> FALSE]
    /\ ops = <<>>
    /\ events = <<>>
    /\ mount \in [park : {"parked", "unparked"}, pointing : {NoTarget}]
    /\ visible \in Skies
    /\ due = {b \in Blocks : ~Plan[b].dated}
    /\ done = {}
    /\ shots = [t \in Targets |-> 0]
    /\ lastCommand = "none"
    /\ resumed = FALSE
    /\ budget = [starts |-> MaxStarts, crashes |-> MaxCrashes,
                 skies |-> MaxSkyChanges, lives |-> MaxLiveViews]

-----------------------------------------------------------------------------
(* What the handlers are made of.                                          *)

Ended(s) == ~s.active /\ s.state \in {"completed", "failed", "stopped"}

\* The statusChanged handler: an ended session disarms the persisted calendar.
Publish(s) ==
    /\ sched' = s
    /\ store' = [store EXCEPT !.armed = @ /\ ~Ended(s)]

\* QTimer::singleShot(..., scheduleSessionStep).
StepTimer(t) == [t EXCEPT !.step = @ + 1]

\* The submissions of startCurrent...(): the step runs under its operation.
Submit(s, kind) ==
    /\ ops' = Submitted(ops, kind, Target(s))
    /\ Publish(SetStep(s, kind, FreeId))

\* startMountSlew(): the guards, the automatic unpark and the submission.
SubmitSlew(s, kind) ==
    \/ /\ \/ ~devices /\ Publish(Fail(s, "no mount connected"))
          \/ /\ devices /\ RejectGoto /\ Target(s) \notin visible
             /\ Publish(Fail(s, "goto rejected"))
          \/ /\ devices /\ mount.park = "parked"
             /\ RejectGoto => Target(s) \in visible
             /\ Publish(Fail(s, "unpark failed"))
       /\ UNCHANGED <<ops, mount>>
    \/ /\ devices
       /\ RejectGoto => Target(s) \in visible
       /\ Submit(s, kind)
       /\ mount' = [mount EXCEPT !.park = "unparked"]

\* parkMount(): refused while an operation holds the mount; the hardware may
\* refuse as well.
ParkMount(s, park, step) ==
    \/ /\ ~Locked(ops, "mount")
       /\ mount' = [park |-> park, pointing |-> NoTarget]
       /\ Publish(SetStep(s, step, NoOp))
    \/ /\ Publish(Fail(s, "park failed"))
       /\ UNCHANGED mount

\* advanceBlock(), the persisted cursor, continueSessionAfterBlockAdvance().
Advance(s, t) ==
    LET next == AdvanceBlock(s, due)
    IN  /\ sched' = next
        /\ store' = [armed |-> store.armed /\ ~Ended(next), next |-> ResumeIndexHint(next)]
        /\ timers' = CASE ~next.active -> t
                       [] next.active /\ next.state = "scheduled" -> [t EXCEPT !.date = TRUE]
                       [] OTHER -> StepTimer(t)
        /\ done' = done \cup {s.block}

\* completeCurrentObservationBlock().
CompleteBlock(s) ==
    IF Block(s).park
    THEN /\ ParkMount(s, "parking", "park-after-block")
         /\ timers' = IF sched'.active THEN [timers EXCEPT !.park = @ + 1] ELSE timers
         /\ UNCHANGED done
    ELSE /\ Advance(s, timers)
         /\ UNCHANGED mount

-----------------------------------------------------------------------------
(* The operator and other clients.                                         *)

\* startSession(): from the persisted cursor, or from the beginning once every
\* block is done.
BeginSession ==
    LET wrap == store.next > Len(Plan)
        first == IF wrap THEN 1 ELSE store.next
        s == Start(sched, first, due)
    IN  /\ sched' = s
        /\ attempt' = 0
        /\ calibrated' = FALSE
        /\ store' = [armed |-> TRUE, next |-> first]
        /\ timers' = IF s.state = "scheduled"
                     THEN [timers EXCEPT !.date = TRUE]
                     ELSE [StepTimer(timers) EXCEPT !.date = FALSE]
        /\ done' = IF wrap THEN {} ELSE done
        /\ shots' = [t \in Targets |-> IF t[1] \in done' THEN shots[t] ELSE 0]

StartSession ==
    /\ up
    /\ ~sched.active
    /\ budget.starts > 0
    /\ BeginSession
    /\ lastCommand' = "start"
    /\ resumed' = FALSE
    /\ budget' = [budget EXCEPT !.starts = @ - 1]
    /\ UNCHANGED <<process, ops, events, mount, sky>>

\* stopSession(): stop the scheduler, disarm, then cancel what the session ran.
StopSession ==
    /\ up
    /\ sched' = Stop(sched, "Stopped by operator")
    /\ store' = [store EXCEPT !.armed = FALSE]
    /\ ops' = Cancelled(ops, {sched.op})
    /\ lastCommand' = "stop"
    /\ UNCHANGED <<attempt, calibrated, process, timers, events, mount, sky, done, shots,
                   resumed, budget>>

\* A client cancels an operation (cancelOperation()): a queued one ends at once
\* and the session that waits for it hears of it before cancel() returns.
CancelOperation ==
    /\ up
    /\ \E k \in DOMAIN ops :
          /\ ~ops[k].cancel
          /\ ops' = Cancelled(ops, {ops[k].id})
          /\ Publish(IF sched.active /\ sched.op = ops[k].id /\ ops[k].st = "queued"
                     THEN Fail(sched, "cancelled")
                     ELSE sched)
    /\ UNCHANGED <<attempt, calibrated, process, timers, events, mount, sky, history>>

\* startLiveView(): any client may ask for the main camera at any time.
StartLiveView ==
    /\ up
    /\ devices
    /\ budget.lives > 0
    /\ ops' = Submitted(ops, "live-view", NoTarget)
    /\ budget' = [budget EXCEPT !.lives = @ - 1]
    /\ UNCHANGED <<session, store, process, timers, events, mount, sky, done, shots,
                   lastCommand, resumed>>

-----------------------------------------------------------------------------
(* scheduleSessionStep(), called by its one-shot timers.                   *)

Fired == [timers EXCEPT !.step = @ - 1]

\* The timer fires and the session has something to do: it is running and its
\* step is not one that waits for something else.
Stepping(step) ==
    /\ up
    /\ timers.step > 0
    /\ sched.active
    /\ sched.state = "running"
    /\ sched.step = step

SkyChecked == {"prepare-block", "capture-pending", "planetary-acquire-pending"}
Submissions == {"solve-pending", "autofocus-pending", "capture-pending",
                "planetary-acquire-pending", "planetary-reacquire-pending",
                "planetary-postcal-acquire-pending", "planetary-autofocus-pending",
                "planetary-calibration-pending", "planetary-ser-pending"}

KindOf(step) ==
    CASE step = "solve-pending" -> "solve"
      [] step = "autofocus-pending" -> "autofocus"
      [] step = "capture-pending" -> "capture"
      [] step = "planetary-acquire-pending" -> "planetary-acquire"
      [] step = "planetary-reacquire-pending" -> "planetary-reacquire"
      [] step = "planetary-postcal-acquire-pending" -> "planetary-postcal-acquire"
      [] step = "planetary-autofocus-pending" -> "planetary-autofocus"
      [] step = "planetary-calibration-pending" -> "planetary-calibration"
      [] step = "planetary-ser-pending" -> "planetary-ser"

\* A timer of an earlier step or session finds nothing to do.
StepIdle ==
    /\ up
    /\ timers.step > 0
    /\ \/ ~sched.active
       \/ sched.state = "scheduled"
       \/ sched.step \notin Submissions \cup {"waiting-camera", "unpark-before-block", "prepare-block"}
    /\ timers' = Fired
    /\ UNCHANGED <<session, store, process, ops, events, mount, sky, history>>

\* selectObservableSchedulerBlock(): blocks go to the back of the pending order
\* until a due and visible one is at the front; a full turn without one waits.
DeferBlock ==
    /\ \E step \in SkyChecked : Stepping(step)
    /\ Target(sched) \notin visible
    /\ LET turned(k) == DeferBlocks(sched, k, due)
           eligible == {k \in 1 .. Len(sched.order) - 1 :
                          sched.order[k + 1] \in due /\ Target(turned(k)) \in visible}
       IN  IF eligible # {}
           THEN /\ Publish(turned(CHOOSE k \in eligible : \A j \in eligible : k <= j))
                /\ UNCHANGED timers
           ELSE /\ Publish(SetStep(sched, "waiting-observable-sky", NoOp))
                /\ timers' = [Fired EXCEPT !.sky = @ + 1]
    /\ UNCHANGED <<attempt, calibrated, process, ops, events, mount, sky, history>>

\* Step waiting-camera: interactive live views are cancelled, and the camera is
\* polled until no operation holds it.
LiveViews == {ops[k].id : k \in {j \in DOMAIN ops : ops[j].kind = "live-view"}}

WaitCamera ==
    /\ Stepping("waiting-camera")
    /\ ops' = Cancelled(ops, LiveViews)
    /\ Publish(SetStep(sched, IF Locked(ops', "camera") THEN "waiting-camera" ELSE "prepare-block",
                       NoOp))
    /\ UNCHANGED <<attempt, calibrated, process, timers, events, mount, sky, history>>

\* Step unpark-before-block polls the mount.
WaitUnpark ==
    /\ Stepping("unpark-before-block")
    /\ \/ /\ Publish(SetStep(sched, IF mount.park = "unparked" THEN "prepare-block" ELSE sched.step,
                             NoOp))
          /\ UNCHANGED timers
       \/ /\ Publish(Fail(sched, "mount status failed"))
          /\ timers' = Fired
    /\ UNCHANGED <<attempt, calibrated, process, ops, events, mount, sky, history>>

\* Step prepare-block: unpark first if the block asks for it and the mount
\* reports that it is parked (a status that cannot be read skips this), else slew.
PrepareBlock ==
    /\ Stepping("prepare-block")
    /\ Target(sched) \in visible
    /\ attempt' = 0
    /\ \/ /\ Block(sched).unpark /\ devices /\ mount.park = "parked"
          /\ ParkMount(sched, "unparking", "unpark-before-block")
          /\ timers' = IF sched'.active THEN timers ELSE Fired
          /\ UNCHANGED <<calibrated, ops>>
       \/ /\ calibrated' = (calibrated /\ Block(sched).mode # "planetary")
          /\ SubmitSlew(sched, IF Block(sched).mode = "planetary" THEN "planetary-slew" ELSE "slew")
          /\ timers' = Fired
    /\ UNCHANGED <<process, events, sky, history>>

\* The other pending steps submit their operation; a device it needs may be
\* missing.
SubmitStep ==
    /\ \E step \in Submissions : Stepping(step)
    /\ sched.step \in SkyChecked => Target(sched) \in visible
    /\ \/ Submit(sched, KindOf(sched.step))
       \/ Publish(Fail(sched, "not started")) /\ UNCHANGED ops
    /\ timers' = Fired
    /\ UNCHANGED <<attempt, calibrated, process, events, mount, sky, history>>

-----------------------------------------------------------------------------
(* The other timers.                                                       *)

\* Mutant of SkyTimer: the step is set and nothing runs it.
SkyTimerQuiet ==
    /\ up
    /\ timers.sky > 0
    /\ timers' = [timers EXCEPT !.sky = @ - 1]
    /\ Publish(IF sched.active /\ sched.step = "waiting-observable-sky"
               THEN SetStep(sched, "prepare-block", NoOp) ELSE sched)
    /\ UNCHANGED <<attempt, calibrated, process, ops, events, mount, sky, history>>

\* The recheck timer of selectObservableSchedulerBlock(): it sets the step and
\* calls scheduleSessionStep(), modelled as that handler's timer.
SkyTimer ==
    /\ up
    /\ timers.sky > 0
    /\ LET t == [timers EXCEPT !.sky = @ - 1]
           waiting == sched.active /\ sched.step = "waiting-observable-sky"
       IN  /\ Publish(IF waiting THEN SetStep(sched, "prepare-block", NoOp) ELSE sched)
           /\ timers' = IF waiting THEN StepTimer(t) ELSE t
    /\ UNCHANGED <<attempt, calibrated, process, ops, events, mount, sky, history>>

\* pollInterBlockPark().
ParkTimer ==
    /\ up
    /\ timers.park > 0
    /\ LET t == [timers EXCEPT !.park = @ - 1]
       IN  IF ~(sched.active /\ sched.step = "park-after-block")
           THEN /\ timers' = t
                /\ UNCHANGED <<sched, store, done>>
           ELSE \/ /\ mount.park = "parked"
                   /\ Advance(sched, t)
                \/ /\ mount.park # "parked"
                   /\ UNCHANGED <<sched, store, timers, done>>
                \/ /\ Publish(Fail(sched, "mount status failed"))
                   /\ timers' = t
                   /\ UNCHANGED done
    /\ UNCHANGED <<attempt, calibrated, process, ops, events, mount, sky, shots, lastCommand,
                   resumed, budget>>

\* armScheduledSessionStart(): the date of the block this session waits for has
\* come.  Timers of another session find its id changed.
DateTimer ==
    /\ up
    /\ timers.date
    /\ sched.active
    /\ sched.state = "scheduled"
    /\ sched.block \in due
    /\ Publish(BeginScheduled(sched))
    /\ timers' = [StepTimer(timers) EXCEPT !.date = FALSE]
    /\ UNCHANGED <<attempt, calibrated, process, ops, events, mount, sky, history>>

-----------------------------------------------------------------------------
(* Operations on the pool.                                                 *)

\* finish(): a session operation ends, its locks are released and granted again
\* and its last update is posted.  Only an operation that was asked to can end
\* cancelled; one that was asked to late may still succeed.
OperationEnds ==
    /\ up
    /\ \E k \in Running(ops) :
          LET op == ops[k] IN
          /\ op.kind # "live-view"
          /\ \E result \in {"succeeded", "failed", "cancelled"} :
                /\ result = "cancelled" => op.cancel
                /\ events' = Append(events, [id |-> op.id, result |-> result])
                /\ mount' = IF op.kind \notin SlewKinds \cup {"planetary-calibration"} THEN mount
                            ELSE [park |-> "unparked",
                                  pointing |-> IF result = "succeeded" THEN op.target ELSE NoTarget]
                /\ shots' = IF /\ op.kind \in ScienceKinds
                               /\ result = "succeeded"
                               /\ sched.op = op.id
                            THEN [shots EXCEPT ![op.target] = @ + 1]
                            ELSE shots
          /\ ops' = TryStart(Without(ops, {k}))
    /\ UNCHANGED <<session, store, process, timers, sky, done, lastCommand, resumed, budget>>

\* A live view runs until it is cancelled or the camera fails.
LiveViewEnds ==
    /\ up
    /\ \E k \in Running(ops) : /\ ops[k].kind = "live-view"
                               /\ ops' = TryStart(Without(ops, {k}))
    /\ UNCHANGED <<session, store, process, timers, events, mount, sky, history>>

-----------------------------------------------------------------------------
(* handleSessionOperationUpdate().                                         *)

\* The step that follows, with the timer that will run it.
Proceed(s, step) ==
    /\ Publish(SetStep(s, step, NoOp))
    /\ timers' = StepTimer(timers)

\* What follows pointing at the target: recentre, focus, expose.
AfterPointing(s) ==
    Proceed(s, IF RecenterDue(s) THEN "solve-pending"
             ELSE IF AutofocusDue(s) THEN "autofocus-pending" ELSE "capture-pending")

\* The end of the operation the session waits for.
OwnEvent ==
    /\ up
    /\ events # <<>>
    /\ sched.active
    /\ sched.op # NoOp
    /\ Head(events).id = sched.op
    /\ events' = Tail(events)

Succeeded(kind) == OwnEvent /\ Head(events).result = "succeeded" /\ sched.step = kind

Cleared == ClearOperation(sched)

ForeignEvent ==
    /\ up
    /\ events # <<>>
    /\ ~(sched.active /\ sched.op # NoOp /\ Head(events).id = sched.op)
    /\ events' = Tail(events)
    /\ UNCHANGED <<session, store, process, timers, ops, mount, sky, history>>

StepFailed ==
    /\ OwnEvent
    /\ Head(events).result # "succeeded"
    /\ Publish(Fail(sched, Head(events).result))
    /\ UNCHANGED <<attempt, calibrated, process, timers, ops, mount, sky, history>>

SlewDone ==
    /\ Succeeded("slew")
    /\ attempt' = 0
    /\ AfterPointing(Cleared)
    /\ UNCHANGED <<calibrated, process, ops, mount, sky, history>>

RecenterSlewDone ==
    /\ Succeeded("recenter-slew")
    /\ Proceed(Cleared, "solve-pending")
    /\ UNCHANGED <<attempt, calibrated, process, ops, mount, sky, history>>

\* The solved field is within the tolerance, or the mount is synced to it and
\* slewed again while attempts are left.
SolveDone ==
    /\ Succeeded("solve")
    /\ \/ /\ attempt' = 0
          /\ Proceed(Cleared, IF AutofocusDue(Cleared) THEN "autofocus-pending" ELSE "capture-pending")
          /\ UNCHANGED <<ops, mount>>
       \/ /\ attempt >= Block(sched).maxAttempts
          /\ Publish(Fail(Cleared, "recenter did not converge"))
          /\ UNCHANGED <<attempt, timers, ops, mount>>
       \/ /\ attempt < Block(sched).maxAttempts
          /\ \/ /\ ~Locked(ops, "mount")
                /\ attempt' = attempt + 1
                /\ SubmitSlew(Cleared, "recenter-slew")
             \/ /\ Publish(Fail(Cleared, "sync failed"))
                /\ UNCHANGED <<attempt, ops, mount>>
          /\ UNCHANGED timers
    /\ UNCHANGED <<calibrated, process, sky, history>>

AutofocusDone ==
    /\ Succeeded("autofocus")
    /\ Proceed(Cleared, "capture-pending")
    /\ UNCHANGED <<attempt, calibrated, process, ops, mount, sky, history>>

\* The block is complete, a mosaic goes on to its next tile, or another frame
\* of the same field follows.
CaptureDone ==
    /\ Succeeded("capture")
    /\ LET s == MarkFrameCompleted(Cleared)
       IN  IF s.frames >= FrameTarget(s.block)
           THEN /\ CompleteBlock(s)
                /\ UNCHANGED <<attempt, ops>>
           ELSE /\ attempt' = 0
                /\ IF Block(s).mode = "mosaic" /\ s.frames % Block(s).frames = 0
                   THEN /\ SubmitSlew(s, "slew")
                        /\ UNCHANGED timers
                   ELSE /\ AfterPointing(s)
                        /\ UNCHANGED <<ops, mount>>
                /\ UNCHANGED done
    /\ UNCHANGED <<calibrated, process, sky, shots, lastCommand, resumed, budget>>

PlanetarySlewDone ==
    /\ Succeeded("planetary-slew")
    /\ Proceed(Cleared, "planetary-acquire-pending")
    /\ UNCHANGED <<attempt, calibrated, process, ops, mount, sky, history>>

\* A full frame was taken: the planet is found, or the session fails.
PlanetaryAcquireDone ==
    /\ \/ Succeeded("planetary-acquire")
       \/ Succeeded("planetary-reacquire")
       \/ Succeeded("planetary-postcal-acquire")
    /\ \/ Proceed(Cleared,
                IF sched.step = "planetary-acquire" /\ PlanetaryAutofocusDue(sched)
                THEN "planetary-autofocus-pending"
                ELSE IF /\ Block(sched).corrections
                        /\ Block(sched).calibrate
                        /\ ~calibrated
                        /\ sched.step # "planetary-postcal-acquire"
                     THEN "planetary-calibration-pending"
                     ELSE "planetary-ser-pending")
       \/ /\ Publish(Fail(Cleared, "planet not detected"))
          /\ UNCHANGED timers
    /\ UNCHANGED <<attempt, calibrated, process, ops, mount, sky, history>>

PlanetaryAutofocusDone ==
    /\ Succeeded("planetary-autofocus")
    /\ Proceed(Cleared, "planetary-reacquire-pending")
    /\ UNCHANGED <<attempt, calibrated, process, ops, mount, sky, history>>

PlanetaryCalibrationDone ==
    /\ Succeeded("planetary-calibration")
    /\ calibrated' = TRUE
    /\ Proceed(Cleared, "planetary-postcal-acquire-pending")
    /\ UNCHANGED <<attempt, process, ops, mount, sky, history>>

\* Another SER run follows after the pause, unless the block is complete.
PlanetarySerDone ==
    /\ Succeeded("planetary-ser")
    /\ LET s == MarkFrameCompleted(Cleared)
       IN  IF s.frames >= FrameTarget(s.block)
           THEN CompleteBlock(s)
           ELSE /\ Proceed(s, "planetary-acquire-pending")
                /\ UNCHANGED <<mount, done>>
    /\ UNCHANGED <<attempt, calibrated, process, ops, sky, shots, lastCommand, resumed, budget>>

-----------------------------------------------------------------------------
(* The life of the process.                                                *)

\* Everything in memory is lost; the mount is wherever it stopped.
ProcessEnds ==
    /\ up
    /\ budget.crashes > 0
    /\ up' = FALSE
    /\ resumeTimer' = FALSE
    /\ devices' = FALSE
    /\ attempt' = 0
    /\ calibrated' = FALSE
    /\ timers' = [step |-> 0, sky |-> 0, park |-> 0, date |-> FALSE]
    /\ ops' = <<>>
    /\ events' = <<>>
    /\ mount' = [mount EXCEPT !.pointing = NoTarget]
    /\ budget' = [budget EXCEPT !.crashes = @ - 1]
    /\ UNCHANGED <<sky, done, shots, lastCommand, resumed>>

Crash ==
    /\ ProcessEnds
    /\ sched' = Ready
    /\ UNCHANGED store

\* ApplicationController::shutdown(): an active session is stopped, and the
\* operations are cancelled and waited for.
Shutdown ==
    /\ ProcessEnds
    /\ Publish(IF sched.active THEN Stop(sched, "") ELSE sched)

\* The constructor loads the plan and, if the calendar is armed, starts the
\* resume timer; native devices come back when their discovery completes.
Restart ==
    /\ ~up
    /\ up' = TRUE
    /\ sched' = Ready
    /\ resumeTimer' = store.armed
    /\ devices' = ~NeedDiscovery
    /\ UNCHANGED <<attempt, calibrated, store, timers, ops, events, mount, sky, history>>

ResumeTimer ==
    /\ up
    /\ resumeTimer
    /\ resumeTimer' = FALSE
    /\ IF sched.active
       THEN UNCHANGED <<session, store, timers, done, shots, resumed>>
       ELSE BeginSession /\ resumed' = TRUE
    /\ UNCHANGED <<up, devices, ops, events, mount, sky, lastCommand, budget>>

\* restoreConfiguredDevices() after nativeDiscoveryCompleted.
DevicesRestored ==
    /\ up
    /\ ~devices
    /\ devices' = TRUE
    /\ UNCHANGED <<session, store, up, resumeTimer, timers, ops, events, mount, sky, history>>

-----------------------------------------------------------------------------
(* The environment.                                                        *)

SkyChanges ==
    /\ budget.skies > 0
    /\ visible' \in Skies \ {visible}
    /\ budget' = [budget EXCEPT !.skies = @ - 1]
    /\ UNCHANGED <<session, store, process, timers, ops, events, mount, due, done, shots,
                   lastCommand, resumed>>

DateComes ==
    /\ \E b \in Blocks \ due : due' = due \cup {b}
    /\ UNCHANGED <<session, store, process, timers, ops, events, mount, visible, history>>

ParkMotionEnds ==
    /\ \/ /\ mount.park = "parking"
          /\ mount' = [mount EXCEPT !.park = "parked"]
       \/ /\ mount.park = "unparking"
          /\ mount' = [mount EXCEPT !.park = "unparked"]
    /\ UNCHANGED <<session, store, process, timers, ops, events, sky, history>>

Clients == StartSession \/ StopSession \/ CancelOperation \/ StartLiveView
StepHandler == StepIdle \/ DeferBlock \/ WaitCamera \/ WaitUnpark \/ PrepareBlock \/ SubmitStep
EventHandler ==
    \/ ForeignEvent \/ StepFailed
    \/ SlewDone \/ RecenterSlewDone \/ SolveDone \/ AutofocusDone \/ CaptureDone
    \/ PlanetarySlewDone \/ PlanetaryAcquireDone \/ PlanetaryAutofocusDone
    \/ PlanetaryCalibrationDone \/ PlanetarySerDone

Next ==
    \/ Clients
    \/ StepHandler
    \/ SkyTimer
    \/ ParkTimer
    \/ DateTimer
    \/ OperationEnds
    \/ LiveViewEnds
    \/ EventHandler
    \/ Crash
    \/ Shutdown
    \/ Restart
    \/ ResumeTimer
    \/ DevicesRestored
    \/ SkyChanges
    \/ DateComes
    \/ ParkMotionEnds

Spec == Init /\ [][Next]_vars

\* The event loop serves its timers and posted events, operations end (every
\* task is bounded or times out), dates come and the mount finishes a motion.
\* A live view ends for certain only once it was asked to.
CancelledLiveViewEnds ==
    LiveViewEnds /\ \A k \in Running(ops) : ops[k].kind = "live-view" => ops[k].cancel

Fairness ==
    /\ WF_vars(StepHandler)
    /\ WF_vars(SkyTimer)
    /\ WF_vars(ParkTimer)
    /\ WF_vars(DateTimer)
    /\ WF_vars(EventHandler)
    /\ WF_vars(OperationEnds)
    /\ WF_vars(CancelledLiveViewEnds)
    /\ WF_vars(DateComes)
    /\ WF_vars(ParkMotionEnds)

FairSpec == Spec /\ Fairness

-----------------------------------------------------------------------------
(* Properties.                                                             *)

\* The steps a session goes through, and the reasons it ends for.
Steps == {"ready", "waiting-block-start", "waiting-camera", "waiting-observable-sky",
          "prepare-block", "unpark-before-block", "park-after-block",
          "completed", "failed", "stopped"} \cup Submissions \cup SlewKinds \cup CameraKinds
Reasons == {"", "Stopped by operator", "cancelled", "failed", "no mount connected",
            "goto rejected", "unpark failed", "park failed", "mount status failed", "not started",
            "recenter did not converge", "sync failed", "planet not detected"}

\* Every variable has the type its C++ counterpart has; block indices and the
\* persisted cursor stay within the plan.
TypeOK ==
    /\ sched \in [active : BOOLEAN, state : States, step : Steps, op : OpIds \cup {NoOp},
                  error : Reasons, block : Blocks, frames : Nat, order : Seq(Blocks),
                  progress : [Blocks -> Nat]]
    /\ attempt \in Nat
    /\ calibrated \in BOOLEAN
    /\ store \in [armed : BOOLEAN, next : 1 .. Len(Plan) + 1]
    /\ {up, resumeTimer, devices} \subseteq BOOLEAN
    /\ timers \in [step : Nat, sky : Nat, park : Nat, date : BOOLEAN]
    /\ ops \in Seq([id : OpIds, kind : SlewKinds \cup CameraKinds \cup {"live-view"},
                    target : Targets \cup {NoTarget}, st : {"queued", "running"},
                    cancel : BOOLEAN])
    /\ events \in Seq([id : OpIds, result : {"succeeded", "failed", "cancelled"}])
    /\ mount \in [park : {"parked", "parking", "unparked", "unparking"},
                  pointing : Targets \cup {NoTarget}]
    /\ visible \in Skies
    /\ due \subseteq Blocks
    /\ done \subseteq Blocks
    /\ shots \in [Targets -> Nat]
    /\ lastCommand \in {"none", "start", "stop"}
    /\ resumed \in BOOLEAN
    /\ budget \in [starts : Nat, crashes : Nat, skies : Nat, lives : Nat]

SessionOps == {k \in DOMAIN ops : ops[k].kind # "live-view"}

\* Whatever blocks were deferred, stopped or lost in a crash, the persisted
\* cursor never points past a block that is not complete (resumeIndexHint(),
\* saveSchedulerNextBlockIndex()).
NeverSkips == \A b \in Blocks : b < store.next => b \in done

\* A block is completed with exactly the frames its plan asks for of every
\* tile, across deferrals, recentres, stops and restarts.
FramesExact ==
    [][\A b \in done' \ done : \A t \in Targets : t[1] = b => shots'[t] = Plan[b].frames]_vars

\* An active session always has something pending that will drive it on: its
\* operation or that operation's update, or the timer its step waits for.
NoStall ==
    up /\ sched.active =>
        \/ /\ sched.op # NoOp
           /\ \/ \E k \in DOMAIN ops : ops[k].id = sched.op
              \/ \E k \in DOMAIN events : events[k].id = sched.op
        \/ sched.op = NoOp /\ sched.state = "scheduled" /\ timers.date
        \/ sched.op = NoOp /\ sched.step = "waiting-observable-sky" /\ timers.sky > 0
        \/ sched.op = NoOp /\ sched.step = "park-after-block" /\ timers.park > 0
        \/ /\ sched.op = NoOp
           /\ sched.step \in Submissions
                  \cup {"waiting-camera", "unpark-before-block", "prepare-block"}
           /\ timers.step > 0

\* No operation of a session outlives it unasked: a live one that nobody
\* cancelled is the one the active session waits for.  Hence a session never
\* runs two operations, whatever timers an earlier one left behind.
NoOrphanOperation ==
    \A k \in SessionOps : ~ops[k].cancel => sched.active /\ sched.op = ops[k].id

\* The camera works for the session only while the unparked mount rests on the
\* target the operation was submitted for.
PointedAtTarget ==
    \A k \in SessionOps :
        ops[k].st = "running" /\ ~ops[k].cancel /\ ops[k].kind \in CameraKinds =>
            /\ mount.park = "unparked"
            /\ mount.pointing = ops[k].target
            /\ \A j \in Running(ops) : ops[j].kind \notin SlewKinds

\* No block is worked on before its date.
NeverEarly == \A k \in SessionOps : ops[k].target[1] \in due

\* While nothing was ever hidden, and so nothing was deferred, a complete block is
\* not worked on again, whatever crashes and restarts come between.  (After a
\* deferral the one persisted cursor cannot say which later blocks are complete.)
NoReplay ==
    budget.skies = MaxSkyChanges /\ visible = Targets =>
        \A k \in SessionOps : ops[k].cancel \/ ops[k].target[1] \notin done

LiveViewHolds == \E k \in Running(ops) : ops[k].kind = "live-view" /\ ~ops[k].cancel

\* Liveness.  Every session ends, unless a client's live view keeps the camera or
\* the session waits for the sky.
SessionsEnd == []<>(~sched.active \/ LiveViewHolds \/ sched.step = "waiting-observable-sky")

\* docs/SCHEDULER.md:19: only an operator's Stop disarms the calendar; a restart
\* of the process resumes it.
RestartKeepsCalendar ==
    ~up /\ sched.state = "stopped" /\ sched.error = "" => store.armed

\* docs/SCHEDULER.md:19: a clean operator Stop disarms the calendar.
StopHolds == lastCommand = "stop" => ~sched.active

\* docs/SCHEDULER.md:13: a restarted process resumes at the first unfinished block.
ResumesWithDevices == resumed => sched.error # "no mount connected"


\* Every variable has its type; what is persisted of the calendar skips no block, and takes
\* none up again, over deferrals, stops, crashes and restarts.
CalendarInv == TypeOK /\ NeverSkips /\ NoReplay
=============================================================================
