------------------------------ MODULE SdkCamera ------------------------------
(***************************************************************************)
(* The QHY and ZWO ASI camera drivers.  One call at a time works with the  *)
(* camera under its mutex; an abort passes it.  QHY has a stream mode that *)
(* is changed by opening the camera again, and reads a frame in one call   *)
(* of its SDK that a watchdog bounds; ASI polls the exposure every 10 ms.  *)
(* What the SDK does is `sdk`; its commands may fail, a bounded number of  *)
(* times.                                                                  *)
(***************************************************************************)
EXTENDS Naturals

CONSTANT MaxSdkFaults  \* bound: commands of the SDK that fail

VARIABLES
    brand,      \* the driver: "none" before it is started
    unit,       \* CameraState: connected, open (handle), abort, live, mode, health
    sdk,        \* what the camera does: "none", "expose" (or reads out), "video", or "adrift":
                \* an exposure nobody waits for, its call having lost sight of it
    act,        \* the call that has the camera: its method and step
    slip,       \* the command that was to end what the camera does failed
    sdkFaults

scVars == <<brand, unit, sdk, act, slip, sdkFaults>>

Shelved == [connected |-> FALSE, open |-> FALSE, abort |-> FALSE, live |-> FALSE, mode |-> 0, health |-> 0]
NoAct == [m |-> "none", pc |-> "idle", cancelled |-> FALSE]

ScInit == brand = "none" /\ unit = Shelved /\ sdk = "none" /\ act = NoAct /\ slip = FALSE /\ sdkFaults = 0

Qhy == brand = "qhy"
Done == sdkFaults' = sdkFaults
Failed == sdkFaults < MaxSdkFaults /\ sdkFaults' = sdkFaults + 1

\* A command that ends what the camera does: it works, or leaves it as it is.
Ends == \/ Done /\ sdk' = "none" /\ UNCHANGED slip
        \/ Failed /\ UNCHANGED sdk /\ slip' = (slip \/ sdk # "none")

Return == act' = NoAct
To(pc) == act' = [act EXCEPT !.pc = pc]

Driver(k) == brand = "none" /\ brand' = k /\ UNCHANGED <<unit, sdk, act, slip, sdkFaults>>

Call(m) ==
    /\ brand # "none" /\ act.m = "none"
    /\ (m = "connect" => ~unit.connected) /\ (m \notin {"connect", "disconnect"} => unit.connected)
    /\ (m = "liveFrame" => unit.live) /\ (m = "liveStart" => ~unit.live)
    /\ act' = [NoAct EXCEPT !.m = m, !.pc = "begin"]
    /\ UNCHANGED <<brand, unit, sdk, slip, sdkFaults>>

At(m, pc) == act.m = m /\ act.pc = pc /\ UNCHANGED brand

-----------------------------------------------------------------------------
(* Opening and closing *)

\* openCameraMode(): what an opened camera is.
Opened(mode) == [Shelved EXCEPT !.connected = TRUE, !.open = TRUE, !.mode = mode]

\* Closing the handle ends what the camera did.  A QHY camera that was disconnected by
\* an error still has its old handle open, which is lost.
Connect ==
    /\ At("connect", "begin") /\ Return /\ sdk' = "none" /\ slip' = FALSE
    /\ \/ Done /\ unit' = Opened(0)
       \/ Failed /\ unit' = [unit EXCEPT !.open = FALSE]

CloseCamera == unit' = [Shelved EXCEPT !.abort = TRUE] /\ sdk' = "none" /\ slip' = FALSE

Disconnect == At("disconnect", "begin") /\ Return /\ Done /\ CloseCamera

\* The driver is stopped with no call in progress and its library unloaded.
StopDriver == brand # "none" /\ act.m = "none" /\ brand' = "none" /\ CloseCamera /\ UNCHANGED <<act, sdkFaults>>

\* reopenCameraMode(), then the next step; a camera that cannot be opened is disconnected.
Reopen(mode, next) ==
    /\ sdk' = "none" /\ slip' = FALSE
    /\ \/ Done /\ unit' = Opened(mode) /\ next
       \/ Failed /\ unit' = [unit EXCEPT !.connected = FALSE, !.open = FALSE, !.live = FALSE] /\ Return

\* Three probes in a row that fail disconnect a QHY camera; a live view is not probed.
Health ==
    /\ At("health", "begin") /\ Return /\ UNCHANGED <<sdk, slip>>
    /\ IF ~Qhy \/ unit.live \/ ~unit.open THEN Done /\ UNCHANGED unit
       ELSE \/ Done /\ unit' = [unit EXCEPT !.health = 0]
            \/ /\ Failed
               /\ unit' = [unit EXCEPT !.health = @ + 1, !.connected = unit.health < 2]

-----------------------------------------------------------------------------
(* An abort, or the cancellation of the operation *)

\* QHY leaves a live view alone.  ASI asks the host about the operation too.
Abort ==
    /\ brand # "none" /\ unit.connected /\ unit.open
    /\ unit' = [unit EXCEPT !.abort = TRUE]
    /\ IF (Qhy /\ unit.live) \/ sdk = "video" THEN Done /\ UNCHANGED <<sdk, slip>>
       ELSE \/ Done /\ sdk' = "none" /\ UNCHANGED slip
            \/ Failed /\ UNCHANGED <<sdk, slip>>
    /\ UNCHANGED <<brand, act>>

Cancel ==
    /\ brand = "asi" /\ act.m = "capture" /\ act' = [act EXCEPT !.cancelled = TRUE]
    /\ UNCHANGED <<brand, unit, sdk, slip, sdkFaults>>

-----------------------------------------------------------------------------
(* camera.capture *)

\* A live view is ended first; an abort that came before is forgotten.
CaptureBegin ==
    /\ At("capture", "begin")
    /\ IF Qhy THEN IF unit.mode # 0 THEN Reopen(0, To("set"))
                   ELSE Done /\ To("set") /\ unit' = [unit EXCEPT !.abort = FALSE] /\ UNCHANGED <<sdk, slip>>
       ELSE /\ To("set") /\ unit' = [unit EXCEPT !.abort = FALSE, !.live = FALSE]
            /\ IF unit.live THEN Ends ELSE Done /\ UNCHANGED <<sdk, slip>>

\* Binning, region, format, exposure, gain and offset.
Set ==
    /\ act.m \in {"capture", "liveStart"} /\ act.pc = "set" /\ UNCHANGED <<brand, unit, sdk, slip>>
    /\ \/ Done /\ To("start")
       \/ Failed /\ Return

\* An exposure that does not start is ended.
Expose ==
    /\ At("capture", "start") /\ UNCHANGED unit
    /\ \/ sdk # "video" /\ Done /\ sdk' = "expose" /\ To(IF Qhy THEN "begun" ELSE "read") /\ UNCHANGED slip
       \/ /\ (Failed \/ (sdk \in {"video", "adrift"} /\ Done))
          /\ sdk' = IF Qhy THEN "none" ELSE sdk
          /\ Return /\ UNCHANGED slip

\* QHY: the exposure is ended if an abort came as it began, or there is no memory for it.
Begun ==
    /\ At("capture", "begun") /\ UNCHANGED unit
    /\ IF unit.abort THEN Ends /\ Return
       ELSE \/ Done /\ To("read") /\ UNCHANGED <<sdk, slip>>
            \/ Failed /\ sdk' = "none" /\ Return /\ UNCHANGED slip

\* mutant: a cycle that was read is not ended
ReadNotEnded ==
    /\ At("capture", "read") /\ Qhy /\ UNCHANGED <<sdk, slip>>
    /\ \/ sdk = "expose" /\ Done /\ To("publish") /\ UNCHANGED unit
       \/ /\ (sdk = "expose" /\ Failed) \/ (sdk # "expose" /\ Done)
          /\ Return /\ unit' = [unit EXCEPT !.connected = unit.abort]

\* The frame is read and the cycle ended.  A frame that does not come before the
\* watchdog ends it, or is refused though nobody aborted it, disconnects the camera.
Read ==
    /\ At("capture", "read") /\ Qhy
    /\ \/ sdk = "expose" /\ Ends /\ To("publish") /\ UNCHANGED unit
       \/ /\ (sdk = "expose" /\ Failed) \/ (sdk # "expose" /\ Done)
          /\ sdk' = "none" /\ Return /\ UNCHANGED slip
          /\ unit' = [unit EXCEPT !.connected = unit.abort]

\* The watchdog comes first even to a frame that an abort ended.
Watchdog ==
    /\ At("capture", "read") /\ Qhy /\ Failed /\ sdk' = "none" /\ Return
    /\ unit' = [unit EXCEPT !.connected = FALSE] /\ UNCHANGED slip

\* One look at the exposure: to be cancelled, its status unknown, over or failed.  A call
\* that cannot read the status returns and sends the camera nothing.
Poll ==
    /\ At("capture", "read") /\ ~Qhy /\ UNCHANGED unit
    /\ \/ (unit.abort \/ act.cancelled) /\ Ends /\ Return
       \/ /\ ~unit.abort /\ ~act.cancelled
          /\ UNCHANGED slip
          /\ \/ Failed /\ Return /\ sdk' = IF sdk = "expose" THEN "adrift" ELSE sdk
             \/ Done /\ sdk = "expose" /\ sdk' = "none" /\ To("publish")
             \/ Failed /\ sdk = "expose" /\ sdk' = "none" /\ Return
             \/ Done /\ sdk # "expose" /\ Return /\ UNCHANGED sdk

\* The frame is handed over, unless QHY was aborted meanwhile or ASI cannot read it.
Publish ==
    /\ At("capture", "publish") /\ Return /\ UNCHANGED <<sdk, slip>>
    /\ unit' = IF Qhy /\ ~unit.abort THEN [unit EXCEPT !.health = 0] ELSE unit
    /\ (Done \/ (~Qhy /\ Failed))

-----------------------------------------------------------------------------
(* Live view *)

LiveBegin ==
    /\ At("liveStart", "begin")
    /\ IF Qhy /\ unit.mode # 1 THEN Reopen(1, To("set"))
       ELSE Done /\ To("set") /\ UNCHANGED <<sdk, slip>>
            /\ unit' = IF Qhy THEN unit ELSE [unit EXCEPT !.abort = FALSE]

\* QHY forgets an abort that came while the view was being set up.  An exposure adrift
\* may be over by now.
LiveStart ==
    /\ At("liveStart", "start") /\ Return /\ UNCHANGED slip
    /\ \/ /\ sdk # "expose" /\ Done /\ sdk' = "video"
          /\ unit' = [unit EXCEPT !.live = TRUE, !.abort = IF Qhy THEN FALSE ELSE @]
       \/ (Failed \/ (sdk \in {"expose", "adrift"} /\ Done)) /\ UNCHANGED <<unit, sdk>>

LiveFrame ==
    /\ At("liveFrame", "begin") /\ Return /\ UNCHANGED <<sdk, slip>>
    /\ \/ Done /\ unit' = IF Qhy /\ ~unit.abort THEN [unit EXCEPT !.health = 0] ELSE unit
       \/ Failed /\ UNCHANGED unit

\* ASI keeps a view it cannot stop, and sends nothing when there is none; QHY opens the
\* camera again whatever comes of it.
LiveStop ==
    /\ At("liveStop", "begin")
    /\ IF Qhy THEN /\ sdk' = "none" /\ slip' = FALSE
                   /\ \/ Done /\ unit' = Opened(0)
                      \/ Failed /\ \E open \in BOOLEAN : unit' = [Opened(0) EXCEPT !.connected = FALSE, !.open = open]
       ELSE \/ /\ Done /\ sdk' = (IF unit.live THEN "none" ELSE sdk) /\ UNCHANGED slip
               /\ unit' = [unit EXCEPT !.live = FALSE, !.abort = FALSE]
            \/ Failed /\ unit.live /\ UNCHANGED <<unit, sdk, slip>>
    /\ Return

ScNext == \/ \E k \in {"qhy", "asi"} : Driver(k)
          \/ \E m \in {"connect", "disconnect", "health", "capture", "liveStart", "liveFrame", "liveStop"} : Call(m)
          \/ Connect \/ Disconnect \/ StopDriver \/ Health \/ Abort \/ Cancel
          \/ CaptureBegin \/ Set \/ Expose \/ Begun \/ Read \/ Watchdog \/ Poll \/ Publish
          \/ LiveBegin \/ LiveStart \/ LiveFrame \/ LiveStop

-----------------------------------------------------------------------------
(* Property *)

\* Between calls the camera does what its record says: it streams while a live view is
\* on and does nothing otherwise, however the last call ended and whenever an abort
\* came, unless the command to end it failed (slip).  A cycle left open makes later
\* frames black or never come (oal_driver_qhy.cpp:306-309).  One path leaves an exposure
\* running and ends nothing: an ASI capture that cannot read the exposure's status
\* returns at once (oal_driver_zwo_asi.cpp:233), and its exposure is adrift until
\* the camera is closed, aborted or used again; it never counts as a live view.
CycleEnds ==
    act.m = "none" /\ unit.connected =>
        slip \/ sdk \in IF unit.live THEN {"video"} ELSE {"none", "adrift"}
=============================================================================
