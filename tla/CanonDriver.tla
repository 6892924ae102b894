----------------------------- MODULE CanonDriver -----------------------------
(***************************************************************************)
(* The two Canon drivers, one over EDSDK and one over libgphoto2: a        *)
(* capture runs on a thread of its own with the camera's mutex, while an   *)
(* abort, the events of the camera and a scan pass it without that mutex.  *)
(* The camera is known by one entry; a picture by the number of the        *)
(* capture whose shutter made it.  Commands that fail are bounded.         *)
(***************************************************************************)
EXTENDS Naturals, Sequences

CONSTANTS MaxShots,  \* bound: captures
          MaxFaults  \* bound: commands and downloads that fail with the cable in

VARIABLES
    body,     \* the driver: "none" before one is started
    usb,      \* the camera is on and its cable in
    session,  \* a session is open with the camera that is on
    known,    \* the driver has an entry for the camera
    hint,     \* cameraAddedEvent
    cam,      \* the entry: connected, abortRequested, transportLost
    shutter,  \* the capture that opened the shutter, 0 if it is closed
    making,   \* pictures in the camera that it has not announced
    files,    \* files the camera makes of a picture: two for RAW and JPEG
    pending,  \* files announced and not taken: pendingItems, the event queue
    shot,     \* the capture in progress, or the EDSDK session being closed
    frame,    \* the last frame returned: capture and picture
    left,     \* a capture of this entry ended and left a file of its picture, or
              \* one came while the session was being closed
    stuck,    \* a command to release the shutter failed
    shots, faults

cdVars == <<body, usb, session, known, hint, cam, shutter, making, files, pending, shot, frame,
            left, stuck, shots, faults>>
camera == <<shutter, making, files>>
entry == <<body, usb, session, known, hint, files>>

Closed == [connected |-> FALSE, abort |-> FALSE, lost |-> FALSE]
NoShot == [pc |-> "idle", n |-> 0, bulb |-> FALSE, cancelled |-> FALSE, exposed |-> FALSE, item |-> 0]
NoFrame == [of |-> 0, picture |-> 0, left |-> FALSE]

CdInit ==
    /\ body = "none" /\ usb = TRUE /\ session = FALSE /\ known = FALSE /\ hint = FALSE /\ cam = Closed
    /\ shutter = 0 /\ making = <<>> /\ files = 1 /\ pending = <<>>
    /\ shot = NoShot /\ frame = NoFrame /\ left = FALSE /\ stuck = FALSE
    /\ shots = 0 /\ faults = 0

Edsdk == body = "edsdk"

-----------------------------------------------------------------------------
(* Driver, entry and session *)

\* Starting EDSDK enumerates at once, and starts the thread that delivers events.
Start(k) ==
    /\ body = "none" /\ body' = k /\ known' = (k = "edsdk" /\ usb)
    /\ UNCHANGED <<usb, session, hint, cam, camera, pending, shot, frame, left, stuck, shots, faults>>

\* refreshEnumeration() drops an entry that is not connected and not on the bus,
\* also one that a capture, or closeCamera(), still works with; a camera just added may not be listed
\* yet.
RefreshEnumeration ==
    /\ Edsdk
    /\ \E seen \in {usb} \cup {usb /\ ~hint} :
        LET drop == known /\ ~seen /\ ~cam.connected IN
        /\ known' = (seen \/ (known /\ ~drop)) /\ hint' = (hint /\ ~seen)
        /\ IF drop THEN /\ cam' = Closed /\ pending' = <<>> /\ left' = (shutter # 0 \/ session)
                        /\ shot' = IF shot.pc = "idle" THEN shot ELSE [shot EXCEPT !.pc = "gone"]
           ELSE UNCHANGED <<cam, pending, left, shot>>
    /\ UNCHANGED <<body, usb, session, camera, frame, stuck, shots, faults>>

\* probeDevice() opens a camera of its own for the serial number the id is made of: it
\* fails with a camera that is connected, whose entry is then not the one listed.
ProbeDevice(knows) == knows => ~cam.connected

\* devices() of libgphoto2 adds entries and keeps those there are.
ListDevices ==
    /\ body = "gphoto" /\ usb
    /\ \E knows \in BOOLEAN : ProbeDevice(knows) /\ known' = (known \/ knows)
    /\ UNCHANGED <<body, usb, session, hint, cam, camera, pending, shot, frame, left, stuck, shots, faults>>

Scan == RefreshEnumeration \/ ListDevices

\* openCamera(): a new session of EDSDK keeps the files of the old one.
OpenSession == Edsdk /\ UNCHANGED <<pending, left>>

\* configureCameraObject(): libgphoto2 opens a new camera object.
ConfigureCameraObject == ~Edsdk /\ pending' = <<>> /\ left' = (shutter # 0)

\* The camera may be set to make one file or two.
Connected ==
    /\ known /\ usb /\ ~cam.connected /\ shot.pc = "idle" /\ session' = TRUE
    /\ cam' = [Closed EXCEPT !.connected = TRUE] /\ files' \in 1..2 /\ making' = <<>>
    /\ OpenSession \/ ConfigureCameraObject
    /\ UNCHANGED <<body, usb, known, hint, shutter, shot, frame, stuck, shots, faults>>

\* mutant: the files of the session that ends are kept
KeepItems ==
    /\ cam' = [cam EXCEPT !.connected = FALSE, !.abort = TRUE]
    /\ UNCHANGED pending /\ left' = (shutter # 0)

\* EDSDK: closeCamera() releases the items that are pending, and then closes the
\* session; what the camera had not announced by then is lost.
ReleaseItems ==
    /\ cam' = [cam EXCEPT !.connected = FALSE, !.abort = TRUE]
    /\ pending' = <<>> /\ left' = (shutter # 0)

CloseSession == making' = <<>> /\ session' = FALSE

\* libgphoto2 frees the camera object with its events.
FreeCamera ==
    /\ cam' = [cam EXCEPT !.connected = FALSE, !.abort = TRUE]
    /\ pending' = <<>> /\ making' = <<>> /\ left' = (shutter # 0) /\ session' = FALSE

\* A connect that fails closes what it had opened: EDSDK the session, libgphoto2 the
\* object, which also asks for an abort that the next capture forgets.
ConnectRefused ==
    /\ known /\ ~cam.connected /\ shot.pc = "idle" /\ (usb => faults < MaxFaults)
    /\ faults' = IF usb THEN faults + 1 ELSE faults
    /\ IF Edsdk THEN UNCHANGED <<cam, pending, making, left, session>> ELSE FreeCamera
    /\ UNCHANGED <<body, usb, known, hint, files, shutter, shot, frame, stuck, shots>>

Connect == Connected \/ ConnectRefused

\* The host lets device.disconnect wait for the capture; the libgphoto2 driver asks it to
\* stop first.
DisconnectCamera ==
    /\ known
    /\ \/ Edsdk /\ shot.pc = "idle" /\ ReleaseItems
          /\ shot' = [NoShot EXCEPT !.pc = "closing"] /\ UNCHANGED <<making, session>>
       \/ ~Edsdk /\ shot.pc = "idle" /\ FreeCamera /\ UNCHANGED shot
       \/ /\ ~Edsdk /\ shot.pc # "idle" /\ cam' = [cam EXCEPT !.abort = TRUE]
          /\ UNCHANGED <<making, pending, left, session, shot>>
    /\ UNCHANGED <<body, usb, known, hint, files, shutter, frame, stuck, shots, faults>>

\* The session ends without the lock of the items: what the event thread has announced
\* meanwhile stays in the queue, which openCamera() does not empty.
SessionCloses ==
    /\ shot.pc = "closing" /\ shot' = NoShot /\ CloseSession
    /\ UNCHANGED <<body, usb, known, hint, cam, files, shutter, pending, frame, left, stuck, shots, faults>>

\* The driver is stopped, and started again, with no call in progress; EDSDK first
\* ends the thread that delivers events.
Stop ==
    /\ body # "none" /\ shot.pc = "idle" /\ body' = "none"
    /\ IF Edsdk THEN ReleaseItems /\ CloseSession ELSE FreeCamera
    /\ known' = FALSE /\ hint' = FALSE
    /\ UNCHANGED <<usb, shutter, files, shot, frame, stuck, shots, faults>>

\* The camera is switched off, its shutter closes; or on again, with cameraAdded().
Power ==
    /\ body # "none" /\ usb' = ~usb /\ hint' = (hint \/ (Edsdk /\ ~usb))
    /\ shutter' = 0 /\ making' = <<>> /\ session' = FALSE
    /\ UNCHANGED <<body, known, cam, files, pending, shot, frame, left, stuck, shots, faults>>

\* stateEvent(): the SDK reports that the camera has gone.
Shutdown ==
    /\ Edsdk /\ cam.connected /\ ~session
    /\ cam' = [connected |-> FALSE, abort |-> TRUE, lost |-> TRUE]
    /\ UNCHANGED <<entry, shutter, making, pending, shot, frame, left, stuck, shots, faults>>

-----------------------------------------------------------------------------
(* The shutter *)

Works == session /\ UNCHANGED faults
Fails == IF session THEN faults < MaxFaults /\ faults' = faults + 1 ELSE UNCHANGED faults

\* The shutter closes; the picture it was open for will be announced.
Shut ==
    /\ shutter' = 0
    /\ making' = IF shutter = 0 THEN making ELSE Append(making, shutter)

Released == Works /\ Shut /\ UNCHANGED stuck
Jammed == Fails /\ stuck' = TRUE /\ UNCHANGED <<shutter, making>>

\* The camera announces a picture: objectEvent() on the thread of the events.
Announce ==
    /\ session /\ making # <<>> /\ making' = Tail(making)
    /\ pending' = pending \o [i \in 1..files |-> Head(making)]
    /\ left' = (left \/ shot.pc = "closing")
    /\ UNCHANGED <<entry, cam, shutter, shot, frame, stuck, shots, faults>>

\* camera.abortExposure and cancel() pass the capture: EDSDK also releases the
\* shutter, whatever comes of it; its cancel() does so while the session is open.
Abort ==
    /\ known /\ (cam.connected \/ shot.pc = "closing") /\ cam' = [cam EXCEPT !.abort = TRUE]
    /\ \/ Edsdk /\ Works /\ Shut
       \/ Edsdk /\ Fails /\ UNCHANGED <<shutter, making>>
       \/ ~Edsdk /\ UNCHANGED <<shutter, making, faults>>
    /\ UNCHANGED <<entry, pending, shot, frame, left, stuck, shots>>

\* The operation of the capture is cancelled: EDSDK asks the host for that.
Cancel ==
    /\ shot.pc \notin {"idle", "closing"} /\ shot' = [shot EXCEPT !.cancelled = Edsdk]
    /\ UNCHANGED <<entry, cam, shutter, making, pending, frame, left, stuck, shots, faults>>

Stopping == cam.abort \/ shot.cancelled

-----------------------------------------------------------------------------
(* camera.capture *)

\* What the capture leaves behind: its files but those it took.
End(took) ==
    /\ shot' = NoShot /\ left' = (left \/ (shot.exposed /\ (~took \/ files = 2)))
Fail == End(FALSE) /\ UNCHANGED <<cam, pending, frame, shots>>

\* An abort that came before is forgotten.
Begin(bulb) ==
    /\ known /\ cam.connected /\ shot.pc = "idle" /\ shots < MaxShots /\ shots' = shots + 1
    /\ cam' = [cam EXCEPT !.abort = FALSE]
    /\ shot' = [NoShot EXCEPT !.pc = "set", !.n = shots + 1, !.bulb = bulb]
    /\ UNCHANGED <<entry, shutter, making, pending, frame, left, stuck, faults>>

At(pc, next) ==
    /\ shot.pc = pc /\ shot' = [shot EXCEPT !.pc = next]
    /\ UNCHANGED <<entry, cam, pending, frame, left, shots>>

Configured == At("set", "press") /\ UNCHANGED <<shutter, making, stuck>>
NotConfigured == shot.pc = "set" /\ Fails /\ Fail /\ UNCHANGED <<entry, shutter, making, stuck>>

\* The ISO, then Tv or Bulb.
SetIsoAndTv == Edsdk /\ ((Configured /\ Works) \/ NotConfigured)

\* choices() that cannot be read leave the exposure as the camera has it, also one that
\* was to be a bulb exposure.
AsItIs == /\ shot.pc = "set" /\ Fails /\ shot' = [shot EXCEPT !.pc = "press", !.bulb = FALSE]
          /\ UNCHANGED <<entry, cam, camera, pending, frame, left, stuck, shots>>

SetExposure == ~Edsdk /\ ((Configured /\ Works) \/ AsItIs \/ NotConfigured)

\* setIsoBestEffort() comes after it and does not fail.
Configure == SetIsoAndTv \/ SetExposure

\* The shutter is pressed without autofocus; for a bulb exposure it is first released
\* and BulbStart is tried too.  A press that failed is released.
Press ==
    /\ shot.pc = "press" /\ (Edsdk \/ shot.bulb)
    /\ \/ /\ Works /\ shutter' = shot.n
          /\ shot' = [shot EXCEPT !.pc = IF shot.bulb THEN "expose" ELSE "hold", !.exposed = TRUE]
          /\ UNCHANGED <<cam, making, pending, frame, left, shots>>
       \/ Fails /\ Fail /\ UNCHANGED <<shutter, making>>
    /\ UNCHANGED <<entry, stuck>>

\* gp_camera_capture() returns the file it made.
Shoot ==
    /\ shot.pc = "press" /\ ~Edsdk /\ ~shot.bulb
    /\ \/ /\ Works /\ UNCHANGED <<cam, pending, frame, left, shots>>
          /\ shot' = [shot EXCEPT !.pc = "load", !.exposed = TRUE, !.item = shot.n]
       \/ Fails /\ Fail
    /\ UNCHANGED <<entry, shutter, making, stuck>>

\* triggerNonAfStill(): 120 ms later the shutter is released, once.
LetGo ==
    \/ At("hold", "wait") /\ Released
    \/ shot.pc = "hold" /\ Jammed /\ Fail /\ UNCHANGED entry

\* mutant: the loop of a bulb exposure is left as it is
AbortedLeaves ==
    /\ shot.pc = "expose" /\ Stopping /\ Fail /\ UNCHANGED <<entry, shutter, making, stuck, faults>>

\* A bulb exposure looks every 20 ms whether it is to end.
Aborted == shot.pc = "expose" /\ Stopping /\ (Released \/ Jammed) /\ Fail /\ UNCHANGED entry

\* EDSDK fails with the command; the libgphoto2 driver logs it and waits for the file.
TimeUp ==
    \/ At("expose", "wait") /\ (Released \/ (~Edsdk /\ Jammed))
    \/ Edsdk /\ shot.pc = "expose" /\ Jammed /\ Fail /\ UNCHANGED entry

\* The first file there is.
Take ==
    /\ shot.pc = "wait" /\ pending # <<>> /\ pending' = Tail(pending)
    /\ shot' = [shot EXCEPT !.pc = "load", !.item = Head(pending)]
    /\ UNCHANGED <<entry, cam, shutter, making, frame, left, stuck, shots, faults>>

\* An abort is noticed by EDSDK only; both give up after 15 s.
NoFile ==
    /\ shot.pc = "wait" /\ pending = <<>> /\ Fail
    /\ UNCHANGED <<entry, shutter, making, stuck, faults>>

Loaded == At("load", "show") /\ Works /\ UNCHANGED <<shutter, making, stuck>>
NotLoaded == /\ shot.pc = "load" /\ End(shot.item = shot.n)
             /\ UNCHANGED <<entry, cam, shutter, making, pending, frame, stuck, shots>>

\* EDSDK: the thumbnail, if there is one, and the original, which is stored.
Download == Edsdk /\ (Loaded \/ (NotLoaded /\ Fails))

\* The libgphoto2 driver looks for an abort before it takes the file.
FileBytes ==
    ~Edsdk /\ \/ ~cam.abort /\ Loaded
              \/ NotLoaded /\ (Fails \/ (cam.abort /\ UNCHANGED faults))

\* storeOriginal(): a RAW file that cannot be stored ends the capture.
StoreOriginal == ~Edsdk /\ shot.pc = "show" /\ End(shot.item = shot.n) /\ UNCHANGED <<frame, faults>>

LoadFile == Download \/ FileBytes

\* A preview is decoded from the file and published, whatever happened to the camera.
PublishFrame ==
    /\ shot.pc = "show" /\ End(shot.item = shot.n) /\ UNCHANGED faults
    /\ frame' \in {frame, [of |-> shot.n, picture |-> shot.item, left |-> left]}

\* The libgphoto2 driver may have to fetch the preview, and deletes the file.
PublishPreview == ~Edsdk /\ PublishFrame

Publish == /\ \/ Edsdk /\ PublishFrame
              \/ StoreOriginal \/ PublishPreview
           /\ UNCHANGED <<entry, cam, shutter, making, pending, stuck, shots>>

\* The entry was deleted under the capture, or under closeCamera(), which then ends in
\* any way.
Gone == /\ shot.pc = "gone" /\ shot' = NoShot
        /\ CloseSession \/ UNCHANGED <<making, session>>
        /\ UNCHANGED <<body, usb, known, hint, files, cam, shutter, pending, frame, left, stuck,
                       shots, faults>>

CdNext == \/ \E k \in {"edsdk", "gphoto"} : Start(k)
          \/ Scan \/ Connect \/ DisconnectCamera \/ SessionCloses \/ Stop \/ Power \/ Shutdown \/ Announce
          \/ Abort \/ Cancel \/ \E bulb \in BOOLEAN : Begin(bulb)
          \/ Configure \/ Press \/ Shoot \/ LetGo \/ Aborted \/ TimeUp
          \/ Take \/ NoFile \/ LoadFile \/ Publish \/ Gone

-----------------------------------------------------------------------------
(* Properties *)

\* A capture returns a picture of another capture only after one that left a file of
\* its own: aborted before its file was announced, or made in two files, or a file that
\* was announced while EDSDK closed the session.  The queue of files is emptied at the
\* beginning of a close, not at its end nor when a capture begins
\* (oal_driver_canon_edsdk.cpp:230-255, oal_driver_canon.cpp:267-277).
FrameIsOwn == frame.picture # frame.of => frame.left

\* With no capture in progress the shutter is open only when the command that was to
\* release it failed, whenever an abort comes (oal_driver_canon_edsdk.cpp:564-575).
ShutterCloses == shot.pc = "idle" /\ shutter # 0 => stuck
=============================================================================
