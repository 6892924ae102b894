------------------------------ MODULE Recording ------------------------------
(***************************************************************************)
(* The operations that use a camera's frames as they come: a live view,    *)
(* with or without a SER file, a planetary recording, whose region of      *)
(* interest follows the planet and whose mount is corrected on the way,    *)
(* and the calibration of these corrections.  A preview of a frame is      *)
(* prepared on another pool thread and shown by the main thread.           *)
(***************************************************************************)
EXTENDS Integers, FiniteSetsExt, SequencesExt

CONSTANTS Rois,          \* regions of the sensor; the mount correction ends in Center
          Center,
          LostLimit,     \* lostTargetFrames
          MaxFrames,     \* bound: frames of one operation
          MaxRecFaults   \* bound: commands and writes that fail

VARIABLES
    rec,      \* the operation: kind, native, save, roi, frame, lost, leg, pc, result
    stream,   \* what the camera streams: a region, or Off
    ser,      \* SerWriter: is it open, its frames by region, provenance events, header
    guided,   \* the mount: where it is and where it goes
    stopRec,  \* cancellation was requested
    previews, \* frames in preparation, and those the main thread has still to show
    shown,    \* lastFrame_
    slips     \* what has failed

recVars == <<rec, stream, ser, guided, stopRec, previews, shown, slips>>

Off == "off"

RecInit ==
    /\ rec = [kind |-> "none", native |-> FALSE, save |-> FALSE, roi |-> Center, frame |-> 0, lost |-> 0,
              leg |-> 1, pc |-> "idle", result |-> "none"]
    /\ stream = Off /\ guided = [at |-> "target", goal |-> "target"]
    /\ ser = [open |-> FALSE, made |-> FALSE, frames |-> <<>>, marks |-> <<>>, count |-> 0]
    /\ stopRec = FALSE /\ previews = [busy |-> <<>>, queued |-> <<>>] /\ shown = 0 /\ slips = {}

Ok == slips' = slips
Fails(what) == Cardinality(slips) < MaxRecFaults /\ slips' = slips \cup {what}

-----------------------------------------------------------------------------
(* The mount, clients, previews *)

Slewing == guided.at # guided.goal

Arrive ==
    /\ Slewing /\ guided' = [guided EXCEPT !.at = guided.goal]
    /\ UNCHANGED <<rec, stream, ser, stopRec, previews, shown, slips>>

CancelRec ==
    /\ rec.pc # "idle" /\ ~stopRec /\ stopRec' = TRUE
    /\ UNCHANGED <<rec, stream, ser, guided, previews, shown, slips>>

\* One preview is in preparation at a time; a frame that comes meanwhile is not shown.
Preview ==
    previews' = IF previews.busy # <<>> THEN previews
                ELSE [previews EXCEPT !.busy = Append(@, rec.frame)]

\* processLivePreview() has failed, or publishLivePreview() asks the main thread.
Prepared ==
    \E i \in DOMAIN previews.busy, good \in BOOLEAN :
        /\ previews' = [busy |-> RemoveAt(previews.busy, i),
                        queued |-> IF good THEN Append(previews.queued, previews.busy[i]) ELSE previews.queued]
        /\ UNCHANGED <<rec, stream, ser, guided, stopRec, shown, slips>>

Show ==
    /\ previews.queued # <<>>
    /\ shown' = Head(previews.queued) /\ previews' = [previews EXCEPT !.queued = Tail(@)]
    /\ UNCHANGED <<rec, stream, ser, guided, stopRec, slips>>

-----------------------------------------------------------------------------
(* SerWriter *)

\* open(): the header, and the region the file begins with.
Opened(roi) == [open |-> TRUE, made |-> TRUE, frames |-> <<>>, count |-> 0, marks |-> <<[from |-> 0, roi |-> roi]>>]

\* append() writes the rows of a frame.
Appended(file, roi) == [file EXCEPT !.frames = Append(@, roi)]

\* appendRoiEvent(); its callers ignore that it fails.
Marked(roi) ==
    \/ Ok /\ ser' = [ser EXCEPT !.marks = Append(@, [from |-> Len(ser.frames), roi |-> roi])]
    \/ Fails("mark") /\ UNCHANGED ser

\* close(): the timestamps, then the count in the header.
Closed(file) == [file EXCEPT !.open = FALSE, !.count = Len(file.frames)]

\* It also fails when only the sidecar, written last, cannot be.
Close(failed) ==
    IF ~ser.open THEN ~failed /\ Ok /\ UNCHANGED ser
    ELSE \/ ~failed /\ Ok /\ ser' = Closed(ser)
         \/ failed /\ Fails("close") /\ ser' \in {Closed(ser), [ser EXCEPT !.open = FALSE]}

-----------------------------------------------------------------------------
(* The operations *)

At(pc) == rec.pc = pc
Goto(pc) == rec' = [rec EXCEPT !.pc = pc]
Ending(result) == rec' = [rec EXCEPT !.pc = "stop", !.result = result]

StartRec ==
    /\ rec.kind = "none"
    /\ \E kind \in {"live", "planet", "calibrate"}, native, save \in BOOLEAN, roi \in Rois :
         rec' = [rec EXCEPT !.kind = kind, !.native = native, !.save = save \/ kind = "planet", !.roi = roi,
                            !.pc = IF kind = "calibrate" THEN "centroid" ELSE "stream"]
    /\ UNCHANGED <<stream, ser, guided, stopRec, previews, shown, slips>>

\* The stream starts, or starts again: startNativeLive().
StartStream ==
    /\ At("stream")
    /\ \/ Ok /\ Goto("cycle") /\ stream' = IF rec.native THEN rec.roi ELSE Off
       \/ /\ rec.native /\ Fails("start") /\ UNCHANGED stream
          /\ rec' = [rec EXCEPT !.pc = "close", !.result = "failed"]
    /\ UNCHANGED <<ser, guided, stopRec, previews, shown>>

\* stopNativeLive(); nobody asks whether it succeeded.
StopStream ==
    \/ Ok /\ stream' = Off
    \/ stream # Off /\ Fails("stop") /\ UNCHANGED stream

\* The head of the loop: cancelled, the time is over, or the next frame.
Cycle ==
    /\ At("cycle")
    /\ IF stopRec THEN Ending("cancelled")
       ELSE \/ rec.kind = "planet" /\ Ending("success")
            \/ rec.frame < MaxFrames /\ Goto("take")
    /\ UNCHANGED <<stream, ser, guided, stopRec, previews, shown, slips>>

\* The next frame of the stream, or a capture.
Taken == IF rec.native THEN stream ELSE rec.roi

\* It is written to the file, which the first frame opens; a live view looks once more
\* whether it was cancelled.
Shoot ==
    LET file == IF ser.open THEN ser ELSE Opened(rec.roi)
        over == rec.kind = "live" /\ stopRec
    IN /\ At("take")
       /\ \/ over /\ Ok /\ Ending("cancelled") /\ UNCHANGED ser
          \/ /\ ~over /\ Ok
             /\ rec' = [rec EXCEPT !.frame = @ + 1, !.pc = IF rec.kind = "planet" THEN "track" ELSE "preview"]
             /\ ser' = IF rec.save THEN Appended(file, Taken) ELSE ser
          \/ Fails("frame") /\ Ending(IF over THEN "cancelled" ELSE "failed") /\ UNCHANGED ser
          \/ /\ rec.save /\ ~over /\ Fails("write") /\ Ending("failed")
             /\ ser' \in {file} \cup IF ser.open THEN {} ELSE {[file EXCEPT !.open = FALSE]}
       /\ UNCHANGED <<stream, guided, stopRec, previews, shown>>

MaybePreview ==
    /\ At("preview") /\ Goto("cycle")
    /\ Preview \/ UNCHANGED previews
    /\ UNCHANGED <<stream, ser, guided, stopRec, shown, slips>>

-----------------------------------------------------------------------------
(* The planet in the frame: at most every 50 ms *)

\* The region follows the planet: the stream stops, and the file says from which frame
\* on the region is another one.
Shift(roi) ==
    /\ roi # rec.roi /\ rec' = [rec EXCEPT !.lost = 0, !.roi = roi, !.pc = "mark"]

Track ==
    /\ At("track")
    /\ \/ Goto("preview") /\ Ok /\ UNCHANGED stream
       \/ /\ Ok /\ UNCHANGED stream
          /\ rec' = IF rec.lost + 1 < LostLimit THEN [rec EXCEPT !.lost = @ + 1, !.pc = "preview"]
                    ELSE [rec EXCEPT !.pc = "stop", !.result = "failed"]
       \/ rec' = [rec EXCEPT !.lost = 0, !.pc = "preview"] /\ Ok /\ UNCHANGED stream
       \/ StopStream /\ \E roi \in Rois : Shift(roi)
       \/ StopStream /\ rec' = [rec EXCEPT !.lost = 0, !.pc = "correct"]
    /\ UNCHANGED <<ser, guided, stopRec, previews, shown>>

MarkRoi ==
    /\ At("mark") /\ Marked(rec.roi) /\ Goto("stream")
    /\ UNCHANGED <<stream, guided, stopRec, previews, shown>>

-----------------------------------------------------------------------------
(* The mount *)

\* slewTo(): a command that failed may have been carried out.
SlewTo(place, ok, failed) ==
    \/ Ok /\ guided' = [guided EXCEPT !.goal = place] /\ ok
    \/ Fails("mount") /\ guided' \in {guided, [guided EXCEPT !.goal = place]} /\ failed

\* waitMountIdle(): cancelled, it aborts the motion; its status fails; at rest; or after
\* 60 s it is still moving.
Idle(ok, failed) ==
    \/ stopRec /\ Ok /\ guided' = [guided EXCEPT !.goal = guided.at] /\ failed
    \/ stopRec /\ Fails("mount") /\ UNCHANGED guided /\ failed
    \/ ~stopRec /\ ~Slewing /\ Ok /\ UNCHANGED guided /\ ok
    \/ ~stopRec /\ Fails("mount") /\ UNCHANGED guided /\ failed

\* The planet is brought to the center of the sensor; whatever fails, the recording goes on.
Correct ==
    /\ At("correct")
    /\ \/ Fails("mount") /\ Goto("stream") /\ UNCHANGED guided
       \/ SlewTo("corrected", Goto("corrected"), Goto("stream"))
    /\ UNCHANGED <<stream, ser, stopRec, previews, shown>>

\* mutant: the region is centered although the mount has not arrived
CorrectedAnyway ==
    /\ At("corrected")
    /\ Idle(rec' = [rec EXCEPT !.roi = Center, !.pc = "mark"], rec' = [rec EXCEPT !.roi = Center, !.pc = "stream"])
    /\ UNCHANGED <<stream, ser, stopRec, previews, shown>>

Corrected ==
    /\ At("corrected")
    /\ Idle(rec' = [rec EXCEPT !.roi = Center, !.pc = "mark"], Goto("stream"))
    /\ UNCHANGED <<stream, ser, stopRec, previews, shown>>

\* The calibration: the planet's place in a frame here, after a step in right ascension,
\* and after one in declination.
Legs == <<"ra", "target", "dec", "target">>

Centroid ==
    /\ At("centroid")
    /\ \/ Ok /\ Goto("leg")
       \/ Fails("frame") /\ Ending("failed")
    /\ UNCHANGED <<stream, ser, guided, stopRec, previews, shown>>

Leg ==
    /\ At("leg")
    /\ SlewTo(Legs[rec.leg], Goto("settle"), Ending("failed"))
    /\ UNCHANGED <<stream, ser, stopRec, previews, shown>>

Settled == [rec EXCEPT !.leg = @ + 1, !.pc = IF Legs[rec.leg] = "target" THEN "leg" ELSE "centroid"]

Settle ==
    /\ At("settle")
    /\ Idle(IF rec.leg = Len(Legs) THEN \E result \in {"success", "failed"} : Ending(result)
            ELSE rec' = Settled,
            Ending("failed"))
    /\ UNCHANGED <<stream, ser, stopRec, previews, shown>>

-----------------------------------------------------------------------------
(* The end: the stream stops, then the file is closed. *)

StopAll ==
    /\ At("stop") /\ StopStream /\ Goto("close")
    /\ UNCHANGED <<ser, guided, stopRec, previews, shown>>

CloseFile ==
    /\ At("close")
    /\ \E failed \in BOOLEAN :
         /\ Close(failed)
         /\ rec' = [rec EXCEPT !.pc = "idle",
                               !.result = IF failed /\ @ = "success" THEN "failed" ELSE @]
    /\ UNCHANGED <<stream, guided, stopRec, previews, shown>>

RecNext ==
    \/ Arrive \/ CancelRec \/ Prepared \/ Show
    \/ StartRec \/ StartStream \/ Cycle \/ Shoot \/ MaybePreview \/ Track \/ MarkRoi
    \/ Correct \/ Corrected \/ Centroid \/ Leg \/ Settle \/ StopAll \/ CloseFile

-----------------------------------------------------------------------------
(* Properties *)

\* The region of frame i as the provenance file gives it.
Provenance(i) == LET from == {k \in DOMAIN ser.marks : ser.marks[k].from < i} IN ser.marks[Max(from)].roi

\* Each frame of a recording was taken with the region that the provenance file gives for
\* it: through every shift and every mount correction, whether it succeeded, failed or
\* was cancelled, unless an event could not be written or a stream not be stopped
\* (application_controller.cpp:1569-1586 ignores both).
RoiIsRecorded ==
    slips \cap {"mark", "stop"} = {} => \A i \in DOMAIN ser.frames : Provenance(i) = ser.frames[i]

\* An operation that has ended leaves no stream on, unless the command for it failed; no
\* file without its frame count, unless writing it failed and the operation says so; and
\* a mount that moves only if one of its commands failed, or its status.
LeavesNothing ==
    rec.pc = "idle" =>
        /\ stream = Off \/ "stop" \in slips
        /\ ~ser.open /\ (ser.count = Len(ser.frames) \/ (rec.result # "success" /\ slips \cap {"close", "write"} # {}))
        /\ ~Slewing \/ "mount" \in slips

\* The frames of one operation are shown in the order in which they were taken, whatever
\* the pool thread that prepares them does meanwhile: lastFrame_ never goes back.
PreviewsInOrder == LET frames == <<shown>> \o previews.queued IN
    \A i, j \in DOMAIN frames : i <= j => frames[i] <= frames[j]

\* What an operation on frames leaves: a true record, previews in order, and nothing that
\* still runs (application_controller.cpp:1497-1612).
RecordingHolds == RoiIsRecorded /\ LeavesNothing /\ PreviewsInOrder
=============================================================================
