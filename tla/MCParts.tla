------------------------------- MODULE MCParts -------------------------------
(***************************************************************************)
(* One run for the parts of the system that share no state: `part` selects *)
(* one of them at the start, and only its variables change from there.     *)
(***************************************************************************)
EXTENDS Naturals, Sequences, SerialDriver, SerialSession, CanonDriver

CONSTANTS MaxUser, MaxFail, DriverIds, MaxDirs, MaxSdkFaults, Starts, MaxPosition,
    Coarse, Fine, Half, MaxFocusFaults, Rois, Center, LostLimit, MaxFrames,
    MaxRecFaults, MaxIndiCalls, MaxIndiFaults, Keys, MaxNetCalls, MaxNetFaults,
    Attempts, Stack, Samples, MaxSolves, MaxSlips, MaxHandCalls, MaxLost, Fragments,
    Lengths, MaxOffers, MaxStops, MaxPeers, MaxDrops

\* Counts of attempts, frames and samples are numbers; the code clamps them.
ASSUME SolvingAssumption == {Attempts, Stack, Samples} \subseteq Nat

VARIABLES part,
    axis, mode, pos, parked, parking, main, pool, slew, cancel, aborted, user, fails,
    dirs, loaded,
    brand, unit, sdk, act, slip, sdkFaults,
    focus, af, stopped, halted, report, afFaults,
    rec, stream, ser, guided, stopRec, previews, shown, slips,
    drv, wire, object, icall, taken, odd, icalls,
    motor, late, memory, ncall, claim, netFaults, netCalls,
    scope, task, lastFrame, polarSamples, lastSolve, wanted, slipped, solves,
    hand, hmain, hpool, gotoOp, flagged, turned, unheard, handCalls,
    latest, flushes, encoding, sent, linked, flying, posted, assembly, displayed,
    leftover, offers, stops,
    watching, sock, offered, retry, rtcPeer, peers, slot, rtcFlag, channel, callbacks,
    updates, stopping, overtaken, linkDrops

Mount == INSTANCE MountMotion
Loader == INSTANCE DriverLoader
Sdk == INSTANCE SdkCamera
Focus == INSTANCE Autofocus
Rec == INSTANCE Recording
Indi == INSTANCE IndiDevices
Net == INSTANCE SynScanNetwork
Solve == INSTANCE Solving
Hand == INSTANCE HandController
Video == INSTANCE VideoStream
Links == INSTANCE VideoLinks

mountVars == <<axis, mode, pos, parked, parking, main, pool, slew, cancel, aborted, user,
    fails>>
tableVars == <<kind, plugged, port, opened, table, sweep, dcall, told, calls>>
sessionVars == <<portOpen, jobs, asked, worker, owing, input, numbered, reply>>
loaderVars == <<dirs, loaded>>
canonVars == <<body, usb, session, known, hint, cam, shutter, making, files, pending, shot,
    frame, left, stuck, shots, faults>>
sdkVars == <<brand, unit, sdk, act, slip, sdkFaults>>
focusVars == <<focus, af, stopped, halted, report, afFaults>>
recVars == <<rec, stream, ser, guided, stopRec, previews, shown, slips>>
indiVars == <<drv, wire, object, icall, taken, odd, icalls>>
synscanVars == <<motor, late, memory, ncall, claim, netFaults, netCalls>>
solvingVars == <<scope, task, lastFrame, polarSamples, lastSolve, wanted, slipped, solves>>
handVars == <<hand, hmain, hpool, gotoOp, flagged, turned, unheard, handCalls>>
videoVars == <<latest, flushes, encoding, sent, linked, flying, posted, assembly, displayed,
    leftover, offers, stops>>
linksVars == <<watching, sock, offered, retry, rtcPeer, peers, slot, rtcFlag, channel,
    callbacks, updates, stopping, overtaken, linkDrops>>
vars == <<part, mountVars, tableVars, sessionVars, loaderVars, canonVars, sdkVars,
    focusVars, recVars, indiVars, synscanVars, solvingVars, handVars, videoVars, linksVars>>

Init ==
    /\ part \in {"mount", "table", "session", "loader", "canon", "sdk", "focus", "rec",
        "indi", "synscan", "solving", "hand", "video", "links"}
    /\ Mount!MotionInit /\ SdInit /\ SsInit /\ Loader!DlInit /\ CdInit /\ Sdk!ScInit
    /\ Focus!AfInit /\ Rec!RecInit /\ Indi!IndiInit /\ Net!NetInit /\ Solve!SolvingInit
    /\ Hand!HandInit /\ Video!VideoInit /\ Links!LinksInit

MountNext == part = "mount" /\ Mount!MotionNext /\
    UNCHANGED <<part, tableVars, sessionVars, loaderVars, canonVars, sdkVars, focusVars,
        recVars, indiVars, synscanVars, solvingVars, handVars, videoVars, linksVars>>
TableNext == part = "table" /\ SdNext /\
    UNCHANGED <<part, mountVars, sessionVars, loaderVars, canonVars, sdkVars, focusVars,
        recVars, indiVars, synscanVars, solvingVars, handVars, videoVars, linksVars>>
SessionNext == part = "session" /\ SsNext /\
    UNCHANGED <<part, mountVars, tableVars, loaderVars, canonVars, sdkVars, focusVars,
        recVars, indiVars, synscanVars, solvingVars, handVars, videoVars, linksVars>>
LoaderNext == part = "loader" /\ Loader!DlNext /\
    UNCHANGED <<part, mountVars, tableVars, sessionVars, canonVars, sdkVars, focusVars,
        recVars, indiVars, synscanVars, solvingVars, handVars, videoVars, linksVars>>
CanonNext == part = "canon" /\ CdNext /\
    UNCHANGED <<part, mountVars, tableVars, sessionVars, loaderVars, sdkVars, focusVars,
        recVars, indiVars, synscanVars, solvingVars, handVars, videoVars, linksVars>>
SdkNext == part = "sdk" /\ Sdk!ScNext /\
    UNCHANGED <<part, mountVars, tableVars, sessionVars, loaderVars, canonVars, focusVars,
        recVars, indiVars, synscanVars, solvingVars, handVars, videoVars, linksVars>>
FocusNext == part = "focus" /\ Focus!AfNext /\
    UNCHANGED <<part, mountVars, tableVars, sessionVars, loaderVars, canonVars, sdkVars,
        recVars, indiVars, synscanVars, solvingVars, handVars, videoVars, linksVars>>
RecNext == part = "rec" /\ Rec!RecNext /\
    UNCHANGED <<part, mountVars, tableVars, sessionVars, loaderVars, canonVars, sdkVars,
        focusVars, indiVars, synscanVars, solvingVars, handVars, videoVars, linksVars>>
IndiNext == part = "indi" /\ Indi!IndiNext /\
    UNCHANGED <<part, mountVars, tableVars, sessionVars, loaderVars, canonVars, sdkVars,
        focusVars, recVars, synscanVars, solvingVars, handVars, videoVars, linksVars>>
NetNext == part = "synscan" /\ Net!NetNext /\
    UNCHANGED <<part, mountVars, tableVars, sessionVars, loaderVars, canonVars, sdkVars,
        focusVars, recVars, indiVars, solvingVars, handVars, videoVars, linksVars>>
SolveNext == part = "solving" /\ Solve!SolvingNext /\
    UNCHANGED <<part, mountVars, tableVars, sessionVars, loaderVars, canonVars, sdkVars,
        focusVars, recVars, indiVars, synscanVars, handVars, videoVars, linksVars>>
HandNext == part = "hand" /\ Hand!HandNext /\
    UNCHANGED <<part, mountVars, tableVars, sessionVars, loaderVars, canonVars, sdkVars,
        focusVars, recVars, indiVars, synscanVars, solvingVars, videoVars, linksVars>>
VideoNext == part = "video" /\ Video!VideoNext /\
    UNCHANGED <<part, mountVars, tableVars, sessionVars, loaderVars, canonVars, sdkVars,
        focusVars, recVars, indiVars, synscanVars, solvingVars, handVars, linksVars>>
LinksNext == part = "links" /\ Links!LinksNext /\
    UNCHANGED <<part, mountVars, tableVars, sessionVars, loaderVars, canonVars, sdkVars,
        focusVars, recVars, indiVars, synscanVars, solvingVars, handVars, videoVars>>

Next == MountNext \/ TableNext \/ SessionNext \/ LoaderNext \/ CanonNext \/ SdkNext \/
    FocusNext \/ RecNext \/ IndiNext \/ NetNext \/ SolveNext \/ HandNext \/ VideoNext \/
    LinksNext

\* No action under fairness is enabled in a part that was not chosen.
Spec == Init /\ [][Next]_vars /\ Mount!MotionFairness

\* What the node says of the mount's motion is so (MountMotion).
MotionIsKnown == Mount!MotionIsKnown
\* An abort that succeeded ends in rest (MountMotion).
AbortStops == Mount!AbortStops
\* A driver id is served by the first directory that offers it (DriverLoader).
FirstOfferLoads == Loader!FirstOfferLoads
\* Between calls the camera does what its record says (SdkCamera).
CycleEnds == Sdk!CycleEnds
\* The focuser is where the search says it left it (Autofocus).
FocusAsReported == Focus!FocusAsReported
\* The record is true, previews are in order and nothing is left running (Recording).
RecordingHolds == Rec!RecordingHolds
\* A vector is taken in the mode its call set (IndiDevices).
CommandsAsMeant == Indi!CommandsAsMeant
\* A call over UDP that was reported done was done (SynScanNetwork).
DoneIsDone == Net!DoneIsDone
\* Solutions and samples are of their frames, and a polar alignment ends with its slew (Solving).
SolvingHolds == Solve!SolvingHolds
\* No motion is left that nobody asked for (HandController).
MotionIsAsked == Hand!MotionIsAsked
\* The latest frame goes out, and what a client shows is one frame (VideoStream).
StreamHolds == Video!StreamHolds
\* A remote client finds its way back to the frames of both roles (VideoLinks).
LinksHold == Links!LinksHold
=============================================================================
