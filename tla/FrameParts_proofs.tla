------------------------- MODULE FrameParts_proofs --------------------------
(***************************************************************************)
(* Proofs about the parts that take, keep and send frames, as MCParts      *)
(* composes them, for every value of their bounds.  Each part has an       *)
(* inductive invariant of its own; the steps of the others leave it alone. *)
(***************************************************************************)
EXTENDS MCParts, FiniteSetTheorems, SequenceTheorems, WellFoundedInduction, TLAPS

-----------------------------------------------------------------------------
(* SdkCamera: between calls the camera does what its record says.          *)

UnitFields == {"connected", "open", "abort", "live", "mode", "health"}
ActFields == {"m", "pc", "cancelled"}
Brief == {"none", "connect", "disconnect", "health", "liveFrame", "liveStop"}

\* The camera does what its record says, or the command to end it failed; it is to do
\* nothing.  An exposure adrift is nobody's.
Unused == {"none", "adrift"}
Tame(u, s, sl) == sl \/ s \in IF u.live THEN {"video"} ELSE Unused
Quiet(u, s, sl) == ~u.live /\ (sl \/ s \in Unused)

\* What the camera does at each step of the call that has it.
Doing(a, u, s, sl, b) ==
    /\ a.m \in Brief => a.pc \in {"idle", "begin"} /\ (u.connected => Tame(u, s, sl))
    /\ a.m = "connect" => ~u.connected
    /\ a.m = "health" => u.connected
    /\ a.m \in {"capture", "liveStart"} =>
          /\ a.pc \in {"begin", "set", "start", "begun", "read", "publish"}
          /\ a.pc = "begin" => Tame(u, s, sl)
          /\ a.pc \in {"set", "start", "publish"} => Quiet(u, s, sl)
          /\ a.pc \in {"begun", "read"} => ~u.live /\ (sl \/ s \in {"none", "expose"})
    /\ a.m = "liveStart" => ~u.live
    /\ a.m = "liveStart" /\ b = "qhy" /\ a.pc \in {"set", "start"} => u.mode = 1
    /\ b = "none" => a.m = "none" /\ ~u.live
    /\ b = "qhy" /\ u.live => u.mode = 1

SdkIInv ==
    /\ DOMAIN unit = UnitFields /\ DOMAIN act = ActFields
    /\ act.m \in Brief \cup {"capture", "liveStart"}
    /\ Doing(act, unit, sdk, slip, brand)

\* The driver is not started and its camera is shelved.
LEMMA SdkInitInv == Sdk!ScInit => SdkIInv
BY DEF Sdk!ScInit, Sdk!Shelved, Sdk!NoAct, SdkIInv, Doing, Tame, Unused, UnitFields, ActFields, Brief

\* A call that returns, and one that goes on.
LEMMA ActsAre ==
    ASSUME SdkIInv
    PROVE  /\ DOMAIN Sdk!NoAct = ActFields /\ Sdk!NoAct.m = "none" /\ Sdk!NoAct.pc = "idle"
           /\ \A m : LET a == [Sdk!NoAct EXCEPT !.m = m, !.pc = "begin"] IN
                 DOMAIN a = ActFields /\ a.m = m /\ a.pc = "begin"
           /\ \A pc : LET a == [act EXCEPT !.pc = pc] IN
                 DOMAIN a = ActFields /\ a.m = act.m /\ a.pc = pc
BY DEF SdkIInv, Sdk!NoAct, ActFields

\* What is left of the call when it goes on, and when it returns.
LEMMA GoesOnTo ==
    ASSUME SdkIInv
    PROVE  /\ \A pc : Sdk!To(pc) => DOMAIN act' = ActFields /\ act'.m = act.m /\ act'.pc = pc
           /\ Sdk!Return => DOMAIN act' = ActFields /\ act'.m = "none" /\ act'.pc = "idle"
<1>1. ASSUME NEW pc, Sdk!To(pc) PROVE DOMAIN act' = ActFields /\ act'.m = act.m /\ act'.pc = pc
  BY <1>1 DEF Sdk!To, SdkIInv, ActFields
<1> QED  BY <1>1, ActsAre DEF Sdk!Return

\* An opened camera, and a closed one.
LEMMA UnitsAre ==
    /\ \A n : LET u == Sdk!Opened(n) IN
          DOMAIN u = UnitFields /\ ~u.live /\ u.mode = n
    /\ LET u == [Sdk!Shelved EXCEPT !.abort = TRUE] IN
          DOMAIN u = UnitFields /\ ~u.live /\ ~u.connected
BY DEF Sdk!Opened, Sdk!Shelved, UnitFields

\* A command that ends what the camera does leaves it quiet, or the slip is known.
LEMMA EndsQuiet == Sdk!Ends => slip' \/ sdk' = "none"
BY DEF Sdk!Ends, Sdk!Done, Sdk!Failed

\* The driver is started, a call takes the camera, or the driver is stopped.
LEMMA CycleBeginStep ==
    ASSUME SdkIInv,
           \/ \E k \in {"qhy", "asi"} : Sdk!Driver(k)
           \/ \E m \in {"connect", "disconnect", "health", "capture", "liveStart", "liveFrame", "liveStop"} :
                 Sdk!Call(m)
           \/ Sdk!StopDriver
    PROVE  SdkIInv'
<1>1. ASSUME NEW k \in {"qhy", "asi"}, Sdk!Driver(k) PROVE SdkIInv'
  BY <1>1 DEF SdkIInv, Doing, Tame, Quiet, Unused, Sdk!Driver
<1>2. ASSUME NEW m \in {"connect", "disconnect", "health", "capture", "liveStart", "liveFrame", "liveStop"},
             Sdk!Call(m)
      PROVE  SdkIInv'
  <2>1. DOMAIN act' = ActFields /\ act'.m = m /\ act'.pc = "begin"
    BY <1>2, ActsAre DEF Sdk!Call
  <2> QED  BY <1>2, <2>1 DEF SdkIInv, Doing, Tame, Quiet, Unused, Sdk!Call, Brief
<1>3. CASE Sdk!StopDriver
  BY <1>3, UnitsAre DEF SdkIInv, Doing, Tame, Quiet, Unused, Sdk!StopDriver, Sdk!CloseCamera, Brief
<1> QED  BY <1>1, <1>2, <1>3

\* An abort or a cancellation, whichever step the call is at.
LEMMA AbortStep ==
    ASSUME SdkIInv, Sdk!Abort \/ Sdk!Cancel
    PROVE  SdkIInv'
<1>1. CASE Sdk!Abort
  <2>1. /\ DOMAIN unit' = UnitFields /\ unit'.live = unit.live /\ unit'.mode = unit.mode
        /\ unit'.connected = unit.connected /\ UNCHANGED <<brand, act>>
    BY <1>1 DEF Sdk!Abort, SdkIInv, UnitFields
  <2>2. CASE UNCHANGED <<sdk, slip>>
    BY <2>1, <2>2 DEF SdkIInv, Doing, Tame, Quiet, Unused
  <2>3. CASE ~(Sdk!Qhy /\ unit.live) /\ sdk # "video" /\ sdk' = "none" /\ UNCHANGED slip
    <3>1. Tame(unit, sdk, slip) => Tame(unit', sdk', slip')
      BY <2>1, <2>3 DEF Tame, Unused
    <3>2. Quiet(unit, sdk, slip) => Quiet(unit', sdk', slip')
      BY <2>1, <2>3 DEF Quiet, Unused
    <3> QED  BY <2>1, <2>3, <3>1, <3>2 DEF SdkIInv, Doing
  <2> QED  BY <1>1, <2>2, <2>3 DEF Sdk!Abort
<1>2. CASE Sdk!Cancel
  <2>1. DOMAIN act' = ActFields /\ act'.m = act.m /\ act'.pc = act.pc
    BY <1>2 DEF Sdk!Cancel, SdkIInv, ActFields
  <2> QED  BY <1>2, <2>1 DEF SdkIInv, Doing, Tame, Quiet, Unused, Sdk!Cancel
<1> QED  BY <1>1, <1>2

\* The camera is opened, closed or probed.
LEMMA OpenStep ==
    ASSUME SdkIInv, Sdk!Connect \/ Sdk!Disconnect \/ Sdk!Health
    PROVE  SdkIInv'
<1>1. act' = Sdk!NoAct /\ UNCHANGED brand /\ DOMAIN act' = ActFields /\ act'.m = "none" /\ act'.pc = "idle"
  BY ActsAre DEF Sdk!Connect, Sdk!Disconnect, Sdk!Health, Sdk!Return, Sdk!At
<1>2. CASE Sdk!Connect
  <2>1. CASE unit' = Sdk!Opened(0)
    BY <1>1, <1>2, <2>1, UnitsAre DEF SdkIInv, Doing, Tame, Unused, Sdk!Connect, Brief
  <2>2. CASE unit' = [unit EXCEPT !.open = FALSE]
    <3>1. /\ DOMAIN unit' = UnitFields /\ unit'.live = unit.live /\ unit'.mode = unit.mode
          /\ unit'.connected = unit.connected
      BY <2>2 DEF SdkIInv, UnitFields
    <3> QED  BY <1>1, <1>2, <3>1 DEF SdkIInv, Doing, Tame, Unused, Sdk!Connect, Sdk!At, Brief
  <2> QED  BY <1>2, <2>1, <2>2 DEF Sdk!Connect
<1>3. CASE Sdk!Disconnect
  BY <1>1, <1>3, UnitsAre DEF SdkIInv, Doing, Tame, Unused, Sdk!Disconnect, Sdk!CloseCamera, Brief
<1>4. CASE Sdk!Health
  <2>1. /\ DOMAIN unit' = UnitFields /\ unit'.live = unit.live /\ unit'.mode = unit.mode
        /\ unit.connected
    BY <1>4 DEF Sdk!Health, Sdk!At, SdkIInv, Doing, UnitFields
  <2> QED  BY <1>1, <1>4, <2>1 DEF SdkIInv, Doing, Tame, Unused, Sdk!Health, Sdk!At, Brief
<1> QED  BY <1>2, <1>3, <1>4

\* The camera is opened again in another mode.
LEMMA ReopenIs ==
    ASSUME NEW n, NEW next, Sdk!Reopen(n, next), DOMAIN unit = UnitFields
    PROVE  /\ sdk' = "none" /\ DOMAIN unit' = UnitFields /\ ~unit'.live
           /\ \/ next /\ unit'.mode = n
              \/ ~unit'.connected /\ Sdk!Return
BY UnitsAre DEF Sdk!Reopen, UnitFields

\* A capture up to its exposure.
LEMMA CaptureStep ==
    ASSUME SdkIInv, Sdk!CaptureBegin \/ Sdk!Expose
    PROVE  SdkIInv'
<1>1. UNCHANGED brand /\ act.m = "capture" /\ brand # "none"
  BY DEF SdkIInv, Doing, Sdk!CaptureBegin, Sdk!Expose, Sdk!At
<1>2. CASE Sdk!CaptureBegin
  <2>1. Tame(unit, sdk, slip) /\ (unit.live /\ Sdk!Qhy => unit.mode = 1)
    BY <1>2 DEF SdkIInv, Doing, Sdk!CaptureBegin, Sdk!At, Sdk!Qhy
  <2>2. CASE Sdk!Reopen(0, Sdk!To("set"))
    <3>1. DOMAIN unit = UnitFields
      BY DEF SdkIInv
    <3>2. /\ sdk' = "none" /\ DOMAIN unit' = UnitFields /\ ~unit'.live
          /\ \/ Sdk!To("set") /\ unit'.mode = 0
             \/ ~unit'.connected /\ Sdk!Return
      BY <2>2, <3>1, ReopenIs
    <3> QED  BY <1>1, <3>2, GoesOnTo DEF SdkIInv, Doing, Tame, Quiet, Unused, Brief
  <2>3. CASE Sdk!To("set") /\ DOMAIN unit' = UnitFields /\ ~unit'.live /\ (slip' \/ sdk' \in Unused)
    BY <1>1, <2>3, GoesOnTo DEF SdkIInv, Doing, Quiet, Unused, Brief
  <2>4. CASE Sdk!Qhy /\ unit.mode = 0
    <3>1. DOMAIN unit' = UnitFields /\ ~unit'.live /\ Sdk!To("set") /\ UNCHANGED <<sdk, slip>>
      BY <1>2, <2>1, <2>4 DEF Sdk!CaptureBegin, SdkIInv, UnitFields
    <3> QED  BY <2>1, <2>3, <2>4, <3>1 DEF Tame, Unused
  <2>5. CASE ~Sdk!Qhy
    <3>1. DOMAIN unit' = UnitFields /\ ~unit'.live /\ Sdk!To("set")
      BY <1>2, <2>5 DEF Sdk!CaptureBegin, SdkIInv, UnitFields
    <3> QED  BY <1>2, <2>1, <2>3, <2>5, <3>1, EndsQuiet DEF Sdk!CaptureBegin, Tame, Unused
  <2> QED  BY <1>2, <2>2, <2>4, <2>5 DEF Sdk!CaptureBegin
<1>3. CASE Sdk!Expose
  <2>1. UNCHANGED unit /\ act.pc = "start" /\ Quiet(unit, sdk, slip)
    BY <1>1, <1>3 DEF Sdk!Expose, Sdk!At, SdkIInv, Doing
  <2>2. \/ sdk' = "expose" /\ UNCHANGED slip /\ \E pc \in {"begun", "read"} : Sdk!To(pc)
        \/ sdk' \in {"none", sdk} /\ UNCHANGED slip /\ Sdk!Return
    BY <1>3 DEF Sdk!Expose
  <2> QED  BY <1>1, <2>1, <2>2, GoesOnTo DEF SdkIInv, Doing, Tame, Quiet, Unused, Brief
<1> QED  BY <1>2, <1>3

\* An exposure that was begun, read out, given up or handed over.
LEMMA ReadStep ==
    ASSUME SdkIInv, Sdk!Begun \/ Sdk!Read \/ Sdk!Watchdog \/ Sdk!Poll \/ Sdk!Publish
    PROVE  SdkIInv'
<1>1. /\ UNCHANGED brand /\ act.m = "capture" /\ brand # "none" /\ ~unit.live
      /\ act.pc \in {"begun", "read", "publish"}
      /\ act.pc = "publish" => slip \/ sdk \in Unused
      /\ act.pc \in {"begun", "read"} => slip \/ sdk \in {"none", "expose"}
  BY DEF SdkIInv, Doing, Quiet, Unused, Sdk!Begun, Sdk!Read, Sdk!Watchdog, Sdk!Poll, Sdk!Publish, Sdk!At
<1>2. DOMAIN unit' = UnitFields /\ unit'.live = unit.live /\ unit'.mode = unit.mode
  BY DEF SdkIInv, UnitFields, Sdk!Begun, Sdk!Read, Sdk!Watchdog, Sdk!Poll, Sdk!Publish
<1>3. \/ (Sdk!Return \/ Sdk!To("publish")) /\ (slip' \/ sdk' \in Unused)
      \/ Sdk!To("read") /\ (slip' \/ sdk' \in {"none", "expose"})
  <2>1. CASE Sdk!Begun
    BY <1>1, <2>1, EndsQuiet DEF Sdk!Begun, Sdk!At, Unused
  <2>2. CASE Sdk!Read
    BY <2>2, EndsQuiet DEF Sdk!Read, Unused
  <2>3. CASE Sdk!Watchdog
    BY <2>3 DEF Sdk!Watchdog, Unused
  <2>4. CASE Sdk!Poll
    BY <1>1, <2>4, EndsQuiet DEF Sdk!Poll, Sdk!At, Unused
  <2>5. CASE Sdk!Publish
    BY <1>1, <2>5 DEF Sdk!Publish, Sdk!At
  <2> QED  BY <2>1, <2>2, <2>3, <2>4, <2>5
<1> QED  BY <1>1, <1>2, <1>3, GoesOnTo DEF SdkIInv, Doing, Tame, Quiet, Unused, Brief

\* A live view is set up, shown and stopped.
LEMMA LiveStep ==
    ASSUME SdkIInv, Sdk!Set \/ Sdk!LiveBegin \/ Sdk!LiveStart \/ Sdk!LiveFrame \/ Sdk!LiveStop
    PROVE  SdkIInv'
<1>1. UNCHANGED brand /\ brand # "none" /\ DOMAIN unit = UnitFields
  BY DEF SdkIInv, Doing, Sdk!Set, Sdk!LiveBegin, Sdk!LiveStart, Sdk!LiveFrame, Sdk!LiveStop, Sdk!At
<1>2. CASE Sdk!Set
  BY <1>1, <1>2, GoesOnTo DEF Sdk!Set, SdkIInv, Doing, Tame, Quiet, Unused, Brief
<1>3. CASE Sdk!LiveBegin
  <2>1. act.m = "liveStart" /\ Tame(unit, sdk, slip) /\ ~unit.live
    BY <1>3 DEF Sdk!LiveBegin, Sdk!At, SdkIInv, Doing
  <2>2. CASE Sdk!Reopen(1, Sdk!To("set"))
    <3>1. /\ sdk' = "none" /\ DOMAIN unit' = UnitFields /\ ~unit'.live
          /\ \/ Sdk!To("set") /\ unit'.mode = 1
             \/ ~unit'.connected /\ Sdk!Return
      BY <1>1, <2>2, ReopenIs
    <3> QED  BY <1>1, <2>1, <3>1, GoesOnTo DEF SdkIInv, Doing, Tame, Quiet, Unused, Brief
  <2>3. CASE ~(Sdk!Qhy /\ unit.mode # 1)
    <3>1. /\ Sdk!To("set") /\ UNCHANGED <<sdk, slip>> /\ DOMAIN unit' = UnitFields
          /\ unit'.live = unit.live /\ (Sdk!Qhy => unit'.mode = 1)
      BY <1>1, <1>3, <2>3 DEF Sdk!LiveBegin, UnitFields
    <3> QED  BY <1>1, <2>1, <3>1, GoesOnTo DEF SdkIInv, Doing, Tame, Quiet, Unused, Sdk!Qhy, Brief
  <2> QED  BY <1>3, <2>2, <2>3 DEF Sdk!LiveBegin
<1>4. CASE Sdk!LiveStart
  <2>1. /\ act.m = "liveStart" /\ Quiet(unit, sdk, slip) /\ (Sdk!Qhy => unit.mode = 1)
        /\ Sdk!Return /\ UNCHANGED slip
    BY <1>4 DEF Sdk!LiveStart, Sdk!At, SdkIInv, Doing, Sdk!Qhy
  <2>2. CASE UNCHANGED <<unit, sdk>>
    BY <1>1, <2>1, <2>2, GoesOnTo DEF SdkIInv, Doing, Tame, Quiet, Unused, Brief
  <2>3. CASE /\ sdk' = "video"
             /\ unit' = [unit EXCEPT !.live = TRUE, !.abort = IF Sdk!Qhy THEN FALSE ELSE @]
    <3>1. DOMAIN unit' = UnitFields /\ unit'.live /\ unit'.mode = unit.mode
      BY <1>1, <2>3 DEF UnitFields
    <3> QED  BY <1>1, <2>1, <2>3, <3>1, GoesOnTo DEF SdkIInv, Doing, Tame, Unused, Sdk!Qhy, Brief
  <2> QED  BY <1>4, <2>2, <2>3 DEF Sdk!LiveStart
<1>5. CASE Sdk!LiveFrame
  <2>1. /\ act.m = "liveFrame" /\ Sdk!Return /\ UNCHANGED <<sdk, slip>> /\ DOMAIN unit' = UnitFields
        /\ unit'.live = unit.live /\ unit'.mode = unit.mode /\ unit'.connected = unit.connected
    BY <1>1, <1>5 DEF Sdk!LiveFrame, Sdk!At, UnitFields
  <2> QED  BY <1>1, <2>1, GoesOnTo DEF SdkIInv, Doing, Tame, Unused, Brief
<1>6. CASE Sdk!LiveStop
  <2>1. act.m = "liveStop" /\ Sdk!Return
    BY <1>6 DEF Sdk!LiveStop, Sdk!At
  <2>2. CASE UNCHANGED <<unit, sdk, slip>>
    BY <1>1, <2>1, <2>2, GoesOnTo DEF SdkIInv, Doing, Tame, Unused, Brief
  <2>3. CASE (slip' \/ sdk' \in Unused) /\ DOMAIN unit' = UnitFields /\ ~unit'.live
    BY <1>1, <2>1, <2>3, GoesOnTo DEF SdkIInv, Doing, Tame, Unused, Brief
  <2>4. \A open \in BOOLEAN : LET u == [Sdk!Opened(0) EXCEPT !.connected = FALSE, !.open = open] IN
           DOMAIN u = UnitFields /\ ~u.live
    BY UnitsAre DEF UnitFields
  <2>5. LET u == [unit EXCEPT !.live = FALSE, !.abort = FALSE] IN DOMAIN u = UnitFields /\ ~u.live
    BY <1>1 DEF UnitFields
  <2>6. slip \/ (IF unit.live THEN "none" ELSE sdk) \in Unused \/ ~unit.connected
    BY <2>1 DEF SdkIInv, Doing, Tame, Unused, Brief
  <2>7. CASE ~Sdk!Qhy
    <3>1. CASE sdk' = (IF unit.live THEN "none" ELSE sdk) /\ UNCHANGED slip
               /\ unit' = [unit EXCEPT !.live = FALSE, !.abort = FALSE]
      <4>1. DOMAIN unit' = UnitFields /\ ~unit'.live /\ unit'.connected = unit.connected
        BY <1>1, <2>5, <3>1 DEF UnitFields
      <4>2. unit'.connected => slip' \/ sdk' \in Unused
        BY <2>6, <3>1, <4>1
      <4> QED  BY <1>1, <2>1, <4>1, <4>2, GoesOnTo DEF SdkIInv, Doing, Tame, Brief
    <3> QED  BY <1>6, <2>2, <2>7, <3>1 DEF Sdk!LiveStop
  <2>8. CASE Sdk!Qhy
    BY <1>6, <2>3, <2>4, <2>8, UnitsAre DEF Sdk!LiveStop, Unused
  <2> QED  BY <2>7, <2>8
<1> QED  BY <1>2, <1>3, <1>4, <1>5, <1>6

\* Every step of the composition keeps the invariant.
LEMMA SdkStep == SdkIInv /\ [Next]_vars => SdkIInv'
<1> SUFFICES ASSUME SdkIInv, [Next]_vars PROVE SdkIInv'
  OBVIOUS
<1>1. CASE SdkNext
  BY <1>1, CycleBeginStep, AbortStep, OpenStep, CaptureStep, ReadStep, LiveStep DEF SdkNext, Sdk!ScNext
<1>2. CASE UNCHANGED sdkVars
  BY <1>2 DEF sdkVars, SdkIInv
<1> QED  BY <1>1, <1>2 DEF Next, vars, MountNext, TableNext, SessionNext, LoaderNext, CanonNext, FocusNext,
         IndiNext, RecNext, SolveNext, NetNext, HandNext, VideoNext, LinksNext

\* Whatever commands of the SDK fail, and whenever an abort comes, a camera that no call
\* has does what its record says, unless the command to end it failed or, of an ASI
\* camera, the status of its exposure could not be read.
THEOREM NoCycleLeft == Spec => []CycleEnds
<1>1. Init => SdkIInv
  BY SdkInitInv DEF Init
<1>2. SdkIInv => CycleEnds
  BY DEF SdkIInv, Doing, Tame, Unused, Brief, CycleEnds, Sdk!CycleEnds
<1> QED  BY <1>1, <1>2, SdkStep, PTL DEF Spec

-----------------------------------------------------------------------------
(* VideoLinks: a remote client finds its way back to the frames.           *)

LinkCallback == [role : Links!Roles, peer : 1 .. peers,
                 kind : {"channel", "open", "closed"}, hit : BOOLEAN]
SocketTypes ==
    /\ sock \in [Links!Sockets -> {"off", "connecting", "on", "closing"}]
    /\ sock["events"] # "closing" /\ sock["signal"] # "closing"
    /\ watching \in BOOLEAN /\ offered \in BOOLEAN /\ retry \in BOOLEAN /\ updates \in Nat
PeerTypes ==
    /\ rtcPeer \in Nat /\ peers \in Nat /\ rtcPeer <= peers /\ stopping \in BOOLEAN
    /\ slot \in [Links!Roles -> Nat] /\ rtcFlag \in [Links!Roles -> BOOLEAN]
    /\ channel \in [Links!Roles -> {"none", "negotiated", "open", "closed"}]
    /\ callbacks \subseteq LinkCallback

\* A socket of a watching client that is closed, and should not be, is about to
\* be opened.
SocketsComeBack ==
    watching =>
        /\ sock["events"] = "off" => retry
        /\ sock["signal"] = "off" /\ offered => retry \/ stopping
        /\ sock["video"] = "off" /\ ~Links!FullRtc => retry \/ stopping \/ updates > 0

\* Channels are the peer's, and the callback that opened one, or found one closed,
\* is of a channel in its slot while the peer stays.
ChannelsAre ==
    /\ rtcPeer = 0 => \A r \in Links!Roles : channel[r] = "none"
    /\ \A c \in callbacks : c.kind = "open" /\ c.peer = rtcPeer =>
           slot[c.role] = rtcPeer /\ channel[c.role] = "open"
    /\ \A b, c \in callbacks : b.role = c.role /\ b.peer = c.peer => b = c

\* A flag that was not overtaken is of an open channel, or about to be cleared.
FlagsAre ==
    \A r \in Links!Roles : rtcFlag[r] /\ r \notin overtaken =>
        /\ ~stopping /\ rtcPeer # 0 /\ slot[r] = rtcPeer
        /\ \/ channel[r] = "open"
           \/ \E c \in callbacks : c.role = r /\ c.kind = "closed" /\ c.hit

LinksIInv == SocketTypes /\ PeerTypes /\ SocketsComeBack /\ ChannelsAre /\ FlagsAre

\* The client that starts has opened nothing.
LEMMA LinksInitInv == Links!LinksInit => LinksIInv
<1> SUFFICES ASSUME Links!LinksInit PROVE LinksIInv
  OBVIOUS
<1> USE DEF Links!LinksInit
<1>1. SocketTypes
  BY DEF SocketTypes, Links!Sockets
<1>2. PeerTypes
  <2>1. slot \in [Links!Roles -> Nat] /\ rtcFlag \in [Links!Roles -> BOOLEAN]
    OBVIOUS
  <2>2. channel \in [Links!Roles -> {"none", "negotiated", "open", "closed"}]
    OBVIOUS
  <2>3. rtcPeer = 0 /\ peers = 0 /\ callbacks = {}
    OBVIOUS
  <2>4. stopping \in BOOLEAN
    OBVIOUS
  <2> HIDE DEF Links!LinksInit
  <2>5. rtcPeer \in Nat /\ peers \in Nat /\ rtcPeer <= peers /\ callbacks \subseteq LinkCallback
    BY <2>3
  <2> QED  BY <2>1, <2>2, <2>4, <2>5 DEF PeerTypes
<1>3. SocketsComeBack /\ ChannelsAre /\ FlagsAre
  BY DEF SocketsComeBack, ChannelsAre, FlagsAre
<1> QED  BY <1>1, <1>2, <1>3 DEF LinksIInv

\* The sockets, one by one.
LEMMA SocketsAre ==
    /\ Links!Sockets = {"events", "video", "signal"}
    /\ SocketTypes => /\ sock["events"] \in {"off", "connecting", "on"}
                      /\ sock["signal"] \in {"off", "connecting", "on"}
                      /\ sock["video"] \in {"off", "connecting", "on", "closing"}
                      /\ DOMAIN sock = Links!Sockets
BY DEF SocketTypes, Links!Sockets

\* Sockets open, fail and are asked for again without regard to the channels.
LEMMA SocketsStep ==
    ASSUME LinksIInv,
           \/ Links!OpenStreams \/ Links!UpdateFallback \/ Links!Retry
           \/ \E s \in {"events", "video"} : Links!Connected(s) \/ Links!Disconnected(s)
    PROVE  LinksIInv'
<1>0. SocketTypes /\ PeerTypes /\ SocketsComeBack /\ ChannelsAre /\ FlagsAre
  BY DEF LinksIInv
<1>1. UNCHANGED <<rtcPeer, peers, slot, rtcFlag, stopping, overtaken, channel, callbacks>>
  BY DEF Links!OpenStreams, Links!UpdateFallback, Links!Retry, Links!Connected,
         Links!Disconnected, Links!Peer, Links!Library
<1>2. ChannelsAre' /\ FlagsAre' /\ PeerTypes'
  BY <1>0, <1>1 DEF ChannelsAre, FlagsAre, PeerTypes, LinkCallback
<1>3. Links!FullRtc' = Links!FullRtc
  BY <1>1 DEF Links!FullRtc
<1>4. CASE Links!OpenStreams
  <2>1. /\ watching' = TRUE /\ offered' \in BOOLEAN /\ UNCHANGED <<retry, updates>>
        /\ sock' = [s \in Links!Sockets |-> IF s = "signal" /\ ~offered' THEN "off" ELSE "connecting"]
    BY <1>4 DEF Links!OpenStreams
  <2>2. /\ sock' \in [Links!Sockets -> {"off", "connecting", "on", "closing"}]
        /\ sock'["events"] = "connecting" /\ sock'["video"] = "connecting"
        /\ sock'["signal"] = IF offered' THEN "connecting" ELSE "off"
    BY <2>1, SocketsAre
  <2> QED  BY <1>0, <1>2, <2>1, <2>2 DEF LinksIInv, SocketTypes, SocketsComeBack
<1>5. CASE Links!UpdateFallback
  <2>1. /\ updates > 0 /\ updates' = updates - 1 /\ UNCHANGED <<watching, offered, retry>>
        /\ sock' = [sock EXCEPT !["video"] = Links!Fallback(@, Links!FullRtc)]
    BY <1>5 DEF Links!UpdateFallback
  <2>2. Links!Fallback(sock["video"], Links!FullRtc) \in {"off", "connecting", "on", "closing"}
    BY <1>0, SocketsAre DEF Links!Fallback
  <2>3. ~Links!FullRtc => Links!Fallback(sock["video"], Links!FullRtc) # "off"
    BY DEF Links!Fallback
  <2>4. /\ sock' \in [Links!Sockets -> {"off", "connecting", "on", "closing"}]
        /\ sock'["events"] = sock["events"] /\ sock'["signal"] = sock["signal"]
        /\ sock'["video"] = Links!Fallback(sock["video"], Links!FullRtc)
    BY <1>0, <2>1, <2>2, SocketsAre DEF SocketTypes
  <2> QED  BY <1>0, <1>1, <1>2, <1>3, <2>1, <2>3, <2>4 DEF LinksIInv, SocketTypes, SocketsComeBack
<1>6. CASE Links!Retry
  <2> DEFINE closed == {s \in Links!Sockets : /\ sock[s] = "off"
                                              /\ s = "signal" => offered
                                              /\ s = "video" => ~Links!FullRtc}
  <2>1. /\ UNCHANGED <<watching, offered, updates>> /\ retry' \in BOOLEAN
        /\ sock' = [s \in Links!Sockets |-> IF s \in closed THEN "connecting" ELSE sock[s]]
    BY <1>6 DEF Links!Retry
  <2>2. /\ sock' \in [Links!Sockets -> {"off", "connecting", "on", "closing"}]
        /\ sock'["events"] \in {"connecting", "on"}
        /\ sock'["signal"] \in {"off", "connecting", "on"}
        /\ sock'["signal"] = "off" => ~offered
        /\ sock'["video"] = "off" => Links!FullRtc
    BY <1>0, <2>1, SocketsAre
  <2> QED  BY <1>0, <1>2, <1>3, <2>1, <2>2 DEF LinksIInv, SocketTypes, SocketsComeBack
<1>7. ASSUME NEW s \in {"events", "video"}, Links!Connected(s) PROVE LinksIInv'
  <2>1. sock' = [sock EXCEPT ![s] = "on"] /\ UNCHANGED <<watching, offered, retry, updates>>
    BY <1>7 DEF Links!Connected
  <2>2. /\ sock' \in [Links!Sockets -> {"off", "connecting", "on", "closing"}]
        /\ \A t \in Links!Sockets : sock'[t] = sock[t] \/ sock'[t] = "on"
    BY <1>0, <2>1, SocketsAre DEF SocketTypes
  <2> QED  BY <1>0, <1>1, <1>2, <1>3, <2>1, <2>2, SocketsAre DEF LinksIInv, SocketTypes, SocketsComeBack
<1>8. ASSUME NEW s \in {"events", "video"}, Links!Disconnected(s) PROVE LinksIInv'
  <2>1. /\ sock' = [sock EXCEPT ![s] = "off"] /\ UNCHANGED <<watching, offered, updates>>
        /\ retry' = (retry \/ s = "events" \/ ~Links!FullRtc)
    BY <1>8 DEF Links!Disconnected
  <2>2. /\ sock' \in [Links!Sockets -> {"off", "connecting", "on", "closing"}]
        /\ \A t \in Links!Sockets : sock'[t] = sock[t] \/ (sock'[t] = "off" /\ t = s)
    BY <1>0, <2>1, SocketsAre DEF SocketTypes
  <2>3. SocketTypes'
    BY <1>0, <2>1, <2>2, SocketsAre DEF SocketTypes
  <2>4. SocketsComeBack'
    BY <1>0, <1>1, <1>3, <2>1, <2>2, SocketsAre DEF SocketTypes, SocketsComeBack
  <2> QED  BY <1>2, <2>3, <2>4 DEF LinksIInv
<1> QED  BY <1>4, <1>5, <1>6, <1>7, <1>8

\* The peer is made, or refused, as the signaling goes on.
LEMMA SignalStep ==
    ASSUME LinksIInv, Links!SignalConnected \/ Links!Signal
    PROVE  LinksIInv'
<1>0. SocketTypes /\ PeerTypes /\ SocketsComeBack /\ ChannelsAre /\ FlagsAre
  BY DEF LinksIInv
<1>1. /\ UNCHANGED <<slot, rtcFlag, stopping, overtaken, channel, callbacks, watching, offered,
                     retry, updates>>
      /\ Links!EnsurePeer
      /\ sock' = sock \/ sock' = [sock EXCEPT !["signal"] = "on"]
  BY DEF Links!SignalConnected, Links!Signal, Links!Library
<1>2. \/ UNCHANGED <<rtcPeer, peers>>
      \/ rtcPeer = 0 /\ rtcPeer' = peers + 1 /\ peers' = peers + 1
  BY <1>1 DEF Links!EnsurePeer
<1>3. /\ \A c \in callbacks : c.role \in Links!Roles /\ c.peer \in Nat /\ c.peer <= peers /\ c.peer > 0
                             /\ c.kind \in {"channel", "open", "closed"} /\ c.hit \in BOOLEAN
      /\ peers \in Nat
  BY <1>0 DEF PeerTypes, LinkCallback
<1>4. PeerTypes'
  <2>1. callbacks' \subseteq LinkCallback'
    <3>1. 1 .. peers \subseteq 1 .. peers'
      BY <1>2, <1>3
    <3> QED  BY <1>0, <1>1, <3>1 DEF PeerTypes, LinkCallback
  <2> QED  BY <1>0, <1>1, <1>2, <2>1 DEF PeerTypes
<1>5. ChannelsAre'
  BY <1>0, <1>1, <1>2, <1>3 DEF ChannelsAre, PeerTypes
<1>6. FlagsAre'
  BY <1>0, <1>1, <1>2 DEF FlagsAre
<1>7. SocketTypes' /\ SocketsComeBack'
  <2>1. Links!FullRtc' = Links!FullRtc
    BY <1>1 DEF Links!FullRtc
  <2>2. /\ sock' \in [Links!Sockets -> {"off", "connecting", "on", "closing"}]
        /\ \A t \in Links!Sockets : sock'[t] = sock[t] \/ sock'[t] = "on"
    BY <1>0, <1>1, SocketsAre DEF SocketTypes
  <2> QED  BY <1>0, <1>1, <2>1, <2>2, SocketsAre DEF SocketTypes, SocketsComeBack
<1> QED  BY <1>4, <1>5, <1>6, <1>7 DEF LinksIInv

\* A peer whose signaling is lost is stopped in two steps.
LEMMA StopStep ==
    ASSUME LinksIInv, Links!SignalLost \/ Links!StopPeer
    PROVE  LinksIInv'
<1>0. SocketTypes /\ PeerTypes /\ SocketsComeBack /\ ChannelsAre /\ FlagsAre
  BY DEF LinksIInv
<1>1. CASE Links!SignalLost
  <2>1. /\ sock' = [sock EXCEPT !["signal"] = "off"] /\ stopping' = TRUE
        /\ rtcFlag' = [r \in Links!Roles |-> FALSE] /\ overtaken' = {}
        /\ UNCHANGED <<watching, offered, retry, rtcPeer, peers, slot, updates, channel, callbacks>>
    BY <1>1 DEF Links!SignalLost, Links!Library
  <2>2. PeerTypes' /\ ChannelsAre'
    BY <1>0, <2>1 DEF PeerTypes, LinkCallback, ChannelsAre
  <2>3. FlagsAre'
    BY <2>1 DEF FlagsAre
  <2>4. /\ sock' \in [Links!Sockets -> {"off", "connecting", "on", "closing"}]
        /\ sock'["events"] = sock["events"] /\ sock'["signal"] = "off"
    BY <1>0, <2>1, SocketsAre DEF SocketTypes
  <2> QED  BY <1>0, <2>1, <2>2, <2>3, <2>4 DEF LinksIInv, SocketTypes, SocketsComeBack
<1>2. CASE Links!StopPeer
  <2>1. /\ stopping /\ stopping' = FALSE /\ rtcPeer' = 0 /\ slot' = [r \in Links!Roles |-> 0]
        /\ channel' = [r \in Links!Roles |-> "none"]
        /\ sock' = [sock EXCEPT !["video"] = Links!Fallback(@, Links!FullRtc)] /\ retry' = TRUE
        /\ UNCHANGED <<watching, offered, peers, rtcFlag, callbacks, updates, overtaken>>
    BY <1>2 DEF Links!StopPeer
  <2>2. PeerTypes'
    <3>1. slot' \in [Links!Roles -> Nat]
      BY <2>1
    <3>2. channel' \in [Links!Roles -> {"none", "negotiated", "open", "closed"}]
      BY <2>1
    <3>3. LinkCallback' = LinkCallback
      BY <2>1 DEF LinkCallback
    <3>4. rtcPeer' \in Nat /\ peers' \in Nat /\ rtcPeer' <= peers'
      <4>1. rtcPeer' = 0 /\ peers' = peers /\ peers \in Nat
        BY <1>0, <2>1 DEF PeerTypes
      <4> QED  BY <4>1
    <3>6. stopping' \in BOOLEAN
      BY <2>1
    <3>5. rtcFlag' \in [Links!Roles -> BOOLEAN] /\ callbacks' \subseteq LinkCallback
      BY <1>0, <2>1 DEF PeerTypes
    <3> QED  BY <3>1, <3>2, <3>3, <3>4, <3>5, <3>6 DEF PeerTypes
  <2>3. ChannelsAre'
    <3>1. \A c \in callbacks : c.peer # 0
      BY <1>0 DEF PeerTypes, LinkCallback
    <3> QED  BY <1>0, <2>1, <3>1 DEF ChannelsAre
  <2>4. FlagsAre'
    BY <1>0, <2>1 DEF FlagsAre
  <2>5. Links!Fallback(sock["video"], Links!FullRtc) \in {"off", "connecting", "on", "closing"}
    BY <1>0, SocketsAre DEF Links!Fallback
  <2>6. /\ sock' \in [Links!Sockets -> {"off", "connecting", "on", "closing"}]
        /\ sock'["events"] = sock["events"] /\ sock'["signal"] = sock["signal"]
    BY <1>0, <2>1, <2>5, SocketsAre DEF SocketTypes
  <2> QED  BY <1>0, <2>1, <2>2, <2>3, <2>4, <2>6 DEF LinksIInv, SocketTypes, SocketsComeBack
<1> QED  BY <1>1, <1>2

\* A callback begins with what it saw of the slot.
LEMMA BeginStep ==
    ASSUME LinksIInv, NEW r \in Links!Roles,
           Links!ChannelCallback(r) \/ Links!OpenCallback(r) \/ Links!ClosedCallback(r)
    PROVE  LinksIInv'
<1>0. SocketTypes /\ PeerTypes /\ SocketsComeBack /\ ChannelsAre /\ FlagsAre
  BY DEF LinksIInv
<1> DEFINE b(what, hit) == [role |-> r, peer |-> rtcPeer, kind |-> what, hit |-> hit]
<1>1. PICK what \in {"channel", "open", "closed"}, hit \in BOOLEAN, to \in {"negotiated", "open", "closed"} :
         /\ Links!Begin(r, what, hit) /\ channel' = [channel EXCEPT ![r] = to]
         /\ rtcPeer # 0
         /\ what = "open" => slot[r] = rtcPeer /\ to = "open"
         /\ to # "open" => channel[r] # "open" \/ (what = "closed" /\ hit = (slot[r] = rtcPeer))
  <2>1. Links!ChannelCallback(r) => Links!Begin(r, "channel", ~stopping) /\ (~stopping) \in BOOLEAN
                                    /\ channel' = [channel EXCEPT ![r] = "negotiated"]
                                    /\ rtcPeer # 0 /\ channel[r] = "none"
    BY <1>0 DEF Links!ChannelCallback, PeerTypes
  <2>2. Links!OpenCallback(r) => Links!Begin(r, "open", TRUE) /\ slot[r] = rtcPeer /\ rtcPeer # 0
                                 /\ channel' = [channel EXCEPT ![r] = "open"]
    BY <1>0 DEF Links!OpenCallback, ChannelsAre
  <2>3. Links!ClosedCallback(r) => Links!Begin(r, "closed", slot[r] = rtcPeer) /\ rtcPeer # 0
                                   /\ channel' = [channel EXCEPT ![r] = "closed"]
    BY <1>0 DEF Links!ClosedCallback, ChannelsAre
  <2>4. (slot[r] = rtcPeer) \in BOOLEAN
    OBVIOUS
  <2> QED  BY <2>1, <2>2, <2>3, <2>4
<1>2. UNCHANGED <<watching, sock, offered, retry, rtcPeer, peers, stopping, slot, rtcFlag, updates, overtaken>>
  BY DEF Links!ChannelCallback, Links!OpenCallback, Links!ClosedCallback, Links!Threads
<1>3. /\ callbacks' = callbacks \cup {b(what, hit)}
      /\ \A c \in callbacks : c.role # r \/ c.peer # rtcPeer
  BY <1>1 DEF Links!Begin
<1>4. SocketTypes' /\ SocketsComeBack'
  BY <1>0, <1>2 DEF SocketTypes, SocketsComeBack, Links!FullRtc
<1>5. PeerTypes'
  <2>1. b(what, hit) \in LinkCallback /\ LinkCallback' = LinkCallback
    BY <1>0, <1>1, <1>2 DEF LinkCallback, PeerTypes
  <2>2. channel' \in [Links!Roles -> {"none", "negotiated", "open", "closed"}]
    BY <1>0, <1>1 DEF PeerTypes
  <2> QED  BY <1>0, <1>2, <1>3, <2>1, <2>2 DEF PeerTypes
<1>6. \A q \in Links!Roles : channel'[q] = IF q = r THEN to ELSE channel[q]
  BY <1>0, <1>1 DEF PeerTypes
<1>7. \A c \in callbacks : c.role \in Links!Roles
  BY <1>0 DEF PeerTypes, LinkCallback
<1>8. ChannelsAre'
  BY <1>0, <1>1, <1>2, <1>3, <1>6, <1>7 DEF ChannelsAre
<1>9. FlagsAre'
  <2> SUFFICES ASSUME NEW q \in Links!Roles, rtcFlag[q], q \notin overtaken
               PROVE  /\ ~stopping /\ rtcPeer # 0 /\ slot[q] = rtcPeer
                      /\ \/ channel'[q] = "open"
                         \/ \E c \in callbacks' : c.role = q /\ c.kind = "closed" /\ c.hit
    BY <1>2 DEF FlagsAre
  <2>1. /\ ~stopping /\ rtcPeer # 0 /\ slot[q] = rtcPeer
        /\ \/ channel[q] = "open"
           \/ \E c \in callbacks : c.role = q /\ c.kind = "closed" /\ c.hit
    BY <1>0 DEF FlagsAre
  <2>2. b(what, hit) \in callbacks' /\ b(what, hit).role = r /\ b(what, hit).kind = what
        /\ b(what, hit).hit = hit /\ callbacks \subseteq callbacks'
    BY <1>3
  <2> QED  BY <1>1, <1>6, <2>1, <2>2
<1> QED  BY <1>4, <1>5, <1>8, <1>9 DEF LinksIInv

\* A channel that reports an error has the fallback looked at again.
LEMMA ErrorStep ==
    ASSUME LinksIInv, NEW r \in Links!Roles, Links!ErrorCallback(r)
    PROVE  LinksIInv'
<1>1. /\ UNCHANGED <<watching, sock, offered, retry, rtcPeer, peers, stopping, slot, rtcFlag, overtaken,
                     channel, callbacks>>
      /\ updates' = updates + 1 /\ updates \in Nat
  BY DEF Links!ErrorCallback, Links!Threads, Links!Library, LinksIInv, SocketTypes
<1>2. SocketTypes' /\ SocketsComeBack'
  BY <1>1 DEF LinksIInv, SocketTypes, SocketsComeBack, Links!FullRtc
<1>3. PeerTypes' /\ ChannelsAre' /\ FlagsAre'
  BY <1>1 DEF LinksIInv, PeerTypes, LinkCallback, ChannelsAre, FlagsAre
<1> QED  BY <1>2, <1>3 DEF LinksIInv

\* A callback does what it decided, whatever became of its peer.
LEMMA CallbackStep ==
    ASSUME LinksIInv, Links!Callback
    PROVE  LinksIInv'
<1>0. SocketTypes /\ PeerTypes /\ SocketsComeBack /\ ChannelsAre /\ FlagsAre
  BY DEF LinksIInv
<1>1. PICK c \in callbacks : /\ callbacks' = callbacks \ {c}
                             /\ Links!TakeSlot(c) \/ Links!SetFlag(c) \/ Links!ClearFlag(c)
  BY DEF Links!Callback
<1>2. UNCHANGED <<watching, sock, offered, retry, rtcPeer, peers, stopping>>
  BY DEF Links!Callback, Links!Threads
<1>3. /\ c.role \in Links!Roles /\ c.peer \in Nat /\ c.peer # 0
      /\ callbacks' \subseteq LinkCallback' /\ callbacks' \subseteq callbacks
      /\ \A d \in callbacks : d.role \in Links!Roles
  BY <1>0, <1>1, <1>2 DEF PeerTypes, LinkCallback
<1>4. CASE Links!TakeSlot(c)
  <2>1. /\ c.kind = "channel" /\ UNCHANGED <<rtcFlag, updates, overtaken>>
        /\ slot' = [slot EXCEPT ![c.role] = IF c.hit /\ @ = 0 THEN c.peer ELSE @]
        /\ channel' = IF c.peer = rtcPeer /\ slot'[c.role] # rtcPeer
                      THEN [channel EXCEPT ![c.role] = "closed"] ELSE channel
    BY <1>4 DEF Links!TakeSlot
  <2>2. SocketTypes' /\ SocketsComeBack'
    BY <1>0, <1>2, <2>1 DEF SocketTypes, SocketsComeBack, Links!FullRtc
  <2>3. slot' \in [Links!Roles -> Nat]
    BY <1>0, <1>3, <2>1 DEF PeerTypes
  <2>4. channel' \in [Links!Roles -> {"none", "negotiated", "open", "closed"}]
    BY <1>0, <2>1 DEF PeerTypes
  <2>5. PeerTypes'
    BY <1>0, <1>2, <1>3, <2>1, <2>3, <2>4 DEF PeerTypes
  <2>6. /\ \A q \in Links!Roles : slot[q] # 0 => slot'[q] = slot[q]
        /\ \A q \in Links!Roles : \/ channel'[q] = channel[q]
                                  \/ q = c.role /\ c.peer = rtcPeer /\ slot'[q] # rtcPeer
    <3>1. \A q \in Links!Roles :
             slot'[q] = IF q = c.role THEN IF c.hit /\ slot[q] = 0 THEN c.peer ELSE slot[q] ELSE slot[q]
      BY <1>0, <2>1 DEF PeerTypes
    <3>4. \A q \in Links!Roles : slot[q] # 0 => slot'[q] = slot[q]
      BY <3>1
    <3>2. CASE c.peer = rtcPeer /\ slot'[c.role] # rtcPeer
      <4>1. \A q \in Links!Roles : q # c.role => channel'[q] = channel[q]
        BY <1>0, <2>1, <3>2 DEF PeerTypes
      <4>2. ASSUME NEW q \in Links!Roles
            PROVE  channel'[q] = channel[q] \/ (q = c.role /\ c.peer = rtcPeer /\ slot'[q] # rtcPeer)
        BY <3>2, <4>1
      <4> QED  BY <3>4, <4>2
    <3>3. CASE ~(c.peer = rtcPeer /\ slot'[c.role] # rtcPeer)
      
      <4>1. channel' = channel
        BY <2>1, <3>3
      <4> QED  BY <3>4, <4>1
    <3> QED  BY <3>2, <3>3
  <2>7. ChannelsAre'
    BY <1>0, <1>1, <1>2, <1>3, <2>1, <2>6 DEF ChannelsAre
  <2>8. FlagsAre'
    <3> SUFFICES ASSUME NEW q \in Links!Roles, rtcFlag[q], q \notin overtaken
                 PROVE  /\ ~stopping /\ rtcPeer # 0 /\ slot'[q] = rtcPeer
                        /\ \/ channel'[q] = "open"
                           \/ \E d \in callbacks' : d.role = q /\ d.kind = "closed" /\ d.hit
      BY <1>2, <2>1 DEF FlagsAre
    <3>1. /\ ~stopping /\ rtcPeer # 0 /\ slot[q] = rtcPeer
          /\ \/ channel[q] = "open"
             \/ \E d \in callbacks : d.role = q /\ d.kind = "closed" /\ d.hit
      BY <1>0 DEF FlagsAre
    <3> QED  BY <1>1, <2>1, <2>6, <3>1
  <2> QED  BY <2>2, <2>5, <2>7, <2>8 DEF LinksIInv
<1>5. CASE Links!SetFlag(c)
  <2>1. /\ c.kind = "open" /\ rtcFlag' = [rtcFlag EXCEPT ![c.role] = TRUE] /\ updates' = updates + 1
        /\ overtaken' = IF stopping \/ c.peer # rtcPeer THEN overtaken \cup {c.role}
                        ELSE overtaken \ {c.role}
        /\ UNCHANGED <<slot, channel>>
    BY <1>5 DEF Links!SetFlag
  <2>2. SocketTypes' /\ SocketsComeBack'
    BY <1>0, <1>2, <2>1 DEF SocketTypes, SocketsComeBack
  <2>3. PeerTypes' /\ ChannelsAre'
    <3>1. rtcFlag' \in [Links!Roles -> BOOLEAN]
      BY <1>0, <2>1 DEF PeerTypes
    <3> QED  BY <1>0, <1>2, <1>3, <2>1, <3>1 DEF PeerTypes, ChannelsAre
  <2>4. FlagsAre'
    <3> SUFFICES ASSUME NEW q \in Links!Roles, rtcFlag'[q], q \notin overtaken'
                 PROVE  /\ ~stopping /\ rtcPeer # 0 /\ slot[q] = rtcPeer
                        /\ \/ channel[q] = "open"
                           \/ \E d \in callbacks' : d.role = q /\ d.kind = "closed" /\ d.hit
      BY <1>2, <2>1 DEF FlagsAre
    <3>1. CASE q = c.role
      <4>1. ~stopping /\ c.peer = rtcPeer
        BY <2>1, <3>1
      <4> QED  BY <1>0, <1>3, <2>1, <3>1, <4>1 DEF ChannelsAre
    <3>2. CASE q # c.role
      <4>1. rtcFlag[q] /\ q \notin overtaken
        BY <1>0, <2>1, <3>2 DEF PeerTypes
      <4>2. /\ ~stopping /\ rtcPeer # 0 /\ slot[q] = rtcPeer
            /\ \/ channel[q] = "open"
               \/ \E d \in callbacks : d.role = q /\ d.kind = "closed" /\ d.hit
        BY <1>0, <4>1 DEF FlagsAre
      <4> QED  BY <1>1, <3>2, <4>2
    <3> QED  BY <3>1, <3>2
  <2> QED  BY <2>2, <2>3, <2>4 DEF LinksIInv
<1>6. CASE Links!ClearFlag(c)
  <2>1. /\ c.kind = "closed" /\ updates' = updates + 1
        /\ rtcFlag' = IF c.hit THEN [rtcFlag EXCEPT ![c.role] = FALSE] ELSE rtcFlag
        /\ UNCHANGED <<slot, channel, overtaken>>
    BY <1>6 DEF Links!ClearFlag
  <2>2. SocketTypes' /\ SocketsComeBack'
    BY <1>0, <1>2, <2>1 DEF SocketTypes, SocketsComeBack
  <2>3. PeerTypes' /\ ChannelsAre'
    <3>1. rtcFlag' \in [Links!Roles -> BOOLEAN]
      BY <1>0, <2>1 DEF PeerTypes
    <3> QED  BY <1>0, <1>2, <1>3, <2>1, <3>1 DEF PeerTypes, ChannelsAre
  <2>4. FlagsAre'
    <3> SUFFICES ASSUME NEW q \in Links!Roles, rtcFlag'[q], q \notin overtaken
                 PROVE  /\ ~stopping /\ rtcPeer # 0 /\ slot[q] = rtcPeer
                        /\ \/ channel[q] = "open"
                           \/ \E d \in callbacks' : d.role = q /\ d.kind = "closed" /\ d.hit
      BY <1>2, <2>1 DEF FlagsAre
    <3>1. rtcFlag[q] /\ (c.hit => q # c.role)
      BY <1>0, <2>1 DEF PeerTypes
    <3>2. /\ ~stopping /\ rtcPeer # 0 /\ slot[q] = rtcPeer
          /\ \/ channel[q] = "open"
             \/ \E d \in callbacks : d.role = q /\ d.kind = "closed" /\ d.hit
      BY <1>0, <3>1 DEF FlagsAre
    <3> QED  BY <1>1, <3>1, <3>2
  <2> QED  BY <2>2, <2>3, <2>4 DEF LinksIInv
<1> QED  BY <1>1, <1>4, <1>5, <1>6

\* Every step of the composition keeps the invariant.
LEMMA LinksStep == LinksIInv /\ [Next]_vars => LinksIInv'
<1> SUFFICES ASSUME LinksIInv, [Next]_vars PROVE LinksIInv'
  OBVIOUS
<1>1. CASE LinksNext
  BY <1>1, SocketsStep, SignalStep, StopStep, BeginStep, ErrorStep, CallbackStep
     DEF LinksNext, Links!LinksNext
<1>2. CASE UNCHANGED linksVars
  BY <1>2 DEF linksVars, LinksIInv, SocketTypes, PeerTypes, LinkCallback, SocketsComeBack, ChannelsAre,
              FlagsAre, Links!FullRtc
<1> QED  BY <1>1, <1>2 DEF Next, vars, MountNext, TableNext, SessionNext, LoaderNext, CanonNext, SdkNext,
         FocusNext, RecNext, IndiNext, NetNext, SolveNext, HandNext, VideoNext

\* A remote client finds its way back to the events, the signaling and the
\* frames of both roles, whichever sockets and channels fail, and how often.
THEOREM LinksComeBack == Spec => []LinksHold
<1>1. Init => LinksIInv
  BY LinksInitInv DEF Init
<1>2. LinksIInv => LinksHold
  <2> SUFFICES ASSUME LinksIInv, Links!Settled, watching
               PROVE  /\ sock["events"] = "on" /\ (offered => sock["signal"] = "on")
                      /\ \A r \in Links!Roles : Links!Arrives(r) \/ r \in overtaken
    BY DEF LinksHold, Links!LinksHold
  <2>1. /\ ~retry /\ updates = 0 /\ ~stopping /\ callbacks = {}
        /\ \A s \in Links!Sockets : sock[s] \in {"off", "on"}
    BY DEF Links!Settled
  <2>2. /\ sock["events"] = "on" /\ (offered => sock["signal"] = "on")
        /\ ~Links!FullRtc => sock["video"] = "on"
    BY <2>1, SocketsAre DEF LinksIInv, SocketsComeBack
  <2>3. ASSUME NEW r \in Links!Roles PROVE Links!Arrives(r) \/ r \in overtaken
    <3>1. CASE rtcFlag[r]
      BY <2>1, <3>1 DEF LinksIInv, FlagsAre, Links!Arrives
    <3>2. CASE ~rtcFlag[r]
      BY <2>2, <3>2 DEF Links!FullRtc, Links!Arrives
    <3> QED  BY <3>1, <3>2
  <2> QED  BY <2>2, <2>3
<1> QED  BY <1>1, <1>2, LinksStep, PTL DEF Spec

-----------------------------------------------------------------------------
(* VideoStream: the newest frame goes out, and what is shown is one frame. *)

Videos == [frame : Nat \ {0}, seq : Nat, len : Lengths, start : Nat, scheduled : BOOLEAN]
VideoCalls == [do : {"flush"}, video : {Video!NoVideo}] \cup [do : {"send"}, video : Videos]
VideoPieces == [frame : Nat, seq : Nat, len : Lengths, start : Nat, i : 1 .. Fragments]
Assemblies == [seq : Nat, len : Lengths \cup {0}, start : Nat, got : SUBSET (Nat \X (1 .. Fragments))]

StreamTypes ==
    /\ latest \in Videos \cup {Video!NoVideo} /\ encoding \subseteq Videos
    /\ flushes \in Seq(VideoCalls) /\ flying \subseteq VideoPieces /\ posted \in Seq(VideoPieces)
    /\ sent \in Nat /\ offers \in Nat /\ stops \in Nat /\ sent <= offers
    /\ assembly \in Assemblies

\* The start of a video or fragment, and its sequence number, tell its frame; n were offered.
Numbered(x, n) == x.frame = x.start + x.seq /\ x.frame <= n
NumbersTell ==
    /\ latest # Video!NoVideo => latest.frame = offers /\ Numbered(latest, offers)
    /\ \A v \in encoding : Numbered(v, offers)
    /\ \A n \in 1 .. Len(flushes) :
          flushes[n].do = "send" => Numbered(flushes[n].video, offers)
    /\ \A p \in flying : Numbered(p, offers)
    /\ \A n \in 1 .. Len(posted) : Numbered(posted[n], offers)
    /\ ~leftover => \A g \in assembly.got : g[1] = assembly.start + assembly.seq

\* A frame that was not sent, or is scheduled, has a call or an encoding of its start.
OnItsWay ==
    \/ \E n \in 1 .. Len(flushes) : flushes[n].do = "send" => flushes[n].video.start = latest.start
    \/ \E v \in encoding : v.start = latest.start
GoesOut ==
    latest # Video!NoVideo /\ (latest.scheduled \/ latest.frame # sent) => OnItsWay

Whole == ~leftover => displayed = {} \/ \E f \in Nat : displayed = {f}

StreamIInv == StreamTypes /\ NumbersTell /\ GoesOut /\ Whole

\* A frame that was offered is none of those that do not exist, and keeps its numbers
\* when it is no longer scheduled.
LEMMA VideoIs ==
    /\ \A v \in Videos : v # Video!NoVideo
    /\ Video!NoVideo.scheduled = FALSE
    /\ \A v \in Videos : LET w == [v EXCEPT !.scheduled = FALSE] IN
          w \in Videos /\ w.frame = v.frame /\ w.seq = v.seq /\ w.start = v.start /\ w.scheduled = FALSE
<1>1. \A v \in Videos : v # Video!NoVideo
  BY DEF Videos, Video!NoVideo
<1>2. Video!NoVideo.scheduled = FALSE
  BY DEF Video!NoVideo
<1>3. ASSUME NEW v \in Videos
      PROVE  LET w == [v EXCEPT !.scheduled = FALSE] IN
             w \in Videos /\ w.frame = v.frame /\ w.seq = v.seq /\ w.start = v.start /\ w.scheduled = FALSE
  BY DEF Videos
<1> QED  BY <1>1, <1>2, <1>3

\* What stays in a queue, and what joins it.
LEMMA QueueKeeps ==
    ASSUME NEW S, NEW q \in Seq(S)
    PROVE  /\ \A x \in S : LET r == Append(q, x) IN
                 r \in Seq(S) /\ Len(r) = Len(q) + 1 /\ r[Len(r)] = x /\ \A n \in 1 .. Len(q) : r[n] = q[n]
           /\ q # <<>> => /\ Tail(q) \in Seq(S) /\ Len(Tail(q)) = Len(q) - 1 /\ Len(q) > 0 /\ Head(q) = q[1]
                          /\ \A n \in 1 .. Len(Tail(q)) : Tail(q)[n] = q[n + 1] /\ n + 1 \in 1 .. Len(q)
  OBVIOUS

\* The server that starts has sent nothing.
LEMMA StreamInitInv == Video!VideoInit => StreamIInv
<1> SUFFICES ASSUME Video!VideoInit PROVE StreamIInv
  OBVIOUS
<1>1. /\ latest = Video!NoVideo /\ flushes = <<>> /\ encoding = {} /\ sent = 0
      /\ flying = {} /\ posted = <<>> /\ assembly = Video!NoAssembly /\ displayed = {}
      /\ offers = 0 /\ stops = 0
  BY DEF Video!VideoInit
<1>2. assembly \in Assemblies /\ assembly.got = {}
  BY <1>1 DEF Video!NoAssembly, Assemblies
<1>3. StreamTypes
  BY <1>1, <1>2 DEF StreamTypes
<1>4. NumbersTell /\ GoesOut /\ Whole
  BY <1>1, <1>2 DEF NumbersTell, GoesOut, Whole
<1> QED  BY <1>3, <1>4 DEF StreamIInv

\* The channel opens, a fragment is lost on its way, or arrives.
LEMMA StreamLinkStep ==
    ASSUME StreamIInv, Video!Open \/ Video!Lose \/ Video!Receive
    PROVE  StreamIInv'
<1>0. StreamTypes /\ NumbersTell /\ GoesOut /\ Whole
  BY DEF StreamIInv
<1>1. /\ UNCHANGED <<latest, flushes, encoding, sent, offers, stops, assembly, displayed, leftover>>
      /\ \/ UNCHANGED <<flying, posted>>
         \/ flying' \subseteq flying /\ posted' = posted
         \/ \E p \in flying : flying' = flying \ {p} /\ posted' = Append(posted, p)
  BY DEF Video!Open, Video!Lose, Video!Receive, Video!Client
<1>2. posted' = posted \/ \E p \in flying : posted' = Append(posted, p)
  BY <1>1
<1>3. /\ flying' \subseteq flying /\ posted' \in Seq(VideoPieces)
      /\ \A n \in 1 .. Len(posted') :
            (n \in 1 .. Len(posted) /\ posted'[n] = posted[n]) \/ posted'[n] \in flying
  <2>1. posted \in Seq(VideoPieces) /\ flying \subseteq VideoPieces
    BY <1>0 DEF StreamTypes
  <2>2. CASE posted' = posted
    BY <1>1, <2>1, <2>2
  <2>3. ASSUME NEW p \in flying, posted' = Append(posted, p) PROVE <1>3!:
    <3>1. p \in VideoPieces
      BY <2>1
    <3>2. /\ posted' \in Seq(VideoPieces) /\ Len(posted') = Len(posted) + 1
          /\ posted'[Len(posted')] = p /\ \A n \in 1 .. Len(posted) : posted'[n] = posted[n]
      BY <2>1, <2>3, <3>1, QueueKeeps
    <3> QED  BY <1>1, <2>1, <3>2
  <2> QED  BY <1>2, <2>2, <2>3
<1>5. StreamTypes' 
  BY <1>0, <1>1, <1>3 DEF StreamTypes
<1>6. NumbersTell'
  BY <1>0, <1>1, <1>3 DEF NumbersTell, Numbered
<1>7. GoesOut' /\ Whole'
  BY <1>0, <1>1 DEF GoesOut, OnItsWay, Whole
<1> QED  BY <1>5, <1>6, <1>7 DEF StreamIInv

\* A frame is offered: it is the latest one, and a flush is posted unless one waits.
LEMMA StreamOfferStep ==
    ASSUME StreamIInv, Video!Offer
    PROVE  StreamIInv'
<1>0. StreamTypes /\ NumbersTell /\ GoesOut /\ Whole
  BY DEF StreamIInv
<1>1. PICK len \in Lengths :
        latest' = [frame |-> offers + 1, seq |-> latest.seq + 1, len |-> len,
                   start |-> IF latest = Video!NoVideo THEN offers ELSE latest.start, scheduled |-> TRUE]
  BY DEF Video!Offer
<1>2. /\ flushes' = IF latest.scheduled THEN flushes ELSE Append(flushes, Video!Flush)
      /\ offers' = offers + 1
      /\ UNCHANGED <<encoding, sent, flying, stops, posted, assembly, displayed, leftover>>
  BY DEF Video!Offer, Video!Node
<1>3. /\ latest.seq \in Nat /\ latest.frame \in Nat /\ latest.start \in Nat /\ offers \in Nat
      /\ latest = Video!NoVideo => latest.seq = 0
  BY <1>0 DEF StreamTypes, Videos, Video!NoVideo
<1>4. latest' \in Videos /\ latest' # Video!NoVideo
  <2>1. latest' \in Videos
    BY <1>1, <1>3 DEF Videos
  <2> QED  BY <2>1, VideoIs
<1>5. latest'.frame = offers + 1 /\ Numbered(latest', offers + 1) /\ (latest # Video!NoVideo => latest'.start = latest.start)
  <2>1. CASE latest = Video!NoVideo
    BY <1>1, <1>3, <2>1 DEF Numbered
  <2>2. CASE latest # Video!NoVideo
    <3>1. latest.frame = offers /\ latest.frame = latest.start + latest.seq
      BY <1>0, <2>2 DEF NumbersTell, Numbered
    <3>2. latest'.frame = offers + 1 /\ latest'.seq = latest.seq + 1 /\ latest'.start = latest.start
      BY <1>1, <2>2
    <3>3. offers + 1 = latest.start + (latest.seq + 1)
      BY <1>3, <3>1
    <3> QED  BY <1>3, <3>2, <3>3 DEF Numbered
  <2> QED  BY <2>1, <2>2
<1>6. Video!Flush \in VideoCalls /\ Video!Flush.do = "flush"
  BY DEF VideoCalls, Video!Flush
<1>7. StreamTypes'
  <2>1. flushes' \in Seq(VideoCalls)
    BY <1>0, <1>2, <1>6, QueueKeeps DEF StreamTypes
  <2> QED  BY <1>0, <1>2, <1>4, <2>1 DEF StreamTypes
<1>8. ASSUME NEW x, x.frame \in Nat, Numbered(x, offers) PROVE Numbered(x, offers')
  BY <1>2, <1>3, <1>8 DEF Numbered
<1>9. NumbersTell'
  <2>1. \A v \in encoding : Numbered(v, offers')
    BY <1>0, <1>8 DEF StreamTypes, NumbersTell, Videos
  <2>2. \A p \in flying : Numbered(p, offers')
    BY <1>0, <1>8 DEF StreamTypes, NumbersTell, VideoPieces
  <2>3. ASSUME NEW n \in 1 .. Len(posted) PROVE Numbered(posted[n], offers')
    <3>1. posted[n] \in VideoPieces /\ Numbered(posted[n], offers)
      BY <1>0 DEF StreamTypes, NumbersTell
    <3> QED  BY <1>8, <3>1 DEF VideoPieces
  <2>4. ASSUME NEW n \in 1 .. Len(flushes'), flushes'[n].do = "send"
        PROVE  Numbered(flushes'[n].video, offers')
    <3>1. n \in 1 .. Len(flushes) /\ flushes'[n] = flushes[n]
      BY <1>0, <1>2, <1>6, <2>4, QueueKeeps DEF StreamTypes
    <3>2. flushes[n] \in VideoCalls /\ Numbered(flushes[n].video, offers)
      BY <1>0, <2>4, <3>1 DEF StreamTypes, NumbersTell
    <3>3. flushes[n].video \in Videos
      BY <2>4, <3>1, <3>2 DEF VideoCalls
    <3>4. Numbered(flushes[n].video, offers')
      BY <1>8, <3>2, <3>3 DEF Videos
    <3> QED  BY <3>1, <3>4
  <2>5. ~leftover => \A g \in assembly.got : g[1] = assembly.start + assembly.seq
    BY <1>0 DEF NumbersTell
  <2>6. latest' # Video!NoVideo => latest'.frame = offers' /\ Numbered(latest', offers')
    BY <1>2, <1>5
  <2>7. \A n \in 1 .. Len(posted') : Numbered(posted'[n], offers')
    BY <1>2, <2>3
  <2> QED  BY <1>2, <1>4, <2>1, <2>2, <2>4, <2>5, <2>6, <2>7 DEF NumbersTell
<1>10. OnItsWay'
  <2>1. CASE latest.scheduled
    <3>1. OnItsWay
      BY <1>0, <2>1, VideoIs DEF GoesOut
    <3>2. latest'.start = latest.start
      BY <1>5, <2>1, VideoIs
    <3> QED  BY <1>2, <2>1, <3>1, <3>2 DEF OnItsWay
  <2>2. CASE ~latest.scheduled
    BY <1>0, <1>2, <1>6, <2>2, QueueKeeps DEF OnItsWay, StreamTypes
  <2> QED  BY <2>1, <2>2
<1> QED  BY <1>0, <1>2, <1>7, <1>9, <1>10 DEF StreamIInv, GoesOut, Whole

\* What remains of a queue that loses its first call.
LEMMA CallsAfter ==
    ASSUME StreamTypes, flushes # <<>>
    PROVE  /\ Head(flushes) \in VideoCalls /\ Tail(flushes) \in Seq(VideoCalls)
           /\ Head(flushes) = flushes[1] /\ 1 \in 1 .. Len(flushes)
           /\ Head(flushes).do = "send" => Head(flushes).video \in Videos
           /\ \A n \in 1 .. Len(Tail(flushes)) : n + 1 \in 1 .. Len(flushes) /\ Tail(flushes)[n] = flushes[n + 1]
           /\ \A n \in 1 .. Len(flushes) : n = 1 \/ (n - 1 \in 1 .. Len(Tail(flushes)) /\ Tail(flushes)[n - 1] = flushes[n])
<1>1. flushes \in Seq(VideoCalls)
  BY DEF StreamTypes
<1>2. Head(flushes) \in VideoCalls /\ Head(flushes) = flushes[1] /\ 1 \in 1 .. Len(flushes)
  BY <1>1
<1>3. /\ Tail(flushes) \in Seq(VideoCalls)
      /\ \A n \in 1 .. Len(Tail(flushes)) : n + 1 \in 1 .. Len(flushes) /\ Tail(flushes)[n] = flushes[n + 1]
  BY <1>1, QueueKeeps
<1>4. \A n \in 1 .. Len(flushes) : n = 1 \/ (n - 1 \in 1 .. Len(Tail(flushes)) /\ Tail(flushes)[n - 1] = flushes[n])
  BY <1>1
<1>5. Head(flushes).do = "send" => Head(flushes).video \in Videos
  BY <1>2 DEF VideoCalls
<1> QED  BY <1>2, <1>3, <1>4, <1>5

\* The latest frame begins to be encoded.
LEMMA StreamFlushStep ==
    ASSUME StreamIInv, Video!FlushVideo
    PROVE  StreamIInv'
<1>0. StreamTypes /\ NumbersTell /\ GoesOut /\ Whole
  BY DEF StreamIInv
<1>1. /\ flushes # <<>> /\ Head(flushes).do = "flush" /\ flushes' = Tail(flushes)
      /\ UNCHANGED <<latest, sent, flying, offers, stops, posted, assembly, displayed, leftover>>
      /\ encoding' = IF latest = Video!NoVideo THEN encoding
                     ELSE encoding \cup {[latest EXCEPT !.scheduled = FALSE]}
  BY DEF Video!FlushVideo, Video!Node
<1> DEFINE w == [latest EXCEPT !.scheduled = FALSE]
<1>2. latest # Video!NoVideo => /\ w \in Videos /\ w.frame = latest.frame /\ w.seq = latest.seq /\ w.start = latest.start
                               /\ Numbered(latest, offers)
  BY <1>0, VideoIs DEF StreamTypes, NumbersTell
<1>3. encoding' \subseteq Videos /\ \A v \in encoding' : v \in encoding \/ (latest # Video!NoVideo /\ v = w)
  BY <1>0, <1>1, <1>2 DEF StreamTypes
<1>4. /\ flushes' \in Seq(VideoCalls)
      /\ \A n \in 1 .. Len(flushes') : n + 1 \in 1 .. Len(flushes) /\ flushes'[n] = flushes[n + 1]
  BY <1>0, <1>1, CallsAfter
<1>5. StreamTypes'
  BY <1>0, <1>1, <1>3, <1>4 DEF StreamTypes
<1>6. latest # Video!NoVideo => Numbered(w, offers)
  <2> HIDE DEF w
  <2> QED  BY <1>2 DEF Numbered
<1>7. NumbersTell'
  <2>1. \A v \in encoding' : Numbered(v, offers)
    BY <1>0, <1>3, <1>6 DEF NumbersTell
  <2>2. \A n \in 1 .. Len(flushes') : flushes'[n].do = "send" => Numbered(flushes'[n].video, offers)
    BY <1>0, <1>4 DEF NumbersTell
  <2> QED  BY <1>0, <1>1, <2>1, <2>2 DEF NumbersTell
<1>8. latest # Video!NoVideo => OnItsWay'
  BY <1>1, <1>2 DEF OnItsWay
<1> QED  BY <1>0, <1>1, <1>5, <1>7, <1>8 DEF StreamIInv, GoesOut, Whole

\* An encoded frame waits to be sent.
LEMMA StreamEncodeStep ==
    ASSUME StreamIInv, Video!Encode
    PROVE  StreamIInv'
<1>0. StreamTypes /\ NumbersTell /\ GoesOut /\ Whole
  BY DEF StreamIInv
<1>1. PICK video \in encoding : encoding' = encoding \ {video} /\ flushes' = Append(flushes, Video!Send(video))
  BY DEF Video!Encode
<1>2. UNCHANGED <<latest, sent, flying, offers, stops, posted, assembly, displayed, leftover>>
  BY DEF Video!Encode, Video!Node
<1>3. Video!Send(video) \in VideoCalls /\ Video!Send(video).do = "send" /\ Video!Send(video).video = video
  BY <1>0 DEF StreamTypes, VideoCalls, Video!Send
<1>4. /\ flushes' \in Seq(VideoCalls) /\ Len(flushes') = Len(flushes) + 1 /\ flushes'[Len(flushes')] = Video!Send(video)
      /\ \A n \in 1 .. Len(flushes) : flushes'[n] = flushes[n]
  BY <1>0, <1>1, <1>3, QueueKeeps DEF StreamTypes
<1>5. StreamTypes'
  BY <1>0, <1>1, <1>2, <1>4 DEF StreamTypes
<1>6. Len(flushes) \in Nat
  BY <1>0 DEF StreamTypes
<1>7. \A n \in 1 .. Len(flushes') : n \in 1 .. Len(flushes) \/ flushes'[n] = Video!Send(video)
  BY <1>4, <1>6
<1>8. NumbersTell'
  <2>1. \A n \in 1 .. Len(flushes') : flushes'[n].do = "send" => Numbered(flushes'[n].video, offers)
    BY <1>0, <1>1, <1>3, <1>4, <1>7 DEF NumbersTell
  <2> QED  BY <1>0, <1>1, <1>2, <2>1 DEF NumbersTell
<1>9. OnItsWay => OnItsWay'
  <2>1. ASSUME NEW n \in 1 .. Len(flushes), flushes[n].do = "send" => flushes[n].video.start = latest.start
        PROVE  OnItsWay'
    <3>1. n \in 1 .. Len(flushes') /\ flushes'[n] = flushes[n]
      BY <1>4, <1>6
    <3> QED  BY <1>2, <2>1, <3>1 DEF OnItsWay
  <2>2. ASSUME NEW v \in encoding, v.start = latest.start PROVE OnItsWay'
    <3>1. CASE v = video
      <4>1. Len(flushes') \in 1 .. Len(flushes') /\ flushes'[Len(flushes')].video.start = latest'.start
        BY <1>2, <1>3, <1>4, <1>6, <2>2, <3>1
      <4> QED  BY <4>1 DEF OnItsWay
    <3>2. CASE v # video
      BY <1>1, <1>2, <2>2, <3>2 DEF OnItsWay
    <3> QED  BY <3>1, <3>2
  <2> QED  BY <2>1, <2>2 DEF OnItsWay
<1> QED  BY <1>0, <1>2, <1>5, <1>8, <1>9 DEF StreamIInv, GoesOut, Whole

\* What a start of the server left over is not of the next one.
LEMMA StreamStopStep ==
    ASSUME StreamIInv, Video!StopServer
    PROVE  StreamIInv'
<1>0. StreamTypes /\ NumbersTell /\ GoesOut /\ Whole
  BY DEF StreamIInv
<1>1. /\ stops' = stops + 1 /\ latest' = Video!NoVideo /\ flying' = {} /\ assembly' = Video!NoAssembly
      /\ UNCHANGED <<flushes, encoding, sent, offers, posted, displayed, leftover>>
  BY DEF Video!StopServer
<1>2. assembly' \in Assemblies /\ assembly'.got = {}
  BY <1>1 DEF Video!NoAssembly, Assemblies
<1>3. StreamTypes'
  BY <1>0, <1>1, <1>2 DEF StreamTypes
<1>4. NumbersTell'
  BY <1>0, <1>1, <1>2 DEF NumbersTell
<1> QED  BY <1>0, <1>1, <1>3, <1>4 DEF StreamIInv, GoesOut, Whole

\* A frame is sent; if a newer one came meanwhile, a flush follows.
LEMMA StreamSendStep ==
    ASSUME StreamIInv, Video!SendEncoded
    PROVE  StreamIInv'
<1>0. StreamTypes /\ NumbersTell /\ GoesOut /\ Whole
  BY DEF StreamIInv
<1> DEFINE video == Head(flushes).video
           w == [latest EXCEPT !.scheduled = FALSE]
<1>1. /\ flushes # <<>> /\ Head(flushes).do = "send"
      /\ sent' = IF video.frame > sent THEN video.frame ELSE sent
      /\ flying' = flying \/ flying' = flying \cup Video!Pieces(video)
      /\ UNCHANGED <<encoding, offers, stops, posted, assembly, displayed, leftover>>
  BY DEF Video!SendEncoded, Video!Node
<1>2. \/ latest' = latest /\ flushes' = Tail(flushes) /\ latest = Video!NoVideo
      \/ latest' = w /\ flushes' = Tail(flushes) /\ latest # Video!NoVideo /\ latest.seq = video.seq
      \/ latest' = latest /\ flushes' = Append(Tail(flushes), Video!Flush)
  BY DEF Video!SendEncoded, Video!Flushed
<1>3. /\ video \in Videos /\ Head(flushes) = flushes[1] /\ Tail(flushes) \in Seq(VideoCalls)
      /\ 1 \in 1 .. Len(flushes)
      /\ \A n \in 1 .. Len(Tail(flushes)) : n + 1 \in 1 .. Len(flushes) /\ Tail(flushes)[n] = flushes[n + 1]
      /\ \A n \in 1 .. Len(flushes) : n = 1 \/ (n - 1 \in 1 .. Len(Tail(flushes)) /\ Tail(flushes)[n - 1] = flushes[n])
  BY <1>0, <1>1, CallsAfter
<1>4. /\ Numbered(video, offers) /\ video.frame \in Nat /\ video.seq \in Nat /\ video.start \in Nat
  BY <1>0, <1>1, <1>3 DEF NumbersTell, Videos
<1>5. /\ latest # Video!NoVideo => latest \in Videos /\ latest.frame = offers /\ Numbered(latest, offers)
      /\ latest # Video!NoVideo => /\ w \in Videos /\ w.frame = latest.frame /\ w.seq = latest.seq /\ w.start = latest.start
                                   /\ w # Video!NoVideo /\ w.scheduled = FALSE
      /\ sent \in Nat /\ offers \in Nat /\ stops \in Nat /\ sent <= offers
  BY <1>0, VideoIs DEF StreamTypes, Videos, NumbersTell
<1> DEFINE f == video.frame
<1> HIDE DEF video, w, f
<1>6. sent' \in Nat /\ sent' <= offers /\ sent <= sent' /\ video.frame <= sent'
  <2>1. f \in Nat /\ f <= offers /\ sent' = IF f > sent THEN f ELSE sent
    BY <1>1, <1>4 DEF Numbered, f
  <2>2. sent' \in Nat /\ sent' <= offers /\ sent <= sent' /\ f <= sent'
    BY <1>5, <2>1
  <2> QED  BY <2>2 DEF f
<1>7. /\ latest' \in Videos \cup {Video!NoVideo} /\ (latest' = Video!NoVideo <=> latest = Video!NoVideo)
      /\ latest'.frame = latest.frame /\ latest'.seq = latest.seq /\ latest'.start = latest.start
  BY <1>0, <1>2, <1>5 DEF StreamTypes
<1>8. Video!Flush \in VideoCalls /\ Video!Flush.do = "flush"
  BY DEF VideoCalls, Video!Flush
<1>9. /\ flushes' \in Seq(VideoCalls)
      /\ \A n \in 1 .. Len(Tail(flushes)) : n \in 1 .. Len(flushes') /\ flushes'[n] = Tail(flushes)[n]
      /\ \A n \in 1 .. Len(flushes') : n \in 1 .. Len(Tail(flushes)) \/ flushes'[n] = Video!Flush
  <2>1. Len(Tail(flushes)) \in Nat
    BY <1>3
  <2>2. CASE flushes' = Tail(flushes)
    BY <1>3, <2>2
  <2>3. CASE flushes' = Append(Tail(flushes), Video!Flush)
    <3>1. /\ flushes' \in Seq(VideoCalls) /\ Len(flushes') = Len(Tail(flushes)) + 1
          /\ flushes'[Len(flushes')] = Video!Flush /\ \A n \in 1 .. Len(Tail(flushes)) : flushes'[n] = Tail(flushes)[n]
      BY <1>3, <1>8, <2>3, QueueKeeps
    <3> QED  BY <2>1, <3>1
  <2> QED  BY <1>2, <2>2, <2>3
<1>10. \A p \in Video!Pieces(video) : /\ p.frame = video.frame /\ p.seq = video.seq /\ p.start = video.start
                                     /\ p \in VideoPieces
  <2> SUFFICES ASSUME NEW p \in Video!Pieces(video)
               PROVE  /\ p.frame = video.frame /\ p.seq = video.seq /\ p.start = video.start
                      /\ p \in VideoPieces
    OBVIOUS
  <2>1. p \in [frame : {video.frame}, seq : {video.seq}, len : {video.len}, start : {video.start}, i : 1 .. Fragments]
    BY DEF Video!Pieces
  <2>2. video.frame \in Nat /\ video.seq \in Nat /\ video.len \in Lengths /\ video.start \in Nat
    BY <1>3 DEF Videos
  <2> QED  BY <2>1, <2>2 DEF VideoPieces
<1>11. StreamTypes'
  <2>1. flying' \subseteq VideoPieces
    BY <1>0, <1>1, <1>10 DEF StreamTypes
  <2> QED  BY <1>0, <1>1, <1>6, <1>7, <1>9, <2>1 DEF StreamTypes
<1>12. offers' = offers
  BY <1>1
<1>13. NumbersTell'
  <2>1. \A p \in flying' : Numbered(p, offers')
    <3>1. \A p \in Video!Pieces(video) : Numbered(p, offers)
      BY <1>4, <1>10 DEF Numbered
    <3>2. \A p \in flying : Numbered(p, offers)
      BY <1>0 DEF NumbersTell
    <3>3. \A p \in flying' : p \in flying \/ p \in Video!Pieces(video)
      BY <1>1
    <3> QED  BY <1>12, <3>1, <3>2, <3>3
  <2>2. ASSUME NEW n \in 1 .. Len(flushes'), flushes'[n].do = "send"
        PROVE  Numbered(flushes'[n].video, offers')
    <3>1. n \in 1 .. Len(Tail(flushes)) /\ flushes'[n] = Tail(flushes)[n]
      BY <1>8, <1>9, <2>2
    <3>2. n + 1 \in 1 .. Len(flushes) /\ flushes'[n] = flushes[n + 1]
      BY <1>3, <3>1
    <3> QED  BY <1>0, <1>12, <2>2, <3>2 DEF NumbersTell
  <2>3. \A v \in encoding' : Numbered(v, offers')
    BY <1>0, <1>1, <1>12 DEF NumbersTell
  <2>4. \A n \in 1 .. Len(posted') : Numbered(posted'[n], offers')
    BY <1>0, <1>1, <1>12 DEF NumbersTell
  <2>5. /\ latest' # Video!NoVideo => latest'.frame = offers' /\ Numbered(latest', offers')
        /\ ~leftover' => \A g \in assembly'.got : g[1] = assembly'.start + assembly'.seq
    BY <1>0, <1>1, <1>7 DEF NumbersTell, Numbered
  <2> QED  BY <2>1, <2>2, <2>3, <2>4, <2>5 DEF NumbersTell
<1>14. GoesOut'
  <2> SUFFICES ASSUME latest' # Video!NoVideo, latest'.scheduled \/ latest'.frame # sent'
               PROVE  OnItsWay'
    BY DEF GoesOut
  <2>1. CASE flushes' = Append(Tail(flushes), Video!Flush)
    <3>1. /\ Len(flushes') = Len(Tail(flushes)) + 1 /\ flushes'[Len(flushes')] = Video!Flush /\ Len(Tail(flushes)) \in Nat
      BY <1>3, <1>8, <2>1, QueueKeeps
    <3>2. Len(flushes') \in 1 .. Len(flushes')
      BY <3>1
    <3> QED  BY <1>8, <3>1, <3>2 DEF OnItsWay
  <2>2. CASE latest' = w /\ flushes' = Tail(flushes) /\ latest # Video!NoVideo /\ latest.seq = video.seq
    <3>1. latest.frame # sent' /\ latest.frame = offers
      BY <1>5, <2>2
    <3>2. latest.frame # sent /\ OnItsWay
      <4>1. latest.frame # sent
        BY <1>5, <1>6, <3>1
      <4> QED  BY <1>0, <2>2, <4>1 DEF GoesOut
    <3>3. video.start # latest.start
      <4> SUFFICES ASSUME video.start = latest.start PROVE FALSE
        OBVIOUS
      <4>1. f = latest.frame
        BY <1>4, <1>5, <2>2 DEF Numbered, f
      <4>2. sent' = offers
        BY <1>5, <1>6, <3>1, <4>1 DEF f
      <4> QED  BY <3>1, <4>2
    <3>4. ASSUME NEW n \in 1 .. Len(flushes), flushes[n].do = "send" => flushes[n].video.start = latest.start PROVE OnItsWay'
      <4>1. n # 1
        BY <1>1, <1>3, <3>3, <3>4 DEF video
      <4>2. n - 1 \in 1 .. Len(flushes') /\ flushes'[n - 1] = flushes[n]
        BY <1>3, <2>2, <4>1
      <4> QED  BY <1>1, <1>7, <3>4, <4>2 DEF OnItsWay
    <3>5. ASSUME NEW v \in encoding, v.start = latest.start PROVE OnItsWay'
      BY <1>1, <1>7, <3>5 DEF OnItsWay
    <3> QED  BY <3>2, <3>4, <3>5 DEF OnItsWay
  <2> QED  BY <1>2, <1>7, <2>1, <2>2
<1> QED  BY <1>0, <1>1, <1>11, <1>13, <1>14 DEF StreamIInv, Whole

\* A fragment is put to those of its frame, and the whole frame is shown.
LEMMA StreamHandleStep ==
    ASSUME StreamIInv, Video!Handle
    PROVE  StreamIInv'
<1>0. StreamTypes /\ NumbersTell /\ GoesOut /\ Whole
  BY DEF StreamIInv
<1> DEFINE piece == Head(posted)
           begun == assembly.got # {}
           base == IF begun /\ Video!SameFrame(piece) THEN assembly
                   ELSE [seq |-> piece.seq, len |-> piece.len, start |-> piece.start, got |-> {}]
           got == IF \E g \in base.got : g[2] = piece.i THEN base.got ELSE base.got \cup {<<piece.frame, piece.i>>}
           next == [base EXCEPT !.got = got]
<1>1. /\ posted # <<>> /\ posted' = Tail(posted) /\ leftover' = (leftover \/ (begun /\ Video!Alike(piece)))
      /\ UNCHANGED <<latest, flushes, encoding, sent, offers, stops, flying>>
      /\ \/ UNCHANGED <<assembly, displayed>>
         \/ assembly' = Video!NoAssembly /\ displayed' = {g[1] : g \in next.got}
         \/ assembly' = next /\ displayed' = displayed
  BY DEF Video!Handle, Video!Client
<1>2. /\ piece \in VideoPieces /\ Tail(posted) \in Seq(VideoPieces) /\ Numbered(piece, offers)
      /\ \A n \in 1 .. Len(Tail(posted)) : n + 1 \in 1 .. Len(posted) /\ Tail(posted)[n] = posted[n + 1]
  <2>1. posted \in Seq(VideoPieces)
    BY <1>0 DEF StreamTypes
  <2>2. piece = posted[1] /\ 1 \in 1 .. Len(posted) /\ piece \in VideoPieces
    BY <1>1, <2>1
  <2>3. /\ Tail(posted) \in Seq(VideoPieces)
        /\ \A n \in 1 .. Len(Tail(posted)) : n + 1 \in 1 .. Len(posted) /\ Tail(posted)[n] = posted[n + 1]
    BY <1>1, <2>1, QueueKeeps
  <2> HIDE DEF piece
  <2> QED  BY <1>0, <2>2, <2>3 DEF NumbersTell
<1>3. piece.frame \in Nat /\ piece.seq \in Nat /\ piece.len \in Lengths /\ piece.i \in 1 .. Fragments /\ piece.start \in Nat
  BY <1>2 DEF VideoPieces
<1>4. assembly \in Assemblies
  BY <1>0 DEF StreamTypes
<1> HIDE DEF piece
<1>5. /\ base \in Assemblies
      /\ base.seq = piece.seq /\ (base.got = {} \/ base = assembly)
      /\ ~leftover' => base.start = piece.start
  <2>1. CASE begun /\ Video!SameFrame(piece)
    BY <1>1, <1>4, <2>1 DEF Video!SameFrame, Video!Alike
  <2>2. CASE ~(begun /\ Video!SameFrame(piece))
    <3>1. base = [seq |-> piece.seq, len |-> piece.len, start |-> piece.start, got |-> {}]
      BY <2>2
    <3> HIDE DEF base
    <3> QED  BY <1>3, <3>1 DEF Assemblies
  <2> QED  BY <2>1, <2>2
<1> HIDE DEF base, begun
<1>6. got \in SUBSET (Nat \X (1 .. Fragments)) /\ \A g \in got : g \in base.got \/ g = <<piece.frame, piece.i>>
  <2>1. base.got \in SUBSET (Nat \X (1 .. Fragments))
    BY <1>5 DEF Assemblies
  <2> QED  BY <1>3, <2>1
<1> HIDE DEF got
<1>7. /\ next \in Assemblies
      /\ next.seq = piece.seq /\ next.start = base.start /\ next.got = got
  BY <1>5, <1>6 DEF Assemblies
<1> HIDE DEF next
<1>8. ~leftover' => base.start = piece.start /\ \A g \in got : g[1] = piece.frame
  <2> SUFFICES ASSUME ~leftover', NEW g \in got PROVE g[1] = piece.frame
    BY <1>5
  <2>1. ~leftover /\ base.start = piece.start /\ piece.frame = piece.start + piece.seq
    BY <1>1, <1>2, <1>5 DEF Numbered
  <2>2. CASE g \in base.got
    BY <1>0, <1>5, <2>1, <2>2 DEF NumbersTell
  <2>3. CASE g = <<piece.frame, piece.i>>
    BY <2>3
  <2> QED  BY <1>6, <2>2, <2>3
<1>9. Video!NoAssembly \in Assemblies /\ Video!NoAssembly.got = {}
  BY DEF Video!NoAssembly, Assemblies
<1>10. StreamTypes'
  BY <1>0, <1>1, <1>2, <1>7, <1>9 DEF StreamTypes
<1>11. NumbersTell'
  <2>1. \A n \in 1 .. Len(posted') : Numbered(posted'[n], offers)
    BY <1>0, <1>1, <1>2 DEF NumbersTell
  <2>2. ~leftover' => \A g \in assembly'.got : g[1] = assembly'.start + assembly'.seq
    BY <1>0, <1>1, <1>2, <1>7, <1>8, <1>9 DEF NumbersTell, Numbered
  <2> QED  BY <1>0, <1>1, <2>1, <2>2 DEF NumbersTell
<1>12. Whole'
  <2> SUFFICES ASSUME ~leftover', displayed' = {g[1] : g \in got}
               PROVE  displayed' = {} \/ \E f \in Nat : displayed' = {f}
    BY <1>0, <1>1, <1>7 DEF Whole
  <2>1. \A g \in got : g[1] = piece.frame
    BY <1>8
  <2>2. CASE got = {}
    BY <2>2
  <2>3. CASE got # {}
    BY <1>3, <2>1, <2>3
  <2> QED  BY <2>2, <2>3
<1>13. GoesOut'
  BY <1>0, <1>1 DEF GoesOut, OnItsWay
<1> QED  BY <1>10, <1>11, <1>12, <1>13 DEF StreamIInv

\* Every step of the composition keeps the invariant.
LEMMA StreamStep == StreamIInv /\ [Next]_vars => StreamIInv'
<1> SUFFICES ASSUME StreamIInv, [Next]_vars PROVE StreamIInv'
  OBVIOUS
<1>1. CASE VideoNext
  BY <1>1, StreamLinkStep, StreamOfferStep, StreamFlushStep, StreamEncodeStep, StreamSendStep, StreamStopStep,
     StreamHandleStep DEF VideoNext, Video!VideoNext
<1>2. CASE UNCHANGED videoVars
  BY <1>2 DEF videoVars, StreamIInv, StreamTypes, NumbersTell, GoesOut, OnItsWay, Whole
<1> QED  BY <1>1, <1>2 DEF Next, vars, MountNext, TableNext, SessionNext, LoaderNext, CanonNext, SdkNext,
         FocusNext, RecNext, IndiNext, NetNext, SolveNext, HandNext, LinksNext

\* The newest frame that was offered goes out, and what a client shows is one frame,
\* however many frames and fragments there are, and however often the server is stopped.
THEOREM NewestGoesOut == Spec => []StreamHolds
<1>1. Init => StreamIInv
  BY StreamInitInv DEF Init
<1>2. StreamIInv => StreamHolds
  <2> SUFFICES ASSUME StreamIInv PROVE Video!FrameGoesOut /\ Video!ShownIsWhole
    BY DEF StreamHolds, Video!StreamHolds
  <2>1. flushes \in Seq(VideoCalls)
    BY DEF StreamIInv, StreamTypes
  <2>2. OnItsWay => flushes # <<>> \/ encoding # {}
    BY <2>1 DEF OnItsWay
  <2>3. Video!FrameGoesOut
    BY <2>2 DEF StreamIInv, GoesOut, Video!FrameGoesOut
  <2>4. Video!ShownIsWhole
    <3> SUFFICES ASSUME ~leftover PROVE Cardinality(displayed) <= 1
      BY DEF Video!ShownIsWhole, Video!Cardinality, Cardinality
    <3>1. CASE displayed = {}
      BY <3>1, FS_EmptySet
    <3>2. ASSUME NEW f \in Nat, displayed = {f} PROVE Cardinality(displayed) <= 1
      <4>1. Cardinality({f}) = 1
        BY FS_Singleton
      <4> QED  BY <3>2, <4>1
    <3> QED  BY <3>1, <3>2 DEF StreamIInv, Whole
  <2> QED  BY <2>3, <2>4
<1> QED  BY <1>1, <1>2, StreamStep, PTL DEF Spec

-----------------------------------------------------------------------------
(* Recording: a true record, previews in order, nothing left running.      *)

RecFields == {"kind", "native", "save", "roi", "frame", "lost", "leg", "pc", "result"}
SerFields == {"open", "made", "frames", "marks", "count"}
Regions == Rois \cup {Center, Rec!Off}
Marks == [from : Nat, roi : Regions]

RecTypes ==
    /\ DOMAIN rec = RecFields /\ rec.roi \in Regions /\ rec.frame \in Nat
    /\ DOMAIN ser = SerFields /\ ser.frames \in Seq(Regions) /\ ser.marks \in Seq(Marks)
    /\ stream \in Regions /\ guided = [at |-> guided.at, goal |-> guided.goal]

\* A file begins with a mark, and no mark is ahead of the frames.
Marked(f) ==
    /\ f.open \/ f.frames # <<>> => f.marks # <<>> /\ f.marks[1].from = 0
    /\ \A k \in DOMAIN f.marks : f.marks[k].from <= Len(f.frames)

\* The last mark before a frame tells its region.
Told(f) ==
    \A i \in DOMAIN f.frames, k \in DOMAIN f.marks :
        f.marks[k].from < i /\ (\A j \in DOMAIN f.marks : f.marks[j].from < i => j <= k)
            => f.marks[k].roi = f.frames[i]

\* While frames are taken, the last mark tells the region, and so does the stream.
Following(r, st, f) ==
    /\ r.pc \in {"stream", "cycle", "take", "preview", "track", "correct", "corrected"} /\ f.open =>
          f.marks[Len(f.marks)].roi = r.roi
    /\ r.pc \in {"cycle", "take", "preview", "track"} /\ r.native => st = r.roi

\* Unless its failure is known: the stream is off, the file is counted, the mount rests.
StreamOff(r, st, sl) ==
    r.pc \in {"idle", "close", "stream", "mark", "correct", "corrected", "centroid", "leg", "settle"} =>
        st = Rec!Off \/ "stop" \in sl
Counted(r, f, sl) ==
    /\ r.pc = "idle" => ~f.open
    /\ ~f.open =>
          \/ f.count = Len(f.frames)
          \/ r.pc = "idle" /\ r.result # "success" /\ sl \cap {"close", "write"} # {} /\ r.kind # "none"
    /\ r.kind = "none" => r.pc = "idle"
Rested(r, g, sl) == r.pc \notin {"corrected", "settle"} => g.at = g.goal \/ "mount" \in sl

\* At most one preview is prepared; what is shown, to be shown and prepared is in order.
InOrderShown(p, s, n) ==
    /\ p = [busy |-> p.busy, queued |-> p.queued] /\ s \in Nat /\ s <= n
    /\ p.busy \in Seq(Nat) /\ Len(p.busy) <= 1 /\ p.queued \in Seq(Nat)
    /\ \A i \in DOMAIN p.queued : s <= p.queued[i] /\ p.queued[i] <= n
    /\ \A i, j \in DOMAIN p.queued : i <= j => p.queued[i] <= p.queued[j]
    /\ \A b \in DOMAIN p.busy :
          /\ s <= p.busy[b] /\ p.busy[b] <= n
          /\ \A i \in DOMAIN p.queued : p.queued[i] <= p.busy[b]

NoSlip(sl) == sl \cap {"mark", "stop"} = {}

RecIInv ==
    /\ RecTypes
    /\ Marked(ser)
    /\ NoSlip(slips) => Told(ser) /\ Following(rec, stream, ser)
    /\ StreamOff(rec, stream, slips) /\ Counted(rec, ser, slips) /\ Rested(rec, guided, slips)
    /\ InOrderShown(previews, shown, rec.frame)

\* Nothing has been started.
LEMMA RecInitInv == Rec!RecInit => RecIInv
<1> SUFFICES ASSUME Rec!RecInit PROVE RecIInv
  OBVIOUS
<1> USE DEF Rec!RecInit
<1>1. RecTypes
  <2>1. <<>> \in Seq(Regions) /\ <<>> \in Seq(Marks)
    OBVIOUS
  <2> QED  BY <2>1 DEF RecTypes, Regions, RecFields, SerFields
<1>2. Marked(ser) /\ Told(ser) /\ Following(rec, stream, ser)
  BY DEF Marked, Told, Following
<1>3. StreamOff(rec, stream, slips) /\ Counted(rec, ser, slips) /\ Rested(rec, guided, slips)
  BY DEF StreamOff, Counted, Rested
<1>4. InOrderShown(previews, shown, rec.frame)
  <2>1. <<>> \in Seq(Nat)
    OBVIOUS
  <2> QED  BY <2>1 DEF InOrderShown
<1> QED  BY <1>1, <1>2, <1>3, <1>4 DEF RecIInv

\* What has failed stays known.
LEMMA SlipsGrow ==
    /\ Rec!Ok => slips \subseteq slips'
    /\ \A what : Rec!Fails(what) => slips \subseteq slips' /\ what \in slips'
BY DEF Rec!Ok, Rec!Fails

\* The operation goes on, with the region and the frames that it had.
Keeps(s) ==
    /\ DOMAIN s = RecFields /\ s.roi = rec.roi /\ s.frame = rec.frame
    /\ s.kind = rec.kind /\ s.native = rec.native

\* What leaves the file, the previews and what was shown alone.
LEMMA FileStands ==
    ASSUME RecIInv, UNCHANGED <<ser, previews, shown>>, slips \subseteq slips',
           DOMAIN rec' = RecFields, rec'.roi \in Regions, rec'.frame = rec.frame, rec'.kind = rec.kind,
           stream' \in Regions, guided' = [at |-> guided'.at, goal |-> guided'.goal],
           NoSlip(slips') => Following(rec', stream', ser),
           StreamOff(rec', stream', slips'), Rested(rec', guided', slips'),
           rec.pc # "idle", rec'.pc # "idle"
    PROVE  RecIInv'
<1>1. RecTypes'
  BY DEF RecIInv, RecTypes
<1>2. NoSlip(slips') => Told(ser') /\ Following(rec', stream', ser')
  BY DEF RecIInv, NoSlip
<1>3. Counted(rec', ser', slips')
  BY DEF RecIInv, Counted
<1> QED  BY <1>1, <1>2, <1>3 DEF RecIInv

\* The mount arrives, a client cancels, the main thread shows a preview.
LEMMA ViewerStep ==
    ASSUME RecIInv, Rec!Arrive \/ Rec!CancelRec \/ Rec!Show
    PROVE  RecIInv'
<1>1. CASE Rec!Arrive
  <2>1. guided' = [at |-> guided.goal, goal |-> guided.goal]
    BY <1>1 DEF Rec!Arrive, RecIInv, RecTypes
  <2> QED  BY <1>1, <2>1 DEF Rec!Arrive, RecIInv, RecTypes, Rested, Following, Marked, Told, StreamOff, Counted
<1>2. CASE Rec!CancelRec
  BY <1>2 DEF Rec!CancelRec, RecIInv, RecTypes
<1>3. CASE Rec!Show
  <2> DEFINE q == previews.queued
  <2>1. /\ UNCHANGED <<rec, stream, ser, guided, slips>> /\ q # <<>> /\ shown' = Head(q)
        /\ previews' = [previews EXCEPT !.queued = Tail(@)]
    BY <1>3 DEF Rec!Show
  <2>2. /\ previews = [busy |-> previews.busy, queued |-> q] /\ q \in Seq(Nat)
        /\ InOrderShown(previews, shown, rec.frame)
    BY DEF RecIInv, InOrderShown
  <2>3. previews' = [busy |-> previews.busy, queued |-> Tail(q)] /\ shown' = q[1] /\ 1 \in DOMAIN q
    <3> DEFINE b == previews.busy
    <3>1. previews = [busy |-> b, queued |-> q]
      BY <2>2
    <3> HIDE DEF b, q
    <3>2. previews' = [busy |-> b, queued |-> Tail(q)]
      BY <2>1, <3>1
    <3>3. shown' = q[1] /\ 1 \in DOMAIN q
      BY <2>1, <2>2
    <3> QED  BY <3>2, <3>3 DEF b
  <2>4. /\ Tail(q) \in Seq(Nat) /\ DOMAIN Tail(q) = 1 .. Len(q) - 1
        /\ \A i \in 1 .. Len(q) - 1 : Tail(q)[i] = q[i + 1] /\ i + 1 \in DOMAIN q /\ 1 <= i + 1
    BY <2>1, <2>2
  <2> HIDE DEF q
  <2>5. q[1] \in Nat /\ q = previews.queued /\ rec.frame \in Nat
    BY <2>2, <2>3 DEF q, RecIInv, RecTypes
  <2>6. InOrderShown(previews', shown', rec.frame)
    BY <2>2, <2>3, <2>4, <2>5 DEF InOrderShown
  <2> QED  BY <2>1, <2>6 DEF RecIInv, RecTypes
<1> QED  BY <1>1, <1>2, <1>3

\* A preview that is removed leaves none in preparation.
LEMMA NoneBusy ==
    ASSUME NEW s \in Seq(Nat), Len(s) <= 1, NEW i \in DOMAIN s
    PROVE  Rec!RemoveAt(s, i) = <<>> /\ i = 1 /\ Len(s) = 1
<1>0. Len(s) \in Nat /\ DOMAIN s = 1 .. Len(s)
  OBVIOUS
<1>1. i = 1 /\ Len(s) = 1
  BY <1>0
<1>2. SubSeq(s, 1, 1 - 1) = <<>> /\ SubSeq(s, 1 + 1, 1) = <<>>
  OBVIOUS
<1>3. <<>> \o <<>> = <<>>
  OBVIOUS
<1> QED  BY <1>1, <1>2, <1>3 DEF Rec!RemoveAt

\* A preview is prepared.
LEMMA PreparedStep ==
    ASSUME RecIInv, Rec!Prepared
    PROVE  RecIInv'
<1>1. PICK i \in DOMAIN previews.busy, good \in BOOLEAN :
         /\ previews' = [busy |-> Rec!RemoveAt(previews.busy, i),
                         queued |-> IF good THEN Append(previews.queued, previews.busy[i]) ELSE previews.queued]
         /\ UNCHANGED <<rec, stream, ser, guided, stopRec, shown, slips>>
  BY DEF Rec!Prepared
<1> DEFINE q == previews.queued
           b == previews.busy
<1>2. b \in Seq(Nat) /\ q \in Seq(Nat) /\ Len(b) <= 1 /\ InOrderShown(previews, shown, rec.frame)
  BY DEF RecIInv, InOrderShown
<1>3. previews' = [busy |-> <<>>, queued |-> IF good THEN Append(q, b[1]) ELSE q] /\ 1 \in DOMAIN b /\ b[1] \in Nat
  <2>1. i \in DOMAIN b
    BY <1>1
  <2> HIDE DEF b, q
  <2>2. Rec!RemoveAt(b, i) = <<>> /\ i = 1 /\ Len(b) = 1
    BY <1>2, <2>1, NoneBusy
  <2>3. b[1] \in Nat
    <3>1. DOMAIN b = 1 .. Len(b) /\ 1 \in 1 .. Len(b)
      BY <1>2, <2>2
    <3> QED  BY <1>2, <3>1
  <2> QED  BY <1>1, <2>1, <2>2, <2>3 DEF b, q
<1>4. /\ Append(q, b[1]) \in Seq(Nat) /\ DOMAIN Append(q, b[1]) = 1 .. Len(q) + 1 /\ DOMAIN q = 1 .. Len(q)
      /\ \A k \in 1 .. Len(q) + 1 : IF k <= Len(q) THEN Append(q, b[1])[k] = q[k] ELSE Append(q, b[1])[k] = b[1]
      /\ Len(q) \in Nat /\ <<>> \in Seq(Nat) /\ DOMAIN <<>> = {}
  BY <1>2, <1>3
<1>5. \A k \in 1 .. Len(q) : shown <= q[k] /\ q[k] <= rec.frame /\ q[k] <= b[1]
  BY <1>2, <1>3, <1>4 DEF InOrderShown
<1>6. \A k, j \in 1 .. Len(q) : k <= j => q[k] <= q[j]
  BY <1>2, <1>4 DEF InOrderShown
<1>7. shown \in Nat /\ shown <= rec.frame /\ shown <= b[1] /\ b[1] <= rec.frame
  BY <1>2, <1>3 DEF InOrderShown
<1> HIDE DEF q, b
<1>8. CASE good
  <2> DEFINE n == Append(q, b[1])
  <2>1. n \in Seq(Nat) /\ DOMAIN n = 1 .. Len(q) + 1
    BY <1>4
  <2>2. \A k \in DOMAIN n : shown <= n[k] /\ n[k] <= rec.frame
    BY <1>4, <1>5, <1>7
  <2>3. \A k, j \in DOMAIN n : k <= j => n[k] <= n[j]
    BY <1>3, <1>4, <1>5, <1>6
  <2>4. previews' = [busy |-> <<>>, queued |-> n]
    BY <1>3, <1>8
  <2> HIDE DEF n
  <2>5. InOrderShown(previews', shown, rec.frame)
    BY <1>4, <1>7, <2>1, <2>2, <2>3, <2>4 DEF InOrderShown
  <2> QED  BY <1>1, <2>5 DEF RecIInv, RecTypes
<1>9. CASE ~good
  <2>1. previews' = [busy |-> <<>>, queued |-> q]
    BY <1>3, <1>9
  <2>2. InOrderShown(previews', shown, rec.frame)
    BY <1>2, <1>4, <1>5, <1>6, <1>7, <2>1 DEF InOrderShown
  <2> QED  BY <1>1, <2>2 DEF RecIInv, RecTypes
<1> QED  BY <1>8, <1>9

\* The operation is started, its stream started, or the next frame begun.
LEMMA RecBeginStep ==
    ASSUME RecIInv, Rec!StartRec \/ Rec!StartStream \/ Rec!Cycle
    PROVE  RecIInv'
<1>0. /\ UNCHANGED <<ser, guided, previews, shown>> /\ slips \subseteq slips' /\ DOMAIN rec = RecFields
      /\ guided' = [at |-> guided'.at, goal |-> guided'.goal]
  BY SlipsGrow DEF RecIInv, RecTypes, Rec!StartRec, Rec!StartStream, Rec!Cycle
<1>1. CASE Rec!StartRec
  <2>1. PICK knd \in {"live", "planet", "calibrate"}, native \in BOOLEAN, save \in BOOLEAN, roi \in Rois :
          rec' = [rec EXCEPT !.kind = knd, !.native = native, !.save = save \/ knd = "planet", !.roi = roi,
                             !.pc = IF knd = "calibrate" THEN "centroid" ELSE "stream"]
    BY <1>1 DEF Rec!StartRec
  <2>2. /\ DOMAIN rec' = RecFields /\ rec'.roi = roi /\ rec'.frame = rec.frame /\ rec'.kind = knd
        /\ rec'.pc \in {"centroid", "stream"}
    BY <1>0, <2>1 DEF RecFields
  <2>3. rec.kind = "none" /\ UNCHANGED <<stream, slips>>
    BY <1>1 DEF Rec!StartRec
  <2>4. rec.pc = "idle" /\ ~ser.open /\ ser.count = Len(ser.frames)
    BY <2>3 DEF RecIInv, Counted
  <2>5. Following(rec', stream, ser) /\ Counted(rec', ser, slips) /\ StreamOff(rec', stream, slips)
    BY <2>2, <2>3, <2>4 DEF RecIInv, Following, Counted, StreamOff
  <2> QED  BY <1>0, <2>2, <2>3, <2>4, <2>5 DEF RecIInv, RecTypes, Regions, Rested
<1>2. CASE Rec!StartStream
  <2>1. \A pc : Keeps([rec EXCEPT !.pc = pc]) /\ [rec EXCEPT !.pc = pc].pc = pc
    BY <1>0 DEF Keeps, RecFields
  <2>2. LET r == [rec EXCEPT !.pc = "close", !.result = "failed"] IN Keeps(r) /\ r.pc = "close"
    BY <1>0 DEF Keeps, RecFields
  <2>3. Keeps(rec') /\ rec.pc = "stream"
    BY <1>2, <2>1, <2>2 DEF Rec!StartStream, Rec!Goto, Rec!At
  <2>4. \/ rec'.pc = "cycle" /\ stream' = IF rec.native THEN rec.roi ELSE Rec!Off
        \/ rec'.pc = "close" /\ stream' = stream
    BY <1>2, <2>1, <2>2 DEF Rec!StartStream, Rec!Goto
  <2>5. stream' \in Regions
    BY <2>4 DEF RecIInv, RecTypes, Regions
  <2>6. NoSlip(slips') => Following(rec', stream', ser)
    BY <1>0, <2>3, <2>4 DEF RecIInv, NoSlip, Following, Keeps
  <2>7. StreamOff(rec', stream', slips') /\ Rested(rec', guided', slips')
    BY <1>0, <2>3, <2>4 DEF RecIInv, StreamOff, Rested
  <2>8. rec'.pc # "idle" /\ rec.pc # "idle"
    BY <2>3, <2>4
  <2> QED  BY <1>0, <2>3, <2>5, <2>6, <2>7, <2>8, FileStands DEF Keeps, RecIInv, RecTypes
<1>3. CASE Rec!Cycle
  <2>1. Keeps(rec') /\ rec.pc = "cycle" /\ rec'.pc \in {"stop", "take"} /\ UNCHANGED <<stream, slips>>
    BY <1>0, <1>3 DEF Rec!Cycle, Rec!Goto, Rec!Ending, Rec!At, Keeps, RecFields
  <2>2. NoSlip(slips') => Following(rec', stream', ser)
    BY <2>1 DEF RecIInv, NoSlip, Following, Keeps
  <2>3. StreamOff(rec', stream', slips') /\ Rested(rec', guided', slips')
    BY <1>0, <2>1 DEF RecIInv, StreamOff, Rested
  <2>4. rec'.pc # "idle" /\ rec.pc # "idle"
    BY <2>1
  <2> QED  BY <1>0, <2>1, <2>2, <2>3, <2>4, FileStands DEF Keeps, RecIInv, RecTypes
<1> QED  BY <1>1, <1>2, <1>3

\* A file that is written: the one that is open, or a new one.
LEMMA FileIs ==
    ASSUME RecIInv
    PROVE  LET f == IF ser.open THEN ser ELSE Rec!Opened(rec.roi) IN
           /\ DOMAIN f = SerFields /\ f.open /\ f.frames \in Seq(Regions) /\ f.marks \in Seq(Marks)
           /\ Marked(f)
           /\ ~ser.open => f.frames = <<>> /\ f.count = 0
           /\ NoSlip(slips) => Told(f) /\ (rec.pc = "take" => f.marks[Len(f.marks)].roi = rec.roi)
<1> DEFINE mark == [from |-> 0, roi |-> rec.roi]
           new == Rec!Opened(rec.roi)
<1>1. mark \in Marks /\ <<>> \in Seq(Regions)
  BY DEF Marks, RecIInv, RecTypes
<1>2. <<mark>> \in Seq(Marks) /\ Len(<<mark>>) = 1 /\ <<mark>>[1] = mark /\ DOMAIN <<mark>> = {1}
  BY <1>1
<1>3. /\ DOMAIN new = SerFields /\ new.open /\ new.frames = <<>> /\ new.count = 0
      /\ new.marks = <<mark>>
  BY DEF Rec!Opened, SerFields
<1>4. mark.from = 0 /\ mark.roi = rec.roi
  OBVIOUS
<1> HIDE DEF mark, new
<1>5. Marked(new)
  BY <1>2, <1>3, <1>4 DEF Marked
<1>6. Told(new)
  BY <1>3 DEF Told
<1>7. CASE ser.open
  BY <1>7 DEF RecIInv, RecTypes, Following
<1>8. CASE ~ser.open
  BY <1>1, <1>2, <1>3, <1>4, <1>5, <1>6, <1>8 DEF new
<1> QED  BY <1>7, <1>8

\* A frame that is written after the last mark of its region.
LEMMA AppendedIs ==
    ASSUME NEW f, DOMAIN f = SerFields, f.frames \in Seq(Regions), f.marks \in Seq(Marks), f.open, Marked(f),
           NEW r \in Regions
    PROVE  LET g == Rec!Appended(f, r) IN
           /\ DOMAIN g = SerFields /\ g.frames \in Seq(Regions) /\ g.marks = f.marks /\ g.open /\ Marked(g)
           /\ Told(f) /\ f.marks[Len(f.marks)].roi = r => Told(g)
<1> DEFINE g == Rec!Appended(f, r)
           n == Len(f.frames)
           m == Len(f.marks)
           new == Append(f.frames, r)
<1>1. DOMAIN g = SerFields /\ g.frames = new /\ g.marks = f.marks /\ g.open
  BY DEF Rec!Appended, SerFields
<1>2. /\ new \in Seq(Regions) /\ Len(new) = n + 1 /\ DOMAIN new = 1 .. n + 1 /\ n \in Nat
      /\ \A i \in 1 .. n : new[i] = f.frames[i]
      /\ new[n + 1] = r /\ DOMAIN f.frames = 1 .. n
  OBVIOUS
<1>3. f.marks # <<>> /\ f.marks[1].from = 0 /\ \A k \in DOMAIN f.marks : f.marks[k].from <= n
  BY DEF Marked
<1>4. m \in Nat /\ DOMAIN f.marks = 1 .. m /\ m # 0 /\ \A k \in DOMAIN f.marks : f.marks[k].from \in Nat
  <2>1. m \in Nat /\ DOMAIN f.marks = 1 .. m
    OBVIOUS
  <2>2. \A k \in DOMAIN f.marks : f.marks[k] \in Marks
    OBVIOUS
  <2>3. m # 0
    BY <1>3
  <2> QED  BY <2>1, <2>2, <2>3 DEF Marks
<1> HIDE DEF g, new, n, m
<1>5. Marked(g)
  <2>1. \A k \in DOMAIN f.marks : f.marks[k].from <= n + 1
    BY <1>2, <1>3, <1>4
  <2> QED  BY <1>1, <1>2, <1>3, <2>1 DEF Marked
<1>6. ASSUME Told(f), f.marks[m].roi = r PROVE Told(g)
  <2>0. ASSUME NEW i \in 1 .. n + 1, NEW k \in 1 .. m, f.marks[k].from < i,
               \A j \in 1 .. m : f.marks[j].from < i => j <= k
        PROVE  f.marks[k].roi = new[i]
    <3>1. CASE i = n + 1
      <4>1. m \in 1 .. m /\ f.marks[m].from < i
        BY <1>2, <1>3, <1>4, <3>1
      <4>2. k = m
        BY <1>4, <2>0, <4>1
      <4> QED  BY <1>2, <1>6, <3>1, <4>2
    <3>2. CASE i # n + 1
      <4>1. i \in 1 .. n
        BY <1>2, <3>2
      <4> QED  BY <1>2, <1>4, <1>6, <2>0, <4>1 DEF Told
    <3> QED  BY <3>1, <3>2
  <2>1. g.marks = f.marks /\ g.frames = new /\ DOMAIN new = 1 .. n + 1 /\ DOMAIN f.marks = 1 .. m
    BY <1>1, <1>2, <1>4
  <2> QED  BY <2>0, <2>1 DEF Told
<1> QED  BY <1>1, <1>2, <1>5, <1>6 DEF g, m

\* A frame is taken and written.
LEMMA ShootStep ==
    ASSUME RecIInv, Rec!Shoot
    PROVE  RecIInv'
<1> DEFINE f == IF ser.open THEN ser ELSE Rec!Opened(rec.roi)
           t == Rec!Taken
<1>1. /\ DOMAIN f = SerFields /\ f.open /\ f.frames \in Seq(Regions) /\ f.marks \in Seq(Marks) /\ Marked(f)
      /\ (~ser.open => f.frames = <<>> /\ f.count = 0)
      /\ NoSlip(slips) => Told(f) /\ (rec.pc = "take" => f.marks[Len(f.marks)].roi = rec.roi)
  BY FileIs
<1>2. /\ rec.pc = "take" /\ UNCHANGED <<stream, guided, stopRec, previews, shown>> /\ slips \subseteq slips'
      /\ \/ UNCHANGED ser /\ \E result : Rec!Ending(result)
         \/ /\ rec' = [rec EXCEPT !.frame = @ + 1, !.pc = IF rec.kind = "planet" THEN "track" ELSE "preview"]
            /\ ser' = IF rec.save THEN Rec!Appended(f, t) ELSE ser
         \/ /\ Rec!Ending("failed")
            /\ ser' = f \/ (~ser.open /\ ser' = [f EXCEPT !.open = FALSE])
  BY SlipsGrow DEF Rec!Shoot, Rec!At
<1>3. t \in Regions /\ (NoSlip(slips) => t = rec.roi)
  BY <1>2 DEF Rec!Taken, RecIInv, RecTypes, Following
<1> HIDE DEF f, t
<1>4. \A result : LET r == [rec EXCEPT !.pc = "stop", !.result = result] IN Keeps(r) /\ r.pc = "stop"
  BY DEF Keeps, RecFields, RecIInv, RecTypes
<1>5. (\E result : Rec!Ending(result)) => Keeps(rec') /\ rec'.pc = "stop"
  BY <1>4 DEF Rec!Ending
<1>6. NoSlip(slips') => NoSlip(slips)
  BY <1>2 DEF NoSlip
<1>7. ASSUME Keeps(rec'), rec'.pc = "stop", DOMAIN ser' = SerFields, ser'.frames \in Seq(Regions), ser'.marks \in Seq(Marks),
             Marked(ser'), NoSlip(slips') => Told(ser'), ~ser'.open => ser'.count = Len(ser'.frames)
      PROVE  RecIInv'
  <2>1. RecTypes'
    BY <1>2, <1>7 DEF RecIInv, RecTypes, Keeps
  <2>2. Following(rec', stream', ser') /\ StreamOff(rec', stream', slips') /\ Rested(rec', guided', slips')
    BY <1>2, <1>7 DEF RecIInv, Following, StreamOff, Rested
  <2>3. Counted(rec', ser', slips')
    BY <1>2, <1>7 DEF RecIInv, Counted, Keeps
  <2>4. InOrderShown(previews', shown', rec'.frame)
    BY <1>2, <1>7 DEF RecIInv, Keeps
  <2> QED  BY <1>7, <2>1, <2>2, <2>3, <2>4 DEF RecIInv
<1>8. CASE UNCHANGED ser /\ \E result : Rec!Ending(result)
  <2>1. ~ser'.open => ser'.count = Len(ser'.frames)
    BY <1>2, <1>8 DEF RecIInv, Counted
  <2> QED  BY <1>5, <1>6, <1>7, <1>8, <2>1 DEF RecIInv, RecTypes
<1>9. CASE /\ Rec!Ending("failed")
           /\ ser' = f \/ (~ser.open /\ ser' = [f EXCEPT !.open = FALSE])
  <2>1. CASE ser' = f
    BY <1>1, <1>5, <1>6, <1>7, <1>9, <2>1
  <2>2. CASE ~ser.open /\ ser' = [f EXCEPT !.open = FALSE]
    <3>1. /\ DOMAIN ser' = SerFields /\ ser'.frames = <<>> /\ ser'.marks = f.marks /\ ser'.count = 0
          /\ f.frames = <<>> /\ ~ser'.open
      BY <1>1, <2>2 DEF SerFields
    <3>2. Marked(ser') /\ (NoSlip(slips') => Told(ser'))
      BY <1>1, <1>6, <3>1 DEF Marked, Told
    <3>3. ser'.count = Len(ser'.frames)
      BY <3>1
    <3> QED  BY <1>1, <1>5, <1>7, <1>9, <3>1, <3>2, <3>3
  <2> QED  BY <1>9, <2>1, <2>2
<1>10. CASE /\ rec' = [rec EXCEPT !.frame = @ + 1, !.pc = IF rec.kind = "planet" THEN "track" ELSE "preview"]
            /\ ser' = IF rec.save THEN Rec!Appended(f, t) ELSE ser
  <2>1. /\ DOMAIN rec' = RecFields /\ rec'.frame = rec.frame + 1 /\ rec'.pc \in {"track", "preview"}
        /\ rec'.kind = rec.kind /\ rec'.native = rec.native /\ rec'.roi = rec.roi
    BY <1>10 DEF RecIInv, RecTypes, RecFields
  <2>2. rec.frame \in Nat
    BY DEF RecIInv, RecTypes
  <2>3. InOrderShown(previews', shown', rec'.frame)
    <3>1. InOrderShown(previews, shown, rec.frame) /\ UNCHANGED <<previews, shown>>
      BY <1>2 DEF RecIInv
    <3>2. /\ \A i \in DOMAIN previews.queued : previews.queued[i] \in Nat
          /\ \A b \in DOMAIN previews.busy : previews.busy[b] \in Nat
      BY <3>1 DEF InOrderShown
    <3> QED  BY <2>1, <2>2, <3>1, <3>2 DEF InOrderShown
  <2>4. StreamOff(rec', stream', slips') /\ Rested(rec', guided', slips')
    BY <1>2, <2>1 DEF RecIInv, StreamOff, Rested
  <2>5. CASE ~rec.save
    <3>1. UNCHANGED ser
      BY <1>10, <2>5
    <3>2. RecTypes' /\ Counted(rec', ser', slips')
      BY <1>2, <2>1, <2>2, <3>1 DEF RecIInv, RecTypes, Counted
    <3>3. NoSlip(slips') => Told(ser') /\ Following(rec', stream', ser')
      BY <1>2, <1>6, <2>1, <3>1 DEF RecIInv, Following
    <3> QED  BY <2>3, <2>4, <3>1, <3>2, <3>3 DEF RecIInv
  <2>6. CASE rec.save
    <3>1. ser' = Rec!Appended(f, t)
      BY <1>10, <2>6
    <3>2. /\ DOMAIN ser' = SerFields /\ ser'.frames \in Seq(Regions) /\ ser'.marks = f.marks /\ ser'.open /\ Marked(ser')
          /\ Told(f) /\ f.marks[Len(f.marks)].roi = t => Told(ser')
      BY <1>1, <1>3, <3>1, AppendedIs
    <3>3. RecTypes' /\ Counted(rec', ser', slips')
      BY <1>1, <1>2, <2>1, <2>2, <3>2 DEF RecIInv, RecTypes, Counted
    <3>4. NoSlip(slips') => Told(ser') /\ Following(rec', stream', ser')
      BY <1>1, <1>2, <1>3, <1>6, <2>1, <3>2 DEF RecIInv, Following
    <3> QED  BY <2>3, <2>4, <3>2, <3>3, <3>4 DEF RecIInv
  <2> QED  BY <2>5, <2>6
<1> QED  BY <1>2, <1>8, <1>9, <1>10

\* A preview of the frame that was taken, if none is prepared.
LEMMA MaybePreviewStep ==
    ASSUME RecIInv, Rec!MaybePreview
    PROVE  RecIInv'
<1>1. /\ rec.pc = "preview" /\ rec' = [rec EXCEPT !.pc = "cycle"] /\ (Rec!Preview \/ UNCHANGED previews)
      /\ UNCHANGED <<stream, ser, guided, stopRec, shown, slips>>
  BY DEF Rec!MaybePreview, Rec!At, Rec!Goto
<1>2. Keeps(rec') /\ rec'.pc = "cycle"
  BY <1>1 DEF RecIInv, RecTypes, Keeps, RecFields
<1>3. /\ RecTypes' /\ Marked(ser') /\ StreamOff(rec', stream', slips') /\ Rested(rec', guided', slips')
      /\ Counted(rec', ser', slips')
  BY <1>1, <1>2 DEF RecIInv, RecTypes, StreamOff, Rested, Counted, Keeps
<1>4. NoSlip(slips') => Told(ser') /\ Following(rec', stream', ser')
  BY <1>1, <1>2 DEF RecIInv, Following, Keeps
<1>5. InOrderShown(previews, shown, rec.frame) /\ rec.frame \in Nat
  BY DEF RecIInv, RecTypes
<1>6. CASE previews' = previews
  BY <1>1, <1>2, <1>3, <1>4, <1>5, <1>6 DEF RecIInv, Keeps
<1>7. CASE previews' # previews
  <2> DEFINE b == Append(previews.busy, rec.frame)
             q == previews.queued
  <2>1. previews.busy = <<>> /\ previews' = [previews EXCEPT !.busy = b] /\ previews = [busy |-> previews.busy, queued |-> q]
    BY <1>1, <1>5, <1>7 DEF Rec!Preview, InOrderShown
  <2>2. b \in Seq(Nat) /\ Len(b) = 1 /\ DOMAIN b = {1} /\ b[1] = rec.frame
    BY <1>5, <2>1
  <2>3. previews' = [busy |-> b, queued |-> q]
    <3> HIDE DEF b, q
    <3> QED  BY <2>1
  <2> HIDE DEF b
  <2>4. \A i \in DOMAIN q : shown <= q[i] /\ q[i] <= rec.frame
    BY <1>5 DEF InOrderShown
  <2>5. \A i, j \in DOMAIN q : i <= j => q[i] <= q[j]
    BY <1>5 DEF InOrderShown
  <2>6. q \in Seq(Nat) /\ shown \in Nat /\ shown <= rec.frame
    BY <1>5 DEF InOrderShown
  <2> HIDE DEF q
  <2>7. \A x \in DOMAIN b : shown <= b[x] /\ b[x] <= rec.frame /\ \A i \in DOMAIN q : q[i] <= b[x]
    BY <1>5, <2>2, <2>4, <2>6
  <2>8. previews' = [busy |-> previews'.busy, queued |-> previews'.queued] /\ previews'.busy = b /\ previews'.queued = q
    BY <2>3
  <2> DEFINE p == [busy |-> b, queued |-> q]
             n == rec.frame
  <2> HIDE DEF n
  <2>a. p.busy = b /\ p.queued = q
    OBVIOUS
  <2> HIDE DEF p
  <2>b. Len(b) <= 1 /\ n = rec.frame /\ p = [busy |-> p.busy, queued |-> p.queued]
    BY <2>2, <2>a DEF n, p
  <2>c. InOrderShown(p, shown, n)
    BY <2>2, <2>4, <2>5, <2>6, <2>7, <2>a, <2>b DEF InOrderShown
  <2>9. InOrderShown(previews', shown, rec.frame)
    BY <2>3, <2>c DEF p, n
  <2> QED  BY <1>1, <1>2, <1>3, <1>4, <2>9 DEF RecIInv, Keeps
<1> QED  BY <1>6, <1>7

\* The stream is stopped, or stays and that is known.
LEMMA StopIs ==
    ASSUME RecIInv, Rec!StopStream
    PROVE  stream' \in Regions /\ (stream' = Rec!Off \/ "stop" \in slips') /\ slips \subseteq slips'
BY SlipsGrow DEF Rec!StopStream, RecIInv, RecTypes, Regions

\* The planet in the frame: the recording goes on, ends, moves the region or the mount.
LEMMA TrackStep ==
    ASSUME RecIInv, Rec!Track
    PROVE  RecIInv'
<1>1. /\ rec.pc = "track" /\ UNCHANGED <<ser, guided, stopRec, previews, shown>> /\ DOMAIN rec = RecFields
      /\ slips \subseteq slips'
  BY SlipsGrow, StopIs DEF Rec!Track, Rec!At, RecIInv, RecTypes
<1>2. \/ /\ Keeps(rec') /\ rec'.pc \in {"preview", "stop"} /\ UNCHANGED stream
      \/ /\ rec'.pc = "mark" /\ Rec!StopStream
         /\ DOMAIN rec' = RecFields /\ rec'.frame = rec.frame /\ rec'.kind = rec.kind /\ rec'.roi \in Rois
      \/ Keeps(rec') /\ rec'.pc = "correct" /\ Rec!StopStream
  <2>1. CASE Rec!Goto("preview") /\ UNCHANGED stream
    BY <1>1, <2>1 DEF Rec!Goto, Keeps, RecFields
  <2>2. CASE /\ UNCHANGED stream
             /\ rec' = IF rec.lost + 1 < LostLimit THEN [rec EXCEPT !.lost = @ + 1, !.pc = "preview"]
                       ELSE [rec EXCEPT !.pc = "stop", !.result = "failed"]
    BY <1>1, <2>2 DEF Keeps, RecFields
  <2>3. CASE rec' = [rec EXCEPT !.lost = 0, !.pc = "preview"] /\ UNCHANGED stream
    BY <1>1, <2>3 DEF Keeps, RecFields
  <2>4. CASE Rec!StopStream /\ \E roi \in Rois : Rec!Shift(roi)
    BY <1>1, <2>4 DEF Rec!Shift, RecFields
  <2>5. CASE Rec!StopStream /\ rec' = [rec EXCEPT !.lost = 0, !.pc = "correct"]
    BY <1>1, <2>5 DEF Keeps, RecFields
  <2> QED  BY <2>1, <2>2, <2>3, <2>4, <2>5 DEF Rec!Track
<1>3. /\ stream' \in Regions /\ DOMAIN rec' = RecFields /\ rec'.roi \in Regions /\ rec'.frame = rec.frame
      /\ rec'.kind = rec.kind /\ rec'.pc # "idle" /\ rec.pc # "idle"
      /\ guided' = [at |-> guided'.at, goal |-> guided'.goal]
  BY <1>1, <1>2, StopIs DEF Keeps, RecIInv, RecTypes, Regions
<1>4. NoSlip(slips') => Following(rec', stream', ser)
  BY <1>1, <1>2 DEF NoSlip, RecIInv, Following, Keeps
<1>5. StreamOff(rec', stream', slips')
  BY <1>2, StopIs DEF StreamOff
<1>6. Rested(rec', guided', slips')
  BY <1>1, <1>2 DEF RecIInv, Rested
<1> QED  BY <1>1, <1>3, <1>4, <1>5, <1>6, FileStands

\* The file is told the new region.
LEMMA MarkStep ==
    ASSUME RecIInv, Rec!MarkRoi
    PROVE  RecIInv'
<1> DEFINE mark == [from |-> Len(ser.frames), roi |-> rec.roi]
           m == Len(ser.marks)
           new == Append(ser.marks, mark)
<1>1. /\ rec.pc = "mark" /\ rec' = [rec EXCEPT !.pc = "stream"] /\ slips \subseteq slips'
      /\ UNCHANGED <<stream, guided, stopRec, previews, shown>>
      /\ \/ ser' = [ser EXCEPT !.marks = new]
         \/ UNCHANGED ser /\ "mark" \in slips'
  BY SlipsGrow DEF Rec!MarkRoi, Rec!Marked, Rec!At, Rec!Goto
<1>2. Keeps(rec') /\ rec'.pc = "stream"
  BY <1>1 DEF RecIInv, RecTypes, Keeps, RecFields
<1>3. /\ mark \in Marks /\ ser.marks \in Seq(Marks) /\ ser.frames \in Seq(Regions) /\ mark.roi = rec.roi
      /\ mark.from = Len(ser.frames) /\ DOMAIN ser = SerFields /\ Len(ser.frames) \in Nat
  BY DEF RecIInv, RecTypes, Marks
<1>4. /\ new \in Seq(Marks) /\ Len(new) = m + 1 /\ DOMAIN new = 1 .. m + 1 /\ m \in Nat /\ DOMAIN ser.marks = 1 .. m
      /\ \A k \in 1 .. m : new[k] = ser.marks[k]
      /\ new[m + 1] = mark /\ new # <<>> /\ 1 \in 1 .. m + 1
  <2> HIDE DEF mark
  <2> QED  BY <1>3
<1>5. /\ (m = 0 => ser.frames = <<>>) /\ (m # 0 => ser.marks[1].from = 0 \/ (ser.frames = <<>> /\ ~ser.open))
      /\ \A k \in 1 .. m : ser.marks[k].from <= Len(ser.frames) /\ ser.marks[k].from \in Nat
  <2>1. Marked(ser) /\ \A k \in 1 .. m : ser.marks[k] \in Marks
    BY <1>3, <1>4 DEF RecIInv
  <2>2. m = 0 => ser.marks = <<>>
    BY <1>3
  <2> QED  BY <1>4, <2>1, <2>2 DEF Marked, Marks
<1> HIDE DEF mark, new, m
<1>6. /\ RecTypes' \/ ser' # [ser EXCEPT !.marks = new]
      /\ StreamOff(rec', stream', slips') /\ Rested(rec', guided', slips')
      /\ InOrderShown(previews', shown', rec'.frame)
  <2>1. StreamOff(rec', stream', slips') /\ Rested(rec', guided', slips')
    BY <1>1, <1>2 DEF RecIInv, StreamOff, Rested
  <2>2. InOrderShown(previews', shown', rec'.frame)
    BY <1>1, <1>2 DEF RecIInv, Keeps
  <2>3. ASSUME ser' = [ser EXCEPT !.marks = new] PROVE RecTypes'
    <3>1. DOMAIN ser' = SerFields /\ ser'.frames = ser.frames /\ ser'.marks = new
      BY <1>3, <2>3 DEF SerFields
    <3> QED  BY <1>1, <1>2, <1>3, <1>4, <3>1 DEF RecIInv, RecTypes, Keeps
  <2> QED  BY <2>1, <2>2, <2>3
<1>7. CASE UNCHANGED ser /\ "mark" \in slips'
  <2>1. RecTypes' /\ Counted(rec', ser', slips') /\ Marked(ser')
    BY <1>1, <1>2, <1>7 DEF RecIInv, RecTypes, Counted, Keeps
  <2>2. ~NoSlip(slips')
    BY <1>7 DEF NoSlip
  <2> QED  BY <1>6, <2>1, <2>2 DEF RecIInv
<1>8. CASE ser' = [ser EXCEPT !.marks = new]
  <2>1. /\ DOMAIN ser' = SerFields /\ ser'.frames = ser.frames /\ ser'.marks = new /\ ser'.open = ser.open
        /\ ser'.count = ser.count
    BY <1>3, <1>8 DEF SerFields
  <2>2. Counted(rec', ser', slips')
    BY <1>1, <1>2, <2>1 DEF RecIInv, Counted, Keeps
  <2>3. Marked(ser')
    <3>1. \A k \in 1 .. m + 1 : new[k].from <= Len(ser.frames)
      BY <1>3, <1>4, <1>5
    <3>2. ser.open \/ ser.frames # <<>> => new[1].from = 0
      BY <1>4, <1>5 DEF RecIInv, Marked
    <3> QED  BY <1>4, <2>1, <3>1, <3>2 DEF Marked
  <2>4. ASSUME NoSlip(slips') PROVE Told(ser') /\ Following(rec', stream', ser')
    <3>1. Told(ser)
      BY <1>1, <2>4 DEF NoSlip, RecIInv
    <3>2. ASSUME NEW i \in DOMAIN ser.frames, NEW k \in 1 .. m + 1, new[k].from < i,
                 \A j \in 1 .. m + 1 : new[j].from < i => j <= k
          PROVE  new[k].roi = ser.frames[i]
      <4>1. i \in 1 .. Len(ser.frames)
        BY <1>3
      <4>2. k \in 1 .. m
        BY <1>3, <1>4, <3>2, <4>1
      <4>3. \A j \in 1 .. m : ser.marks[j].from < i => j <= k
        BY <1>4, <3>2
      <4> QED  BY <1>4, <3>1, <3>2, <4>2, <4>3 DEF Told
    <3>3. Told(ser')
      BY <1>4, <2>1, <3>2 DEF Told
    <3>4. Following(rec', stream', ser')
      BY <1>2, <1>3, <1>4, <2>1 DEF Following, Keeps
    <3> QED  BY <3>3, <3>4
  <2> QED  BY <1>6, <1>8, <2>2, <2>3, <2>4 DEF RecIInv
<1> QED  BY <1>1, <1>7, <1>8

\* The mount is moved for a correction or a calibration, and waited for.
LEMMA MountStep ==
    ASSUME RecIInv, Rec!Correct \/ Rec!Corrected \/ Rec!Centroid \/ Rec!Leg \/ Rec!Settle
    PROVE  RecIInv'
<1> DEFINE at == guided.at
           goal == guided.goal
<1>0. guided = [at |-> at, goal |-> goal] /\ DOMAIN rec = RecFields /\ Rested(rec, guided, slips)
  BY DEF RecIInv, RecTypes
<1> HIDE DEF at, goal
<1>1. UNCHANGED <<stream, ser, previews, shown>> /\ slips \subseteq slips'
  BY SlipsGrow DEF Rec!Correct, Rec!Corrected, Rec!Centroid, Rec!Leg, Rec!Settle, Rec!SlewTo, Rec!Idle
<1>2. /\ \A pc : LET r == [rec EXCEPT !.pc = pc] IN Keeps(r) /\ r.pc = pc
      /\ \A result : LET r == [rec EXCEPT !.pc = "stop", !.result = result] IN Keeps(r) /\ r.pc = "stop"
  BY <1>0 DEF Keeps, RecFields
<1>3. \A pc : Rec!Goto(pc) => Keeps(rec') /\ rec'.pc = pc
  BY <1>2 DEF Rec!Goto
<1>4. \A result : Rec!Ending(result) => Keeps(rec') /\ rec'.pc = "stop"
  BY <1>2 DEF Rec!Ending
<1>5. \A place : [guided EXCEPT !.goal = place] = [at |-> at, goal |-> place]
  BY <1>0
\* How a step may leave the operation: as it was in another step, or centered.
<1>6. /\ guided' = [at |-> guided'.at, goal |-> guided'.goal]
      /\ rec.pc \in {"correct", "corrected", "centroid", "leg", "settle"}
      /\ rec'.pc \notin {"corrected", "settle"} => guided'.at = guided'.goal \/ "mount" \in slips'
      /\ \/ Keeps(rec') /\ rec'.pc \in {"stream", "corrected"} /\ rec.pc \in {"correct", "corrected"}
         \/ Keeps(rec') /\ rec'.pc \in {"centroid", "leg", "settle", "stop"} /\ rec.pc \notin {"correct", "corrected"}
         \/ /\ rec'.pc = "mark" /\ rec'.roi = Center /\ rec.pc = "corrected"
            /\ DOMAIN rec' = RecFields /\ rec'.frame = rec.frame /\ rec'.kind = rec.kind
  <2>1. CASE Rec!Correct
    <3>1. /\ rec.pc = "correct"
          /\ \/ Rec!Goto("stream") /\ "mount" \in slips' /\ guided' \in {guided, [guided EXCEPT !.goal = "corrected"]}
             \/ Rec!Goto("corrected") /\ guided' = [guided EXCEPT !.goal = "corrected"]
      BY <2>1, SlipsGrow DEF Rec!Correct, Rec!SlewTo, Rec!At
    <3> QED  BY <1>0, <1>3, <1>5, <3>1
  <2>2. CASE Rec!Centroid
    BY <1>0, <1>1, <1>3, <1>4, <2>2 DEF Rec!Centroid, Rec!At, Rested
  <2>3. CASE Rec!Leg
    <3> DEFINE place == Rec!Legs[rec.leg]
    <3>1. /\ rec.pc = "leg"
          /\ \/ Rec!Ending("failed") /\ "mount" \in slips' /\ guided' \in {guided, [guided EXCEPT !.goal = place]}
             \/ Rec!Goto("settle") /\ guided' = [guided EXCEPT !.goal = place]
      BY <2>3, SlipsGrow DEF Rec!Leg, Rec!SlewTo, Rec!At
    <3> HIDE DEF place
    <3> QED  BY <1>0, <1>3, <1>4, <1>5, <3>1
  <2>4. CASE Rec!Corrected
    <3>1. /\ rec.pc = "corrected"
          /\ guided' \in {guided, [guided EXCEPT !.goal = guided.at]}
          /\ guided'.at = guided'.goal \/ "mount" \in slips'
          /\ rec' = [rec EXCEPT !.roi = Center, !.pc = "mark"] \/ Rec!Goto("stream")
      BY <1>0, <2>4, SlipsGrow DEF Rec!Corrected, Rec!Idle, Rec!At, Rec!Slewing
    <3>2. LET r == [rec EXCEPT !.roi = Center, !.pc = "mark"] IN
          r.pc = "mark" /\ r.roi = Center /\ DOMAIN r = RecFields /\ r.frame = rec.frame /\ r.kind = rec.kind
      BY <1>0 DEF RecFields
    <3> QED  BY <1>0, <1>3, <1>5, <3>1, <3>2
  <2>5. CASE Rec!Settle
    <3>1. LET r == Rec!Settled IN Keeps(r) /\ r.pc \in {"leg", "centroid"}
      BY <1>0 DEF Rec!Settled, Keeps, RecFields
    <3>2. /\ rec.pc = "settle"
          /\ guided' \in {guided, [guided EXCEPT !.goal = guided.at]}
          /\ guided'.at = guided'.goal \/ "mount" \in slips'
          /\ rec' = Rec!Settled \/ \E result : Rec!Ending(result)
      BY <1>0, <2>5, SlipsGrow DEF Rec!Settle, Rec!Idle, Rec!At, Rec!Slewing
    <3> QED  BY <1>0, <1>4, <1>5, <3>1, <3>2
  <2> QED  BY <2>1, <2>2, <2>3, <2>4, <2>5
<1>7. /\ DOMAIN rec' = RecFields /\ rec'.roi \in Regions /\ rec'.frame = rec.frame /\ rec'.kind = rec.kind
      /\ rec'.pc # "idle" /\ rec.pc # "idle" /\ stream' \in Regions
  BY <1>1, <1>6 DEF Keeps, RecIInv, RecTypes, Regions
<1>8. NoSlip(slips') => Following(rec', stream', ser)
  BY <1>1, <1>6 DEF NoSlip, RecIInv, Following, Keeps
<1>9. StreamOff(rec', stream', slips') /\ Rested(rec', guided', slips')
  BY <1>1, <1>6 DEF RecIInv, StreamOff, Rested
<1> QED  BY <1>1, <1>6, <1>7, <1>8, <1>9, FileStands

\* The end of the operation: the stream stops, then the file is closed.
LEMMA EndStep ==
    ASSUME RecIInv, Rec!StopAll \/ Rec!CloseFile
    PROVE  RecIInv'
<1>0. DOMAIN rec = RecFields /\ DOMAIN ser = SerFields
  BY DEF RecIInv, RecTypes
<1>1. CASE Rec!StopAll
  <2>1. /\ rec.pc = "stop" /\ rec' = [rec EXCEPT !.pc = "close"] /\ Rec!StopStream
        /\ UNCHANGED <<ser, guided, stopRec, previews, shown>>
    BY <1>1 DEF Rec!StopAll, Rec!At, Rec!Goto
  <2>2. Keeps(rec') /\ rec'.pc = "close"
    BY <1>0, <2>1 DEF Keeps, RecFields
  <2>3. stream' \in Regions /\ (stream' = Rec!Off \/ "stop" \in slips') /\ slips \subseteq slips'
    BY <2>1, StopIs
  <2>4. Following(rec', stream', ser) /\ StreamOff(rec', stream', slips') /\ Rested(rec', guided', slips')
    BY <2>1, <2>2, <2>3 DEF RecIInv, Following, StreamOff, Rested
  <2>5. guided' = [at |-> guided'.at, goal |-> guided'.goal] /\ rec'.pc # "idle" /\ rec.pc # "idle"
    BY <2>1, <2>2 DEF RecIInv, RecTypes
  <2> QED  BY <2>1, <2>2, <2>3, <2>4, <2>5, FileStands DEF Keeps, RecIInv, RecTypes
<1>2. CASE Rec!CloseFile
  <2>1. PICK failed \in BOOLEAN :
          /\ Rec!Close(failed)
          /\ rec' = [rec EXCEPT !.pc = "idle", !.result = IF failed /\ @ = "success" THEN "failed" ELSE @]
    BY <1>2 DEF Rec!CloseFile
  <2>2. rec.pc = "close" /\ UNCHANGED <<stream, guided, stopRec, previews, shown>>
    BY <1>2 DEF Rec!CloseFile, Rec!At
  <2>3. Keeps(rec') /\ rec'.pc = "idle" /\ (failed => rec'.result # "success")
    BY <1>0, <2>1 DEF Keeps, RecFields
  <2>4. DOMAIN Rec!Closed(ser) = SerFields /\ DOMAIN [ser EXCEPT !.open = FALSE] = SerFields
    BY <1>0 DEF Rec!Closed
  <2>5. /\ LET c == Rec!Closed(ser) IN
              ~c.open /\ c.count = Len(ser.frames) /\ c.frames = ser.frames /\ c.marks = ser.marks
        /\ LET c == [ser EXCEPT !.open = FALSE] IN
              ~c.open /\ c.count = ser.count /\ c.frames = ser.frames /\ c.marks = ser.marks
    BY <1>0 DEF Rec!Closed, SerFields
  <2>6. /\ slips \subseteq slips' /\ DOMAIN ser' = SerFields /\ ~ser'.open
        /\ ser'.frames = ser.frames /\ ser'.marks = ser.marks
        /\ \/ ser'.count = Len(ser'.frames)
           \/ "close" \in slips' /\ failed
    <3>1. CASE ~ser.open
      BY <1>0, <2>1, <2>2, <3>1, SlipsGrow DEF Rec!Close, RecIInv, Counted
    <3>2. CASE ser.open
      BY <2>1, <2>4, <2>5, <3>2, SlipsGrow DEF Rec!Close
    <3> QED  BY <3>1, <3>2
  <2>7. rec.kind # "none"
    BY <2>2 DEF RecIInv, Counted
  <2>8. Counted(rec', ser', slips')
    BY <2>3, <2>6, <2>7 DEF Counted, Keeps
  <2>9. StreamOff(rec', stream', slips') /\ Rested(rec', guided', slips')
    BY <2>2, <2>3, <2>6 DEF RecIInv, StreamOff, Rested
  <2>10. RecTypes' /\ Marked(ser') /\ InOrderShown(previews', shown', rec'.frame)
    BY <2>2, <2>3, <2>6 DEF RecIInv, RecTypes, Marked, Keeps
  <2>11. NoSlip(slips') => Told(ser') /\ Following(rec', stream', ser')
    BY <2>3, <2>6 DEF NoSlip, RecIInv, Told, Following
  <2> QED  BY <2>8, <2>9, <2>10, <2>11 DEF RecIInv
<1> QED  BY <1>1, <1>2

\* Every step of the composition keeps the invariant.
LEMMA RecStep == RecIInv /\ [Next]_vars => RecIInv'
<1> SUFFICES ASSUME RecIInv, [Next]_vars PROVE RecIInv'
  OBVIOUS
<1>1. CASE RecNext
  BY <1>1, ViewerStep, PreparedStep, RecBeginStep, ShootStep, MaybePreviewStep, TrackStep, MarkStep,
     MountStep, EndStep
     DEF RecNext, Rec!RecNext
<1>2. CASE UNCHANGED recVars
  BY <1>2 DEF recVars, RecIInv, RecTypes
<1> QED  BY <1>1, <1>2 DEF Next, vars, MountNext, TableNext, SessionNext, LoaderNext, CanonNext, FocusNext,
         IndiNext, SdkNext, SolveNext, NetNext, HandNext, VideoNext, LinksNext

\* A set of positions up to n has a last one.
LEMMA LastOf ==
    ASSUME NEW n \in Nat, NEW T, T \subseteq 1 .. n, T # {}
    PROVE  \E x \in T : \A y \in T : x >= y
<1> DEFINE R == {ss \in Nat \X Nat : ss[1] < ss[2]}
           D == {n - x : x \in T}
<1>1. IsWellFoundedOn(R, Nat)
  BY NatLessThanWellFounded DEF OpToRel
<1>2. \A x, y \in Nat : <<y, x>> \in R <=> y < x
  OBVIOUS
<1>3. D \subseteq Nat /\ D # {} /\ \A d \in D : n - d \in T
  <2>1. \A x \in T : n - x \in Nat /\ n - (n - x) = x
    OBVIOUS
  <2> QED  BY <2>1
<1>4. \A x \in T : n - x \in D
  OBVIOUS
<1> HIDE DEF R, D
<1>5. PICK d \in D : \A e \in D : ~(<<e, d>> \in R)
  BY <1>1, <1>3, WFMin
<1>6. \A e \in D : d <= e
  <2> TAKE e \in D
  <2>1. ~(e < d) /\ e \in Nat /\ d \in Nat
    BY <1>2, <1>3, <1>5
  <2> QED  BY <2>1
<1>7. \A y \in T : n - d >= y
  BY <1>3, <1>4, <1>6
<1> QED  BY <1>3, <1>7

\* The provenance file gives the region of each frame.
LEMMA ToldIs == RecIInv /\ NoSlip(slips) => \A i \in DOMAIN ser.frames : Rec!Provenance(i) = ser.frames[i]
<1> SUFFICES ASSUME RecIInv, NoSlip(slips), NEW i \in DOMAIN ser.frames
             PROVE  Rec!Provenance(i) = ser.frames[i]
  OBVIOUS
<1> DEFINE from == {k \in DOMAIN ser.marks : ser.marks[k].from < i}
           m == Len(ser.marks)
<1>1. /\ ser.marks \in Seq(Marks) /\ ser.frames \in Seq(Regions) /\ Marked(ser) /\ Told(ser)
  BY DEF RecIInv, RecTypes
<1>2. m \in Nat /\ DOMAIN ser.marks = 1 .. m /\ i \in Nat /\ 1 <= i /\ ser.frames # <<>>
  BY <1>1
<1>3. ser.marks # <<>> /\ ser.marks[1].from = 0
  BY <1>1, <1>2 DEF Marked
<1>4. 1 \in from /\ from \subseteq 1 .. m
  BY <1>1, <1>2, <1>3
<1> HIDE DEF m
<1>5. PICK x \in from : \A y \in from : x >= y
  <2> HIDE DEF from
  <2> QED  BY <1>2, <1>4, LastOf
<1> DEFINE last == Rec!Max(from)
<1>6. last \in from /\ \A y \in from : last >= y
  <2> HIDE DEF from
  <2> QED  BY <1>5 DEF Rec!Max
<1> HIDE DEF last
<1>7. \A j \in DOMAIN ser.marks : ser.marks[j].from < i => j <= last
  BY <1>2, <1>6
<1>8. ser.marks[last].roi = ser.frames[i]
  BY <1>1, <1>6, <1>7 DEF Told
<1> QED  BY <1>8 DEF Rec!Provenance, last

\* However many frames are taken, whichever regions the sensor has, and whatever fails: the
\* provenance file tells each frame's region, nothing runs on unnoticed, previews are in order.
THEOREM RecordIsTrue == Spec => []RecordingHolds
<1>1. Init => RecIInv
  BY RecInitInv DEF Init
<1>2. ASSUME RecIInv PROVE RecordingHolds
  <2>1. Rec!RoiIsRecorded
    BY <1>2, ToldIs DEF Rec!RoiIsRecorded, NoSlip
  <2>2. Rec!LeavesNothing
    BY <1>2 DEF RecIInv, StreamOff, Counted, Rested, Rec!LeavesNothing, Rec!Slewing
  <2>3. Rec!PreviewsInOrder
    <3> DEFINE q == previews.queued
               all == <<shown>> \o q
    <3>1. /\ q \in Seq(Nat) /\ shown \in Nat /\ \A i \in DOMAIN q : shown <= q[i]
          /\ \A i, j \in DOMAIN q : i <= j => q[i] <= q[j]
      BY <1>2 DEF RecIInv, InOrderShown
    <3>2. /\ DOMAIN all = 1 .. Len(q) + 1 /\ DOMAIN q = 1 .. Len(q) /\ Len(q) \in Nat /\ all[1] = shown
          /\ \A i \in 1 .. Len(q) + 1 : i # 1 => i - 1 \in DOMAIN q /\ all[i] = q[i - 1]
      BY <3>1
    <3> HIDE DEF q, all
    <3>3. \A i, j \in DOMAIN all : i <= j => all[i] <= all[j]
      <4> TAKE i, j \in DOMAIN all
      <4> HAVE i <= j
      <4>1. CASE j = 1
        BY <3>1, <3>2, <4>1
      <4>2. CASE i = 1 /\ j # 1
        BY <3>1, <3>2, <4>2
      <4>3. CASE i # 1 /\ j # 1
        <5>1. i - 1 \in DOMAIN q /\ j - 1 \in DOMAIN q /\ i - 1 <= j - 1
          BY <3>2, <4>3
        <5> QED  BY <3>1, <3>2, <4>3, <5>1
      <4> QED  BY <4>1, <4>2, <4>3
    <3> QED  BY <3>3 DEF Rec!PreviewsInOrder, all, q
  <2> QED  BY <2>1, <2>2, <2>3 DEF RecordingHolds, Rec!RecordingHolds
<1> QED  BY <1>1, <1>2, RecStep, PTL DEF Spec

-----------------------------------------------------------------------------
(* Solving: solutions and samples are of their frames, and a polar         *)
(* alignment ends with its slew.                                           *)

SolveFrames == [no : Nat, at : Nat]
SolveSteps == {"end", "attempt", "frame", "prepare", "solve", "commit",
               "unpark", "sample", "expose", "publish", "step", "wait", "estimate", "save"}
SolveTasks == [kind : {"none", "adaptive", "polar"}, step : SolveSteps, n : Nat, left : Int,
               seen : Nat, frame : SolveFrames, result : [of : SolveFrames, ok : BOOLEAN],
               samples : Seq([frame : SolveFrames, mount : Nat]), restless : BOOLEAN,
               then : {"end", "sample", "save"}]

SolvingTypes ==
    /\ task \in SolveTasks
    /\ scope \in [at : Nat, slewing : {"no", "hand", "task"}, turning : BOOLEAN, parked : BOOLEAN]

\* What is to be published is of its frame: a search that ends without a solution ends
\* with the frame it tried last.
ResultIsOfFrame ==
    /\ lastSolve.of = lastSolve.with
    /\ task.step = "commit" => task.result.of = task.frame
    /\ task.step = "attempt" /\ task.n = Attempts => task.result.of = task.frame

\* While an alignment that began at rest looks at the sky, the mount rests.
RestsWhenSeen ==
    task.kind = "polar" /\ task.step # "end" /\ ~task.restless =>
        /\ ~scope.turning
        /\ task.step \in {"unpark", "sample", "expose"} => scope.slewing = "no"
        /\ task.step = "expose" => task.seen = scope.at
        /\ task.step = "publish" => task.seen = task.frame.at

\* An alignment of its own kind takes its steps; its slew is waited for.
SlewIsAwaited ==
    /\ scope.slewing = "task" => slipped # {} \/ (task.kind = "polar" /\ task.step = "wait")
    /\ task.step \in {"unpark", "sample", "expose", "publish", "step", "wait", "estimate", "save"} => task.kind = "polar"

SolvingIInv == SolvingTypes /\ ResultIsOfFrame /\ RestsWhenSeen /\ SlewIsAwaited /\ Solve!SamplesFit

\* What a step of a task changes of its record, and what it keeps.
Kept(u, t) == u \in SolveTasks /\ u.kind = t.kind /\ u.restless = t.restless
\* The steps by name.
LEMMA StepsAre ==
    /\ "end" \in SolveSteps /\ "attempt" \in SolveSteps /\ "frame" \in SolveSteps /\ "prepare" \in SolveSteps
    /\ "solve" \in SolveSteps /\ "commit" \in SolveSteps /\ "unpark" \in SolveSteps /\ "sample" \in SolveSteps
    /\ "expose" \in SolveSteps /\ "publish" \in SolveSteps /\ "step" \in SolveSteps /\ "wait" \in SolveSteps
    /\ "estimate" \in SolveSteps /\ "save" \in SolveSteps
BY DEF SolveSteps

\* The step alone.
LEMMA TaskGoes ==
    ASSUME NEW t \in SolveTasks, NEW st \in SolveSteps
    PROVE  LET u == [t EXCEPT !.step = st] IN
           /\ Kept(u, t) /\ u.step = st /\ u.n = t.n /\ u.seen = t.seen /\ u.frame = t.frame
           /\ u.result = t.result /\ u.samples = t.samples
BY DEF SolveTasks, Kept

\* A result of its frame.
LEMMA TaskSolves ==
    ASSUME NEW t \in SolveTasks, NEW st \in SolveSteps, NEW ok \in BOOLEAN
    PROVE  LET u == [t EXCEPT !.result = [of |-> t.frame, ok |-> ok], !.step = st] IN
           Kept(u, t) /\ u.step = st /\ u.frame = t.frame /\ u.result.of = t.frame /\ u.samples = t.samples
<1> DEFINE r == [of |-> t.frame, ok |-> ok]
<1>1. r \in [of : SolveFrames, ok : BOOLEAN] /\ r.of = t.frame
  BY DEF SolveTasks
<1> HIDE DEF r
<1>2. LET u == [t EXCEPT !.result = r, !.step = st] IN
      Kept(u, t) /\ u.step = st /\ u.frame = t.frame /\ u.result = r /\ u.samples = t.samples
  BY <1>1 DEF SolveTasks, Kept
<1> QED  BY <1>1, <1>2 DEF r

\* A wait, and what follows it.
LEMMA TaskWaits ==
    ASSUME NEW t \in SolveTasks, NEW st \in SolveSteps, NEW th \in {"end", "sample", "save"}
    PROVE  LET u == [t EXCEPT !.step = st, !.then = th] IN
           Kept(u, t) /\ u.step = st /\ u.samples = t.samples
BY DEF SolveTasks, Kept

\* The mount rests and nothing was solved yet.
LEMMA SolvingInitInv == Solve!SolvingInit => SolvingIInv
<1> SUFFICES ASSUME Solve!SolvingInit PROVE SolvingIInv
  OBVIOUS
<1>1. /\ scope = [at |-> 1, slewing |-> "no", turning |-> FALSE, parked |-> FALSE]
      /\ task = Solve!NoTask /\ lastSolve = Solve!NoSolve
  BY DEF Solve!SolvingInit
<1>2. /\ task \in SolveTasks /\ task.step = "end" /\ task.kind = "none" /\ task.samples = <<>>
  BY <1>1 DEF SolveTasks, SolveSteps, SolveFrames, Solve!NoTask, Solve!NoResult, Solve!NoFrame
<1>3. lastSolve.of = lastSolve.with
  BY <1>1 DEF Solve!NoSolve
<1>4. SolvingTypes
  BY <1>1, <1>2 DEF SolvingTypes
<1>5. ResultIsOfFrame /\ RestsWhenSeen /\ SlewIsAwaited
  BY <1>1, <1>2, <1>3 DEF ResultIsOfFrame, RestsWhenSeen, SlewIsAwaited
<1>6. Solve!SamplesFit
  BY <1>2 DEF Solve!SamplesFit
<1> QED  BY <1>4, <1>5, <1>6 DEF SolvingIInv

\* The adaptive solve goes through its attempts; the mount is not its own.
LEMMA AdaptiveStep ==
    ASSUME SolvingIInv,
           \/ Solve!Adaptive \/ Solve!Attempt \/ Solve!ShortFrame \/ Solve!Prepare \/ Solve!SolveFrame
           \/ Solve!Commit
    PROVE  SolvingIInv'
<1>0. SolvingTypes /\ ResultIsOfFrame /\ RestsWhenSeen /\ SlewIsAwaited /\ Solve!SamplesFit
  BY DEF SolvingIInv
<1>1. UNCHANGED <<scope, slipped>>
  BY DEF Solve!Adaptive, Solve!Attempt, Solve!ShortFrame, Solve!Prepare, Solve!SolveFrame, Solve!Commit, Solve!NoSlip
<1>2. task.n \in Nat /\ task.left \in Int /\ Attempts \in Nat /\ Stack \in Nat
  BY <1>0, SolvingAssumption DEF SolvingTypes, SolveTasks
<1>3. CASE Solve!Adaptive
  <2>1. /\ task.step = "end" /\ lastSolve' = lastSolve
        /\ task' = [Solve!NoTask EXCEPT !.kind = "adaptive", !.step = "attempt"]
    BY <1>3 DEF Solve!Adaptive, Solve!Shared
  <2>2. /\ task' \in SolveTasks /\ task'.kind = "adaptive" /\ task'.step = "attempt" /\ task'.samples = <<>>
        /\ task'.result.of = task'.frame
    <3>1. task' = [kind |-> "adaptive", step |-> "attempt", n |-> 0, left |-> 0, seen |-> 0, frame |-> Solve!NoFrame,
                   result |-> Solve!NoResult, samples |-> <<>>, restless |-> FALSE, then |-> "end"]
      BY <2>1 DEF Solve!NoTask
    <3>2. Solve!NoFrame \in SolveFrames /\ Solve!NoResult \in [of : SolveFrames, ok : BOOLEAN]
          /\ Solve!NoResult.of = Solve!NoFrame
      BY DEF SolveFrames, Solve!NoFrame, Solve!NoResult
    <3>3. <<>> \in Seq([frame : SolveFrames, mount : Nat])
      OBVIOUS
    <3> QED  BY <3>1, <3>2, <3>3 DEF SolveTasks, SolveSteps
  <2>3. Solve!SamplesFit'
    BY <2>2 DEF Solve!SamplesFit
  <2> QED  BY <1>0, <1>1, <2>1, <2>2, <2>3
           DEF SolvingIInv, SolvingTypes, ResultIsOfFrame, RestsWhenSeen, SlewIsAwaited
<1>4. CASE Solve!Attempt \/ Solve!ShortFrame \/ Solve!Prepare \/ Solve!SolveFrame \/ Solve!Commit
  <2>1. /\ task.kind = "adaptive" /\ task.step \in {"attempt", "frame", "prepare", "solve", "commit"}
        /\ task' \in SolveTasks /\ task'.kind = "adaptive" /\ task'.samples = task.samples
        /\ task'.restless = task.restless
        /\ task'.step \in {"end", "attempt", "frame", "prepare", "solve", "commit"}
        /\ task'.step = "commit" => task'.result.of = task'.frame
        /\ task'.step = "attempt" /\ task'.n = Attempts => task'.result.of = task'.frame
        /\ lastSolve' = lastSolve \/ (lastSolve' = [of |-> task.result.of, with |-> task.frame] /\ task.step = "commit")
    <3>1. task \in SolveTasks
      BY <1>0 DEF SolvingTypes
    <3>2. CASE Solve!Attempt
      <4>1. /\ task.kind = "adaptive" /\ task.step = "attempt" /\ lastSolve' = lastSolve
            /\ \/ task.n = Attempts /\ task' = [task EXCEPT !.step = "commit"]
               \/ task' = [task EXCEPT !.step = "end"]
               \/ task' = [task EXCEPT !.step = "frame", !.n = task.n + 1, !.left = IF task.n = 0 THEN 1 ELSE Stack]
        BY <3>2 DEF Solve!Attempt, Solve!Doing, Solve!Go, Solve!Stop, Solve!Shared
      <4> DEFINE e == [task EXCEPT !.step = "end"]
                 c == [task EXCEPT !.step = "commit"]
                 n == task.n + 1
                 more == IF task.n = 0 THEN 1 ELSE Stack
                 a == [task EXCEPT !.step = "frame", !.n = n, !.left = more]
      <4>2. Kept(e, task) /\ e.step = "end" /\ e.samples = task.samples
        BY <3>1, TaskGoes, StepsAre
      <4>3. /\ Kept(c, task) /\ c.step = "commit" /\ c.samples = task.samples
            /\ c.result = task.result /\ c.frame = task.frame
        BY <3>1, TaskGoes, StepsAre
      <4>4. n \in Nat /\ more \in Int
        BY <1>2
      <4> HIDE DEF n, more
      <4>5. Kept(a, task) /\ a.step = "frame" /\ a.samples = task.samples
        BY <3>1, <4>4, StepsAre DEF SolveTasks, Kept
      <4>6. (task' = c /\ task.n = Attempts) \/ task' = e \/ task' = a
        BY <4>1 DEF n, more
      <4> HIDE DEF e, c, a
      <4>7. /\ task' \in SolveTasks /\ task'.kind = "adaptive" /\ task'.samples = task.samples
            /\ task'.restless = task.restless
        BY <4>1, <4>2, <4>3, <4>5, <4>6 DEF Kept
      <4>8. task'.step \in {"end", "attempt", "frame", "prepare", "solve", "commit"}
        BY <4>2, <4>3, <4>5, <4>6
      <4>9. task'.step = "commit" => task'.result.of = task'.frame
        BY <1>0, <4>1, <4>2, <4>3, <4>5, <4>6 DEF ResultIsOfFrame
      <4>10. task'.step = "attempt" /\ task'.n = Attempts => task'.result.of = task'.frame
        BY <4>2, <4>3, <4>5, <4>6
      <4> QED  BY <4>1, <4>7, <4>8, <4>9, <4>10
    <3>3. CASE Solve!ShortFrame
      <4>1. /\ task.kind = "adaptive" /\ task.step = "frame" /\ lastSolve' = lastSolve
            /\ \/ task' = [task EXCEPT !.step = "end"]
               \/ task' = [task EXCEPT !.left = task.left - 1, !.step = IF task.left = 1 THEN "prepare" ELSE "frame",
                                       !.frame = [no |-> task.n, at |-> 0]]
        BY <3>3 DEF Solve!ShortFrame, Solve!Doing, Solve!Go, Solve!Stop, Solve!Shared
      <4>2. [no |-> task.n, at |-> 0] \in SolveFrames
        BY <1>2 DEF SolveFrames
      <4> DEFINE e == [task EXCEPT !.step = "end"]
                 f == [no |-> task.n, at |-> 0]
                 more == task.left - 1
                 st == IF task.left = 1 THEN "prepare" ELSE "frame"
                 a == [task EXCEPT !.left = more, !.step = st, !.frame = f]
      <4>3. Kept(e, task) /\ e.step = "end" /\ e.samples = task.samples
        BY <3>1, TaskGoes, StepsAre
      <4>4. more \in Int /\ st \in SolveSteps /\ st \in {"prepare", "frame"} /\ f \in SolveFrames
        BY <1>2, <4>2, StepsAre
      <4>5. task' = e \/ task' = a
        BY <4>1
      <4> HIDE DEF more, st, f
      <4>6. Kept(a, task) /\ a.step = st /\ a.samples = task.samples
        BY <3>1, <4>4 DEF SolveTasks, Kept
      <4> HIDE DEF e, a
      <4>7. /\ task' \in SolveTasks /\ task'.kind = "adaptive" /\ task'.samples = task.samples
            /\ task'.restless = task.restless
        BY <4>1, <4>3, <4>4, <4>5, <4>6 DEF Kept
      <4>8. task'.step \in {"end", "attempt", "frame", "prepare", "solve", "commit"}
        BY <4>3, <4>4, <4>5, <4>6
      <4>9. task'.step = "commit" => task'.result.of = task'.frame
        BY <4>3, <4>4, <4>5, <4>6
      <4>10. task'.step = "attempt" /\ task'.n = Attempts => task'.result.of = task'.frame
        BY <4>3, <4>4, <4>5, <4>6
      <4> QED  BY <4>1, <4>7, <4>8, <4>9, <4>10
    <3>4. CASE Solve!Prepare
      <4>1. /\ task.kind = "adaptive" /\ task.step = "prepare" /\ lastSolve' = lastSolve
            /\ \/ task' = [task EXCEPT !.step = "end"]
               \/ task' = [task EXCEPT !.step = "solve"]
               \/ task.n < Attempts /\ task' = [task EXCEPT !.step = "attempt"]
        BY <3>4 DEF Solve!Prepare, Solve!Doing, Solve!Go, Solve!Stop, Solve!Shared, Solve!MayGiveUp
      <4> DEFINE u(st) == [task EXCEPT !.step = st]
      <4>2. \A st \in SolveSteps : Kept(u(st), task) /\ u(st).step = st /\ u(st).samples = task.samples /\ u(st).n = task.n
        BY <3>1, TaskGoes
      <4>3. \/ task' = u("end") \/ task' = u("solve")
            \/ task' = u("attempt") /\ task.n # Attempts
        BY <1>2, <4>1
      <4> HIDE DEF u
      <4>4. /\ task' \in SolveTasks /\ task'.kind = "adaptive" /\ task'.samples = task.samples
            /\ task'.restless = task.restless
        BY <4>1, <4>2, <4>3, StepsAre DEF Kept
      <4>5. task'.step \in {"end", "attempt", "frame", "prepare", "solve", "commit"}
        BY <4>2, <4>3, StepsAre
      <4>6. task'.step = "commit" => task'.result.of = task'.frame
        BY <4>2, <4>3, StepsAre
      <4>7. task'.step = "attempt" /\ task'.n = Attempts => task'.result.of = task'.frame
        BY <1>2, <4>2, <4>3, StepsAre
      <4> QED  BY <4>1, <4>4, <4>5, <4>6, <4>7
    <3>5. CASE Solve!SolveFrame
      <4>1. PICK ok \in BOOLEAN : task' = [task EXCEPT !.result = [of |-> task.frame, ok |-> ok],
                                                     !.step = IF ok THEN "commit" ELSE "attempt"]
        <5>1. PICK result \in Solve!Solutions(task.frame) :
                 task' = [task EXCEPT !.result = result, !.step = IF result.ok THEN "commit" ELSE "attempt"]
          BY <3>5 DEF Solve!SolveFrame
        <5>2. PICK ok \in BOOLEAN : result = [of |-> task.frame, ok |-> ok]
          BY DEF Solve!Solutions
        <5> QED  BY <5>1, <5>2
      <4>2. task.kind = "adaptive" /\ task.step = "solve" /\ lastSolve' = lastSolve
        BY <3>5 DEF Solve!SolveFrame, Solve!Doing, Solve!Shared
      <4>3. task.frame \in SolveFrames
        BY <3>1 DEF SolveTasks
      <4> DEFINE st == IF ok THEN "commit" ELSE "attempt"
                 u == [task EXCEPT !.result = [of |-> task.frame, ok |-> ok], !.step = st]
      <4>4. st \in SolveSteps /\ st \in {"commit", "attempt"} /\ task' = u
        BY <4>1, StepsAre
      <4> HIDE DEF st
      <4>5. Kept(u, task) /\ u.step = st /\ u.frame = task.frame /\ u.result.of = task.frame /\ u.samples = task.samples
        BY <3>1, <4>4, TaskSolves, ZenonT(90)
      <4> HIDE DEF u
      <4>6. /\ task' \in SolveTasks /\ task'.kind = "adaptive" /\ task'.samples = task.samples
            /\ task'.restless = task.restless
        BY <4>2, <4>4, <4>5 DEF Kept
      <4>7. task'.step \in {"end", "attempt", "frame", "prepare", "solve", "commit"}
        BY <4>4, <4>5
      <4>8. task'.step = "commit" => task'.result.of = task'.frame
        BY <4>4, <4>5
      <4>9. task'.step = "attempt" /\ task'.n = Attempts => task'.result.of = task'.frame
        BY <4>4, <4>5
      <4> QED  BY <4>2, <4>6, <4>7, <4>8, <4>9
    <3>6. CASE Solve!Commit
      <4>1. /\ task.kind = "adaptive" /\ task.step = "commit" /\ task' = [task EXCEPT !.step = "end"]
            /\ lastSolve' = [of |-> task.result.of, with |-> task.frame]
        BY <3>6 DEF Solve!Commit, Solve!Doing, Solve!Announce, Solve!Go, Solve!Stop
      <4> QED  BY <1>2, <3>1, <4>1, TaskGoes, StepsAre DEF Kept
    <3> QED  BY <1>4, <3>2, <3>3, <3>4, <3>5, <3>6
  <2>2. Solve!SamplesFit'
    BY <1>0, <2>1 DEF Solve!SamplesFit
  <2> QED  BY <1>0, <1>1, <2>1, <2>2
           DEF SolvingIInv, SolvingTypes, ResultIsOfFrame, RestsWhenSeen, SlewIsAwaited
<1> QED  BY <1>3, <1>4

\* Slews, exposures and waits of a polar alignment.
LEMMA PolarStep ==
    ASSUME SolvingIInv,
           \/ Solve!Polar \/ Solve!UnparkFirst \/ Solve!Sample \/ Solve!Expose \/ Solve!Publish
           \/ Solve!Step \/ Solve!Wait \/ Solve!Estimate \/ Solve!Save
    PROVE  SolvingIInv'
<1>0. SolvingTypes /\ ResultIsOfFrame /\ RestsWhenSeen /\ SlewIsAwaited /\ Solve!SamplesFit
  BY DEF SolvingIInv
<1>1. /\ task \in SolveTasks /\ task.n \in Nat /\ scope.at \in Nat /\ task.frame \in SolveFrames /\ task.seen \in Nat
      /\ scope \in [at : Nat, slewing : {"no", "hand", "task"}, turning : BOOLEAN, parked : BOOLEAN]
      /\ task.samples \in Seq([frame : SolveFrames, mount : Nat])
  BY <1>0 DEF SolvingTypes, SolveTasks
<1>2. CASE Solve!Polar
  <2>1. /\ task.step = "end" /\ UNCHANGED <<lastSolve, scope, slipped>>
        /\ task' = [Solve!NoTask EXCEPT !.kind = "polar", !.step = "unpark",
                                        !.restless = scope.slewing # "no" \/ scope.turning]
    BY <1>2 DEF Solve!Polar, Solve!Shared, Solve!NoSlip
  <2> DEFINE moves == scope.slewing # "no" \/ scope.turning
  <2>2. task' = [kind |-> "polar", step |-> "unpark", n |-> 0, left |-> 0, seen |-> 0, frame |-> Solve!NoFrame,
                 result |-> Solve!NoResult, samples |-> <<>>, restless |-> moves, then |-> "end"]
    BY <2>1 DEF Solve!NoTask
  <2>3. moves \in BOOLEAN /\ (~moves => ~scope.turning /\ scope.slewing = "no")
    OBVIOUS
  <2> HIDE DEF moves
  <2>4. Solve!NoFrame \in SolveFrames /\ Solve!NoResult \in [of : SolveFrames, ok : BOOLEAN]
    BY DEF SolveFrames, Solve!NoFrame, Solve!NoResult
  <2>5. <<>> \in Seq([frame : SolveFrames, mount : Nat])
    OBVIOUS
  <2>6. /\ task' \in SolveTasks /\ task'.kind = "polar" /\ task'.step = "unpark" /\ task'.samples = <<>>
        /\ ~task'.restless => ~scope.turning /\ scope.slewing = "no"
    BY <2>2, <2>3, <2>4, <2>5 DEF SolveTasks, SolveSteps
  <2>7. Solve!SamplesFit'
    BY <2>6 DEF Solve!SamplesFit
  <2> QED  BY <1>0, <2>1, <2>6, <2>7
           DEF SolvingIInv, SolvingTypes, ResultIsOfFrame, RestsWhenSeen, SlewIsAwaited
<1>3. CASE Solve!UnparkFirst
  <2>1. /\ task.kind = "polar" /\ task.step = "unpark" /\ UNCHANGED <<lastSolve, slipped>>
        /\ \/ task' = [task EXCEPT !.step = "end"] /\ scope' = scope
           \/ task' = [task EXCEPT !.step = "wait", !.then = "sample"] /\ scope' = [scope EXCEPT !.parked = FALSE]
           \/ task' = [task EXCEPT !.step = "sample"] /\ scope' = scope
    BY <1>3 DEF Solve!UnparkFirst, Solve!Doing, Solve!Go, Solve!Stop, Solve!Shared, Solve!NoSlip
  <2>2. /\ task' \in SolveTasks /\ task'.samples = task.samples /\ task'.restless = task.restless
        /\ task'.kind = "polar" /\ task'.step \in {"end", "wait", "sample"}
        /\ task'.step = "sample" => scope' = scope
        /\ scope' \in [at : Nat, slewing : {"no", "hand", "task"}, turning : BOOLEAN, parked : BOOLEAN]
        /\ scope'.slewing = scope.slewing /\ scope'.turning = scope.turning
    <3> DEFINE u(st) == [task EXCEPT !.step = st]
               w == [task EXCEPT !.step = "wait", !.then = "sample"]
               o == [scope EXCEPT !.parked = FALSE]
    <3>1. \A st \in SolveSteps : Kept(u(st), task) /\ u(st).step = st /\ u(st).samples = task.samples
      BY <1>1, TaskGoes, SMTT(60)
    <3>2. Kept(w, task) /\ w.step = "wait" /\ w.samples = task.samples
      BY <1>1, TaskWaits, StepsAre
    <3>3. /\ o \in [at : Nat, slewing : {"no", "hand", "task"}, turning : BOOLEAN, parked : BOOLEAN]
          /\ o.slewing = scope.slewing /\ o.turning = scope.turning
      BY <1>1
    <3>4. \/ task' = u("end") /\ scope' = scope
          \/ task' = w /\ scope' = o
          \/ task' = u("sample") /\ scope' = scope
      BY <2>1
    <3> HIDE DEF u, w, o
    <3> QED  BY <1>1, <2>1, <3>1, <3>2, <3>3, <3>4, StepsAre DEF Kept
  <2>3. Solve!SamplesFit'
    BY <1>0, <2>2 DEF Solve!SamplesFit
  <2> QED  BY <1>0, <2>1, <2>2, <2>3
           DEF SolvingIInv, SolvingTypes, ResultIsOfFrame, RestsWhenSeen, SlewIsAwaited
<1>4. CASE Solve!Sample
  <2>1. /\ task.kind = "polar" /\ task.step = "sample" /\ UNCHANGED <<lastSolve, slipped, scope>>
        /\ \/ task' = [task EXCEPT !.step = "end"]
           \/ task' = [task EXCEPT !.step = "expose", !.seen = scope.at, !.n = task.n + 1]
    BY <1>4 DEF Solve!Sample, Solve!Doing, Solve!Go, Solve!Stop, Solve!Shared, Solve!NoSlip
  <2>2. /\ task' \in SolveTasks /\ task'.samples = task.samples /\ task'.restless = task.restless
        /\ task'.kind = "polar" /\ task'.step \in {"end", "expose"}
        /\ task'.step = "expose" => task'.seen = scope.at
    <3> DEFINE e == [task EXCEPT !.step = "end"]
               u == [task EXCEPT !.step = "expose", !.seen = scope.at, !.n = task.n + 1]
    <3>1. Kept(e, task) /\ e.step = "end" /\ e.samples = task.samples
      BY <1>1, TaskGoes, StepsAre
    <3>2. Kept(u, task) /\ u.step = "expose" /\ u.seen = scope.at /\ u.samples = task.samples
      <4> DEFINE n == task.n + 1
      <4>1. n \in Nat
        BY <1>1
      <4> HIDE DEF n
      <4>2. LET v == [task EXCEPT !.step = "expose", !.seen = scope.at, !.n = n]
            IN  Kept(v, task) /\ v.step = "expose" /\ v.seen = scope.at /\ v.samples = task.samples
        BY <1>1, <4>1, StepsAre DEF SolveTasks, Kept
      <4> QED  BY <4>2 DEF n
    <3>3. task' = e \/ task' = u
      BY <2>1
    <3> HIDE DEF e, u
    <3> QED  BY <2>1, <3>1, <3>2, <3>3 DEF Kept
  <2>3. Solve!SamplesFit'
    BY <1>0, <2>2 DEF Solve!SamplesFit
  <2> QED  BY <1>0, <2>1, <2>2, <2>3
           DEF SolvingIInv, SolvingTypes, ResultIsOfFrame, RestsWhenSeen, SlewIsAwaited
<1>5. CASE Solve!Expose
  <2>1. /\ task.kind = "polar" /\ task.step = "expose" /\ UNCHANGED <<lastSolve, slipped, scope>>
        /\ \/ task' = [task EXCEPT !.step = "end"]
           \/ task' = [task EXCEPT !.step = "publish", !.frame = [no |-> task.n, at |-> scope.at]]
    BY <1>5 DEF Solve!Expose, Solve!Doing, Solve!Go, Solve!Stop, Solve!Shared, Solve!NoSlip
  <2>2. [no |-> task.n, at |-> scope.at] \in SolveFrames
    BY <1>1 DEF SolveFrames
  <2>3. /\ task' \in SolveTasks /\ task'.samples = task.samples /\ task'.restless = task.restless
        /\ task'.kind = "polar" /\ task'.step \in {"end", "publish"} /\ task'.seen = task.seen
        /\ task'.step = "publish" => task'.frame.at = scope.at
    <3> DEFINE e == [task EXCEPT !.step = "end"]
               f == [no |-> task.n, at |-> scope.at]
               u == [task EXCEPT !.step = "publish", !.frame = f]
    <3>1. Kept(e, task) /\ e.step = "end" /\ e.samples = task.samples /\ e.seen = task.seen
      BY <1>1, TaskGoes, StepsAre
    <3>2. f \in SolveFrames /\ f.at = scope.at
      BY <2>2
    <3>3. task' = e \/ task' = u
      BY <2>1
    <3> HIDE DEF f
    <3>4. Kept(u, task) /\ u.step = "publish" /\ u.frame = f /\ u.seen = task.seen /\ u.samples = task.samples
      BY <1>1, <3>2, StepsAre DEF SolveTasks, Kept
    <3> HIDE DEF e, u
    <3> QED  BY <2>1, <3>1, <3>2, <3>3, <3>4 DEF Kept
  <2>4. Solve!SamplesFit'
    BY <1>0, <2>3 DEF Solve!SamplesFit
  <2> QED  BY <1>0, <2>1, <2>3, <2>4
           DEF SolvingIInv, SolvingTypes, ResultIsOfFrame, RestsWhenSeen, SlewIsAwaited
<1>6. CASE Solve!Publish
  <2> DEFINE sample == [frame |-> task.frame, mount |-> task.seen]
  <2>1. PICK ok \in BOOLEAN :
          /\ lastSolve' = [of |-> task.frame, with |-> task.frame]
          /\ IF ~ok THEN task' = [task EXCEPT !.step = "end"]
             ELSE \E step \in {"estimate", "step"} :
                     task' = [task EXCEPT !.samples = Append(task.samples, sample), !.step = step]
    <3>1. PICK result \in Solve!Solutions(task.frame) :
             /\ lastSolve' = [of |-> result.of, with |-> task.frame]
             /\ IF ~result.ok THEN task' = [task EXCEPT !.step = "end"]
                ELSE task' = [task EXCEPT !.samples = Append(task.samples, sample),
                                          !.step = IF task.n = Samples THEN "estimate" ELSE "step"]
      BY <1>6 DEF Solve!Publish, Solve!Announce, Solve!Go, Solve!Stop
    <3>2. PICK ok \in BOOLEAN : result = [of |-> task.frame, ok |-> ok]
      BY DEF Solve!Solutions
    <3> QED  BY <3>1, <3>2
  <2>2. task.kind = "polar" /\ task.step = "publish" /\ UNCHANGED <<slipped, scope>>
    BY <1>6 DEF Solve!Publish, Solve!Doing, Solve!NoSlip
  <2>3. /\ Append(task.samples, sample) \in Seq([frame : SolveFrames, mount : Nat])
        /\ \A i \in DOMAIN Append(task.samples, sample) :
              (i \in DOMAIN task.samples /\ Append(task.samples, sample)[i] = task.samples[i])
              \/ Append(task.samples, sample)[i] = sample
    <3>1. sample \in [frame : SolveFrames, mount : Nat]
      BY <1>1
    <3> HIDE DEF sample
    <3> QED  BY <1>1, <3>1
  <2>4. sample.mount = task.seen /\ sample.frame.at = task.frame.at
    OBVIOUS
  <2> HIDE DEF sample
  <2>5. /\ task' \in SolveTasks /\ task'.restless = task.restless
        /\ task'.kind = "polar" /\ task'.step \in {"end", "step", "estimate"}
        /\ task'.samples = task.samples \/ task'.samples = Append(task.samples, sample)
    <3> DEFINE e == [task EXCEPT !.step = "end"]
               more == Append(task.samples, sample)
               u(st) == [task EXCEPT !.samples = more, !.step = st]
    <3>1. Kept(e, task) /\ e.step = "end" /\ e.samples = task.samples
      BY <1>1, TaskGoes, StepsAre
    <3>2. task' = e \/ task' = u("estimate") \/ task' = u("step")
      BY <2>1
    <3>3. more \in Seq([frame : SolveFrames, mount : Nat])
      BY <2>3
    <3> HIDE DEF more
    <3>4. \A st \in SolveSteps : Kept(u(st), task) /\ u(st).step = st /\ u(st).samples = more
      BY <1>1, <3>3 DEF SolveTasks, Kept
    <3> HIDE DEF e, u
    <3> QED  BY <2>2, <3>1, <3>2, <3>4, StepsAre DEF Kept, more
  <2>6. Solve!SamplesFit'
    <3> SUFFICES ASSUME ~task.restless, NEW i \in DOMAIN task'.samples
                 PROVE  task'.samples[i].mount = task'.samples[i].frame.at
      BY <2>5 DEF Solve!SamplesFit
    <3>1. task.seen = task.frame.at
      BY <1>0, <2>2 DEF RestsWhenSeen
    <3> QED  BY <1>0, <2>3, <2>4, <2>5, <3>1 DEF Solve!SamplesFit
  <2> QED  BY <1>0, <2>1, <2>2, <2>5, <2>6
           DEF SolvingIInv, SolvingTypes, ResultIsOfFrame, RestsWhenSeen, SlewIsAwaited
<1>7. CASE Solve!Step \/ Solve!Estimate
  <2>1. /\ task.kind = "polar" /\ task.step \in {"step", "estimate"} /\ UNCHANGED <<lastSolve, slipped>>
        /\ \/ task' = [task EXCEPT !.step = "end"] /\ scope' = scope
           \/ task' = [task EXCEPT !.step = "save"] /\ scope' = scope
           \/ \E then \in {"sample", "save"} :
                 /\ task' = [task EXCEPT !.step = "wait", !.then = then]
                 /\ scope' = [scope EXCEPT !.slewing = "task", !.turning = FALSE]
    BY <1>7 DEF Solve!Step, Solve!Estimate, Solve!Slew, Solve!Doing, Solve!Go, Solve!Stop, Solve!Shared, Solve!NoSlip
  <2>2. /\ task' \in SolveTasks /\ task'.samples = task.samples /\ task'.restless = task.restless
        /\ task'.kind = "polar" /\ task'.step \in {"end", "wait", "save"}
        /\ scope' = scope \/ (task'.step = "wait" /\ ~scope'.turning)
        /\ scope' \in [at : Nat, slewing : {"no", "hand", "task"}, turning : BOOLEAN, parked : BOOLEAN]
    <3> DEFINE u(st) == [task EXCEPT !.step = st]
               w(then) == [task EXCEPT !.step = "wait", !.then = then]
               o == [scope EXCEPT !.slewing = "task", !.turning = FALSE]
    <3>1. \A st \in SolveSteps : Kept(u(st), task) /\ u(st).step = st /\ u(st).samples = task.samples
      BY <1>1, TaskGoes
    <3>2. \A then \in {"end", "sample", "save"} :
             Kept(w(then), task) /\ w(then).step = "wait" /\ w(then).samples = task.samples
      BY <1>1, TaskWaits, StepsAre
    <3>3. /\ o \in [at : Nat, slewing : {"no", "hand", "task"}, turning : BOOLEAN, parked : BOOLEAN]
          /\ o.turning = FALSE
      BY <1>1
    <3>4. \/ task' = u("end") /\ scope' = scope
          \/ task' = u("save") /\ scope' = scope
          \/ (task' = w("sample") \/ task' = w("save")) /\ scope' = o
      BY <2>1
    <3> HIDE DEF u, w, o
    <3> QED  BY <1>1, <2>1, <3>1, <3>2, <3>3, <3>4, StepsAre DEF Kept
  <2>3. Solve!SamplesFit'
    BY <1>0, <2>2 DEF Solve!SamplesFit
  <2> QED  BY <1>0, <2>1, <2>2, <2>3
           DEF SolvingIInv, SolvingTypes, ResultIsOfFrame, RestsWhenSeen, SlewIsAwaited
<1>8. CASE Solve!Wait
  <2>1. /\ task.kind = "polar" /\ task.step = "wait" /\ UNCHANGED lastSolve
        /\ \/ scope.slewing = "no" /\ scope' = scope /\ slipped' = slipped /\ task' = [task EXCEPT !.step = task.then]
           \/ /\ task' = [task EXCEPT !.step = "save"] \/ task' = [task EXCEPT !.step = "end"]
              /\ \/ scope' = [scope EXCEPT !.slewing = "no", !.turning = FALSE] /\ slipped' = slipped
                 \/ scope' = scope /\ slipped' # {}
    BY <1>8 DEF Solve!Wait, Solve!WaitIdle, Solve!AbortMotion, Solve!Slip, Solve!Doing, Solve!Go, Solve!Shared, Solve!NoSlip
  <2>2. task.then \in {"end", "sample", "save"}
    BY <1>1 DEF SolveTasks
  <2>3. /\ task' \in SolveTasks /\ task'.samples = task.samples /\ task'.restless = task.restless
        /\ task'.kind = "polar" /\ task'.step \in {"end", "sample", "save"}
        /\ task'.step = "sample" => scope' = scope /\ scope.slewing = "no"
        /\ scope'.turning => scope.turning
        /\ scope' \in [at : Nat, slewing : {"no", "hand", "task"}, turning : BOOLEAN, parked : BOOLEAN]
        /\ scope'.slewing = "task" => slipped' # {}
    <3> DEFINE u(st) == [task EXCEPT !.step = st]
               o == [scope EXCEPT !.slewing = "no", !.turning = FALSE]
    <3>1. \A st \in SolveSteps : Kept(u(st), task) /\ u(st).step = st /\ u(st).samples = task.samples
      BY <1>1, TaskGoes
    <3>2. /\ o \in [at : Nat, slewing : {"no", "hand", "task"}, turning : BOOLEAN, parked : BOOLEAN]
          /\ o.turning = FALSE /\ o.slewing = "no"
      BY <1>1
    <3>3. \/ scope.slewing = "no" /\ scope' = scope /\ task' = u(task.then)
          \/ /\ task' = u("save") \/ task' = u("end")
             /\ scope' = o \/ (scope' = scope /\ slipped' # {})
      BY <2>1
    <3>4. task.then \in SolveSteps
      BY <2>2, StepsAre
    <3> HIDE DEF u, o
    <3>5. task' \in SolveTasks /\ task'.samples = task.samples /\ task'.restless = task.restless /\ task'.kind = "polar"
      BY <2>1, <3>1, <3>3, <3>4, StepsAre DEF Kept
    <3>6. /\ task'.step \in {"end", "sample", "save"}
          /\ task'.step = "sample" => scope' = scope /\ scope.slewing = "no"
      BY <2>2, <3>1, <3>3, <3>4, StepsAre
    <3> QED  BY <1>1, <3>2, <3>3, <3>5, <3>6
  <2>4. Solve!SamplesFit'
    BY <1>0, <2>3 DEF Solve!SamplesFit
  <2> QED  BY <1>0, <2>1, <2>3, <2>4
           DEF SolvingIInv, SolvingTypes, ResultIsOfFrame, RestsWhenSeen, SlewIsAwaited
<1>9. CASE Solve!Save
  <2>1. /\ task.kind = "polar" /\ task.step = "save" /\ UNCHANGED <<lastSolve, slipped, scope>>
        /\ task' = [task EXCEPT !.step = "end"]
    BY <1>9 DEF Solve!Save, Solve!Doing, Solve!Go, Solve!Stop, Solve!NoSlip
  <2>2. /\ task' \in SolveTasks /\ task'.samples = task.samples /\ task'.restless = task.restless
        /\ task'.kind = "polar" /\ task'.step = "end"
    BY <1>1, <2>1, TaskGoes, StepsAre DEF Kept
  <2>3. Solve!SamplesFit'
    BY <1>0, <2>2 DEF Solve!SamplesFit
  <2> QED  BY <1>0, <2>1, <2>2, <2>3
           DEF SolvingIInv, SolvingTypes, ResultIsOfFrame, RestsWhenSeen, SlewIsAwaited
<1> QED  BY <1>2, <1>3, <1>4, <1>5, <1>6, <1>7, <1>8, <1>9

\* Clients cancel, solve the last frame, take pictures and move the mount, and the mount
\* goes on.
LEMMA ClientStep ==
    ASSUME SolvingIInv,
           Solve!Cancel \/ Solve!SolveLast \/ Solve!Capture \/ Solve!HandMoves \/ Solve!Moves
    PROVE  SolvingIInv'
<1>0. SolvingTypes /\ ResultIsOfFrame /\ RestsWhenSeen /\ SlewIsAwaited /\ Solve!SamplesFit
  BY SMTT(60) DEF SolvingIInv
<1>1. task' = task /\ Solve!SamplesFit'
  BY <1>0 DEF Solve!Cancel, Solve!SolveLast, Solve!Capture, Solve!HandMoves, Solve!Moves, Solve!Quiet, Solve!SamplesFit
<1>2. /\ scope.at \in Nat
      /\ scope \in [at : Nat, slewing : {"no", "hand", "task"}, turning : BOOLEAN, parked : BOOLEAN]
  BY <1>0 DEF SolvingTypes
<1>3. CASE Solve!Cancel
  <2>1. /\ task.step # "end" /\ lastSolve' = lastSolve
        /\ \/ scope' = [scope EXCEPT !.slewing = "no", !.turning = FALSE] /\ slipped' = slipped
           \/ scope' = scope /\ slipped' # {}
           \/ scope' = scope /\ slipped' = slipped
    BY <1>3 DEF Solve!Cancel, Solve!AbortMotion, Solve!Slip, Solve!NoSlip, Solve!Shared
  <2>2. /\ scope' \in [at : Nat, slewing : {"no", "hand", "task"}, turning : BOOLEAN, parked : BOOLEAN]
        /\ scope'.at = scope.at
        /\ scope' = scope \/ (scope'.slewing = "no" /\ ~scope'.turning)
    BY <1>2, <2>1
  <2>3. scope'.slewing = "task" => slipped' # {} \/ (scope.slewing = "task" /\ slipped' = slipped)
    BY <1>2, <2>1
  <2> QED  BY <1>0, <1>1, <2>1, <2>2, <2>3
           DEF SolvingIInv, SolvingTypes, ResultIsOfFrame, RestsWhenSeen, SlewIsAwaited
<1>4. CASE Solve!SolveLast \/ Solve!Capture
  <2>1. UNCHANGED <<scope, slipped>>
    BY <1>4 DEF Solve!SolveLast, Solve!Capture, Solve!Quiet, Solve!NoSlip
  <2>2. lastSolve'.of = lastSolve'.with
    BY <1>0, <1>4 DEF Solve!SolveLast, Solve!Capture, Solve!Solutions, Solve!Announce, ResultIsOfFrame
  <2> QED  BY <1>0, <1>1, <2>1, <2>2
           DEF SolvingIInv, SolvingTypes, ResultIsOfFrame, RestsWhenSeen, SlewIsAwaited
<1>5. CASE Solve!HandMoves
  <2>1. /\ task.step = "end" \/ task.kind = "adaptive"
        /\ UNCHANGED <<lastSolve, slipped>>
        /\ \/ scope' = [scope EXCEPT !.slewing = "hand", !.turning = FALSE, !.parked = FALSE]
           \/ scope' = [scope EXCEPT !.slewing = "no", !.turning = TRUE, !.parked = FALSE]
           \/ scope' = [scope EXCEPT !.slewing = "no", !.turning = FALSE]
    BY <1>5 DEF Solve!HandMoves, Solve!Quiet, Solve!NoSlip, Solve!Shared
  <2>2. /\ scope' \in [at : Nat, slewing : {"no", "hand", "task"}, turning : BOOLEAN, parked : BOOLEAN]
        /\ scope'.slewing # "task"
    BY <1>2, <2>1
  <2> QED  BY <1>0, <1>1, <2>1, <2>2
           DEF SolvingIInv, SolvingTypes, ResultIsOfFrame, RestsWhenSeen, SlewIsAwaited
<1>6. CASE Solve!Moves
  <2>1. PICK to \in Solve!Places, parks \in BOOLEAN :
          \/ scope' = [scope EXCEPT !.at = to]
          \/ scope' = [scope EXCEPT !.at = to, !.slewing = "no", !.parked = parks]
    BY <1>6 DEF Solve!Moves
  <2>2. UNCHANGED <<lastSolve, slipped>> /\ (scope.slewing # "no" \/ scope.turning)
    BY <1>6 DEF Solve!Moves, Solve!Quiet, Solve!NoSlip, Solve!Shared
  <2>3. to \in Nat
    BY SolvingAssumption DEF Solve!Places
  <2>4. /\ scope' \in [at : Nat, slewing : {"no", "hand", "task"}, turning : BOOLEAN, parked : BOOLEAN]
        /\ scope'.turning = scope.turning /\ (scope'.slewing = scope.slewing \/ scope'.slewing = "no")
    BY <1>2, <2>1, <2>3
  <2> QED  BY <1>0, <1>1, <2>2, <2>4
           DEF SolvingIInv, SolvingTypes, ResultIsOfFrame, RestsWhenSeen, SlewIsAwaited
<1> QED  BY <1>3, <1>4, <1>5, <1>6

\* Every step of the composition keeps the invariant.
LEMMA SolvingStep == SolvingIInv /\ [Next]_vars => SolvingIInv'
<1> SUFFICES ASSUME SolvingIInv, [Next]_vars PROVE SolvingIInv'
  OBVIOUS
<1>1. CASE SolveNext
  BY <1>1, AdaptiveStep, PolarStep, ClientStep DEF SolveNext, Solve!SolvingNext
<1>2. CASE UNCHANGED solvingVars
  BY <1>2 DEF solvingVars, SolvingIInv, SolvingTypes, ResultIsOfFrame, RestsWhenSeen, SlewIsAwaited, Solve!SamplesFit
<1> QED  BY <1>1, <1>2 DEF Next, vars, MountNext, TableNext, SessionNext, LoaderNext, CanonNext, SdkNext,
         FocusNext, RecNext, IndiNext, NetNext, HandNext, VideoNext, LinksNext

\* However many attempts, frames and samples there are, and whatever fails, a solution
\* is published with its own frame and measured where the mount was, and a polar
\* alignment leaves no slew of its own.
THEOREM SolvedAsSeen == Spec => []SolvingHolds
<1>1. Init => SolvingIInv
  BY SolvingInitInv DEF Init
<1>2. SolvingIInv => SolvingHolds
  BY DEF SolvingIInv, ResultIsOfFrame, SlewIsAwaited, SolvingHolds, Solve!SolvingHolds,
         Solve!SolutionIsOfFrame, Solve!PolarEndsStill
<1> QED  BY <1>1, <1>2, SolvingStep, PTL DEF Spec
=============================================================================
