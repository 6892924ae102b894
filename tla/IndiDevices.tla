----------------------------- MODULE IndiDevices -----------------------------
(***************************************************************************)
(* A mount or a focuser behind an INDI server: IndiXmlClient, IndiMount    *)
(* and IndiFocuser.  The node's main thread makes the calls, one at a      *)
(* time, but every message goes over a connection of its own that is       *)
(* closed once it is written: nobody waits until the driver has taken it,  *)
(* and the server may read two connections in either order.                *)
(***************************************************************************)
EXTENDS Naturals, SequencesExt, FiniteSets

CONSTANTS MaxIndiCalls,  \* bound: calls of the node
          MaxIndiFaults  \* bound: queries, writes and commands that fail, messages overtaken

VARIABLES
    drv,    \* the driver's device: kind, properties, CONNECTION, mode, parked, moving
    wire,    \* messages written and not yet taken by the driver
    object,  \* the node's handle: is there one, and state_ of the one being made
    icall,   \* the call in progress: its operation and the exchanges left
    taken,   \* the last vector the driver acted on: the mode it was meant for, and was in
    odd,     \* what has gone wrong, kind by kind
    icalls

indiVars == <<drv, wire, object, icall, taken, odd, icalls>>

Idle == [op |-> "none", todo |-> <<>>]

IndiInit ==
    /\ drv = [kind |-> "none", has |-> {}, link |-> "off", mode |-> "none", parked |-> FALSE, moving |-> FALSE]
    /\ wire = <<>> /\ object = [held |-> FALSE, state |-> "disconnected"] /\ icall = Idle
    /\ taken = [meant |-> "none", mode |-> "none"] /\ odd = {} /\ icalls = 0

Fault(kind) == Cardinality(odd) < MaxIndiFaults /\ odd' = odd \cup {kind}
Sound == odd' = odd

-----------------------------------------------------------------------------
(* The INDI server and its driver *)

Properties(kind) ==
    IF kind = "mount" THEN {{"coord", "track", "park", "guide"}, {"track"}}
    ELSE {{"abs", "rel", "mode", "stop"}, {"abs"}, {"rel"}}

Plug ==
    /\ drv.kind = "none"
    /\ \E kind \in {"mount", "focuser"} : \E has \in Properties(kind) :
         drv' = [drv EXCEPT !.kind = kind, !.has = has]
    /\ UNCHANGED <<wire, object, icall, taken, odd, icalls>>

\* A vector moves the device the way the mode it is in says; a driver that
\* is not connected ignores everything but CONNECTION.
Obeyed(msg) ==
    IF msg.prop = "link" THEN [drv EXCEPT !.link = msg.to]
    ELSE IF drv.link # "on" THEN drv
    ELSE CASE
         msg.prop = "mode" -> [drv EXCEPT !.mode = msg.to]
      [] msg.prop = "coord" -> [drv EXCEPT !.moving = ~drv.parked /\ drv.mode = "track"]
      [] msg.prop \in {"rel", "abs"} -> [drv EXCEPT !.moving = TRUE]
      [] msg.prop = "park" -> [drv EXCEPT !.parked = msg.to = "on", !.moving = msg.to = "on"]
      [] msg.prop = "stop" -> [drv EXCEPT !.moving = FALSE]
      [] OTHER -> drv

Take(i) ==
    LET msg == wire[i] IN
    /\ wire' = RemoveAt(wire, i)
    /\ taken' = IF msg.prop \in {"coord", "rel"} /\ drv.link = "on" THEN [meant |-> msg.to, mode |-> drv.mode] ELSE taken
    /\ \/ drv' = Obeyed(msg) /\ IF i = 1 THEN Sound ELSE Fault("overtaken")
       \/ i = 1 /\ msg.prop = "link" /\ msg.to = "on" /\ Fault("alert") /\ drv' = [drv EXCEPT !.link = "alert"]
    /\ UNCHANGED <<object, icall, icalls>>

Driver == \E i \in DOMAIN wire : Take(i)

Rests == drv.moving /\ drv' = [drv EXCEPT !.moving = FALSE]
         /\ UNCHANGED <<wire, object, icall, taken, odd, icalls>>

\* The server restarts; its driver has to be connected again.
Restart ==
    /\ drv.link # "off" /\ Fault("restart")
    /\ drv' = [drv EXCEPT !.link = "off", !.moving = FALSE] /\ wire' = <<>>
    /\ UNCHANGED <<object, icall, taken, icalls>>

-----------------------------------------------------------------------------
(* Calls, and the exchanges they make *)

Say(prop, to) == [do |-> "say", prop |-> prop, to |-> to]
Ask(prop) == [do |-> "ask", prop |-> prop, to |-> "none"]
Step(name) == [do |-> name, prop |-> "none", to |-> "none"]

SetConnection(to) == Say("link", to)
ConnectServer == <<Step("define"), SetConnection("on"), Step("await")>>

\* mutant: the vector is sent before the mode it is meant for
VectorFirst(prop, mode) == <<Say(prop, mode), Say("mode", mode)>>

\* ON_COORD_SET and FOCUS_MOTION say what the vector that follows means.
Directed(prop, mode) == <<Say("mode", mode), Say(prop, mode)>>

MoveAbsolute == <<Ask("abs"), Say("abs", "none")>>
MoveRelative(way) == <<Ask("rel"), Ask("mode")>> \o Directed("rel", way)

MountCalls ==
    [slewTo |-> Directed("coord", "track"), syncTo |-> Directed("coord", "sync"),
     abort |-> <<Say("stop", "none")>>, ready |-> <<Step("read")>>,
     setTracking |-> <<Ask("track"), Say("track", "none")>>, park |-> <<Ask("park"), Say("park", "on")>>,
     unpark |-> <<Ask("park"), Say("park", "off")>>, pulseGuide |-> <<Ask("guide"), Say("guide", "none")>>]

FocuserCalls ==
    [moveAbsolute |-> MoveAbsolute, inward |-> MoveRelative("in"), outward |-> MoveRelative("out"),
     halt |-> <<Ask("stop"), Say("stop", "none")>>]

Calls == IF drv.kind = "mount" THEN MountCalls ELSE FocuserCalls

Call ==
    /\ object.held /\ icall = Idle /\ icalls < MaxIndiCalls /\ icalls' = icalls + 1
    /\ \E op \in DOMAIN Calls : icall' = [op |-> op, todo |-> Calls[op]]
    /\ UNCHANGED <<drv, wire, object, taken, odd>>

\* A new object is made for every connect, whatever the node holds.
Connect ==
    /\ drv.kind # "none" /\ icall = Idle /\ icalls < MaxIndiCalls /\ icalls' = icalls + 1
    /\ icall' = [op |-> "connect", todo |-> ConnectServer \o <<Ask(IF drv.kind = "mount" THEN "coord" ELSE "abs")>>]
    /\ object' = [object EXCEPT !.state = "connecting"]
    /\ UNCHANGED <<drv, wire, taken, odd>>

Disconnect ==
    /\ object.held /\ icall = Idle /\ icalls < MaxIndiCalls /\ icalls' = icalls + 1
    /\ icall' = [op |-> "disconnect", todo |-> <<SetConnection("off")>>]
    /\ UNCHANGED <<drv, wire, object, taken, odd>>

At(do) == icall.todo # <<>> /\ Head(icall.todo).do = do
Prop == Head(icall.todo).prop
Done == icall' = [icall EXCEPT !.todo = Tail(@)]

\* A device that has not the property it needs is closed again.
Closing == <<SetConnection("off")>>

\* A call ends with its first error.  A focuser without FOCUS_MOTION moves
\* by its absolute position.
Refused ==
    icall' = CASE icall.op = "connect" /\ At("ask") -> [op |-> "close", todo |-> Closing]
               [] icall.op \in {"inward", "outward"} /\ At("ask") /\ Prop # "abs" ->
                    [icall EXCEPT !.todo = <<Step("read")>>]
               [] OTHER -> [icall EXCEPT !.op = IF @ \in {"connect", "close", "disconnect"} THEN @ ELSE "failed",
                                         !.todo = IF icall.op = "connect" THEN <<Step("fail")>> ELSE <<>>]

\* sendIndiMessage(): an error may also be a message written late.
Send ==
    /\ At("say")
    /\ LET sent == Append(wire, [prop |-> Prop, to |-> Head(icall.todo).to]) IN
       \/ Done /\ Sound /\ wire' = sent
       \/ Refused /\ Fault("write") /\ wire' \in {wire, sent}
    /\ UNCHANGED <<drv, object, taken, icalls>>

\* propertyExists()
Exists ==
    /\ At("ask")
    /\ \/ Prop \in drv.has /\ Done /\ Sound
       \/ Prop \notin drv.has /\ Refused /\ Sound
       \/ Prop \in drv.has /\ Refused /\ Fault("query")
    /\ UNCHANGED <<drv, wire, object, taken, icalls>>

\* getProperties: the device name must be one the server defines.
Define ==
    /\ At("define")
    /\ \/ Done /\ Sound
       \/ Refused /\ Fault("define")
    /\ UNCHANGED <<drv, wire, object, taken, icalls>>

\* waitConnectionState(): what it reads may be older than the message just sent.
Await ==
    /\ At("await")
    /\ \/ drv.link = "on" /\ Done /\ Sound
       \/ drv.link = "alert" /\ Refused /\ Sound
       \/ drv.link = "off" /\ Refused /\ Fault("await")
    /\ UNCHANGED <<drv, wire, object, taken, icalls>>

\* A status is read from the vector as it is now; what is still on the wire
\* does not show in it.
Status(next) ==
    /\ At("read")
    /\ \/ Sound /\ icall' = next
       \/ Fault("query") /\ icall' = [icall EXCEPT !.todo = <<>>]
    /\ UNCHANGED <<drv, wire, object, taken, icalls>>

\* A parked mount is unparked before a GOTO; nobody asks whether the read failed.
MountStatus ==
    icall.op = "ready" /\ Status([icall EXCEPT !.todo = IF drv.parked THEN MountCalls.unpark ELSE <<>>])

\* A relative move of a focuser without FOCUS_MOTION starts from the position read.
FocuserStatus == icall.op # "ready" /\ Status([op |-> "moveAbsolute", todo |-> MoveAbsolute])

\* The handle is the node's when connectDevice() succeeds, and dropped when
\* the device is disconnected; a failed connect leaves the handle there was.
Return ==
    /\ icall # Idle /\ (icall.todo = <<>> \/ At("fail")) /\ icall' = Idle
    /\ object' = CASE icall.op = "connect" /\ icall.todo = <<>> -> [held |-> TRUE, state |-> "connected"]
                   [] icall.op = "close" \/ (icall.op = "connect" /\ icall.todo # <<>>) -> [object EXCEPT !.state = "error"]
                   [] icall.op = "disconnect" -> [held |-> FALSE, state |-> "disconnected"]
                   [] OTHER -> object
    /\ UNCHANGED <<drv, wire, taken, odd, icalls>>

IndiNext ==
    \/ Plug \/ Driver \/ Rests \/ Restart \/ Call \/ Connect \/ Disconnect
    \/ Send \/ Exists \/ Define \/ Await \/ MountStatus \/ FocuserStatus \/ Return

-----------------------------------------------------------------------------
(* Property *)

\* The driver acts on coordinates, and on a relative move, in the mode of the
\* call they belong to, GOTO or SYNC, inward or outward, unless a message
\* overtook another or the server restarted between the two: the vector
\* follows its mode over another connection (IndiMount::slewTo, syncTo,
\* IndiFocuser::moveRelative).
CommandsAsMeant == odd \cap {"overtaken", "restart"} = {} => taken.meant = taken.mode
=============================================================================
