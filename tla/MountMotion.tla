----------------------------- MODULE MountMotion -----------------------------
(***************************************************************************)
(* A native EQDrive mount in motion: the mount requests of                 *)
(* ApplicationController, the park flags of NativeOalMount and the wire    *)
(* commands the driver sends to the Motor Controller, one exchange at a    *)
(* time.  The main thread and the task of a mount.slew operation call the  *)
(* driver; a device mutex keeps their calls apart, except mount.abort,     *)
(* which interrupts the other call between two exchanges.                  *)
(*                                                                         *)
(* Angles are two places: where the mount parks and anywhere else.  The    *)
(* increments and step periods sent with a motion mode are left out, and   *)
(* so is the alignment of the sky: without it a GOTO, or tracking, may be  *)
(* refused.                                                                *)
(***************************************************************************)
EXTENDS Naturals, Sequences

CONSTANTS MaxUser,  \* bound: requests of clients
          MaxFail   \* bound: exchanges that fail

VARIABLES
    axis,    \* what each axis does: goes to "park" or "sky", or somewhere "alone",
             \* turns, slows, is still
    mode,    \* the motion the controller was told to start next
    pos,     \* where each axis stands
    parked, parking,  \* NativeOalMount::parked_, parking_
    main, pool,       \* the driver call of the main thread, and of the operation
    slew,    \* the mount.slew operation
    cancel,  \* its cancellation flag
    aborted, \* history: an abort has succeeded since the last request to move
    user, fails

motionVars == <<axis, mode, pos, parked, parking, main, pool, slew, cancel, aborted, user, fails>>

Axes == {1, 2}
Gotos == {"park", "sky", "alone"}
NoCall == [m |-> "none", todo |-> <<>>, bad |-> FALSE, seen |-> [a \in Axes |-> "away"],
           then |-> "none"]

MotionInit ==
    /\ axis = [a \in Axes |-> "still"] /\ mode = [a \in Axes |-> "turn"]
    /\ pos = [a \in Axes |-> "away"]
    /\ parked = FALSE /\ parking = FALSE
    /\ main = NoCall /\ pool = NoCall
    /\ slew = "none" /\ cancel = FALSE /\ aborted = FALSE
    /\ user = 0 /\ fails = 0

-----------------------------------------------------------------------------
(* The wire commands of a driver call *)

Both(cmd) == <<<<cmd, 1>>, <<cmd, 2>>>>

\* mcGotoAxisDelta: nothing if the axis is there; it must have stopped first.
GotoAxis(a, to) ==
    IF to = "park" /\ pos[a] = to /\ axis[a] = "still" THEN <<>>
    ELSE <<<<"read", a>>, <<"stop", a>>, <<"wait", a>>, <<to, a>>, <<"start", a>>, <<"verify", a>>>>
GotoAxes(to) == Both("read") \o GotoAxis(1, to) \o GotoAxis(2, to)

\* mcSetManualRate and mcSetTracking
Turn(a, on) == IF on THEN <<<<"stop", a>>, <<"wait", a>>, <<"turn", a>>, <<"start", a>>>>
               ELSE <<<<"stop", a>>>>

AbortAxes == Both("halt") \o Both("wait")

Begin(m, todo, then) == [NoCall EXCEPT !.m = m, !.todo = todo, !.then = then]

\* What a command does to an axis.
Obeyed(cmd, a) ==
    CASE cmd = "stop" -> [axis EXCEPT ![a] = IF @ = "still" THEN @ ELSE "slowing"]
      [] cmd = "halt" -> [axis EXCEPT ![a] = "still"]
      [] cmd = "start" -> [axis EXCEPT ![a] = mode[a]]
      [] OTHER -> axis

\* Whether the driver is content: a wait ends with the axis, a motion mode is
\* refused while it moves, a start is verified by what the encoder shows.
Content(cmd, a) ==
    CASE cmd \in {"wait", "turn"} \cup Gotos -> axis[a] = "still"
      [] OTHER -> TRUE

\* A wait whose axis moves again, a mode that is refused and a start that
\* another call undid fail of themselves.
Refused(cmd, a) ==
    \/ cmd = "wait" /\ axis[a] \notin {"still", "slowing"}
    \/ cmd \in {"turn"} \cup Gotos /\ axis[a] # "still"
    \/ cmd = "verify" /\ axis[a] \notin Gotos

\* After a failed command: a halt falls back on a stop, an abort goes on with
\* the other axis but waits for none that did not answer, and a motion that
\* fails on axis 2 stops axis 1.
Failed(c) ==
    LET cmd == Head(c.todo)[1]  a == Head(c.todo)[2]  rest == Tail(c.todo) IN
    CASE cmd = "halt" -> [c EXCEPT !.todo = <<<<"stop", a>>>> \o rest]
      [] c.m \in {"abort", "unpark"} /\ cmd = "stop" ->
           [c EXCEPT !.bad = TRUE, !.todo = IF a = 1 THEN <<Head(rest)>> ELSE <<>>]
      [] c.m \in {"abort", "unpark"} /\ cmd \notin {"halt", "stop"} -> [c EXCEPT !.bad = TRUE, !.todo = rest]
      [] c.m \in {"goto", "park", "manual"} /\ a = 2 /\ cmd \notin {"halt", "read"} ->
           [c EXCEPT !.bad = TRUE, !.m = "rescue", !.todo = <<<<"stop", 1>>>>]
      [] OTHER -> [c EXCEPT !.bad = TRUE, !.todo = <<>>]

Answered(c) ==
    LET cmd == Head(c.todo)[1]  a == Head(c.todo)[2] IN
    [c EXCEPT !.todo = IF c.bad /\ cmd \in {"halt", "stop"} /\ a = 2 THEN <<>> ELSE Tail(@),
              !.seen = IF cmd = "read"
                       THEN [@ EXCEPT ![a] = IF axis[a] # "still" THEN "moves" ELSE pos[a]]
                       ELSE @]

\* One exchange of call c, whose next state is cn.
Exchange(c, cn) ==
    /\ c.todo # <<>>
    /\ LET cmd == Head(c.todo)[1]  a == Head(c.todo)[2]  IN
       \/ /\ Content(cmd, a) /\ cn = Answered(c)
          /\ axis' = Obeyed(cmd, a)
          /\ mode' = IF cmd \in {"turn"} \cup Gotos THEN [mode EXCEPT ![a] = cmd] ELSE mode
          /\ pos' = IF cmd = "start" THEN [pos EXCEPT ![a] = "away"] ELSE pos
          /\ UNCHANGED fails
       \/ /\ Refused(cmd, a) /\ cn = Failed(c) /\ UNCHANGED <<axis, mode, pos, fails>>
       \/ /\ fails < MaxFail /\ fails' = fails + 1 /\ cn = Failed(c)
          /\ axis' \in {axis, Obeyed(cmd, a)} /\ UNCHANGED mode
          /\ pos' = IF cmd = "start" THEN [pos EXCEPT ![a] = "away"] ELSE pos
    /\ UNCHANGED <<parked, parking, slew, cancel, aborted, user>>

MainExchange == Exchange(main, main') /\ UNCHANGED pool
PoolExchange == Exchange(pool, pool') /\ UNCHANGED main

\* Axes arrive, and come to rest.
Arrive(a) ==
    /\ axis[a] \in Gotos /\ axis' = [axis EXCEPT ![a] = "still"]
    /\ pos' = [pos EXCEPT ![a] = IF axis[a] = "park" THEN "park" ELSE "away"]
    /\ UNCHANGED <<mode, parked, parking, main, pool, slew, cancel, aborted, user, fails>>

Rest(a) ==
    /\ axis[a] = "slowing" /\ axis' = [axis EXCEPT ![a] = "still"]
    /\ UNCHANGED <<mode, pos, parked, parking, main, pool, slew, cancel, aborted, user, fails>>

-----------------------------------------------------------------------------
(* Requests on the main thread *)

Ready(c) == c.m = "none"
Request == Ready(main) /\ user < MaxUser /\ user' = user + 1
Quiet == UNCHANGED <<axis, mode, pos, pool, slew, fails>>
RequestIdle == Request /\ Quiet /\ slew = "none" /\ aborted' = FALSE /\ UNCHANGED cancel
SetFlags(f) == parked' = f.parked /\ parking' = f.parking
AreFlags == [parked |-> parked, parking |-> parking]
NoFlags == [parked |-> FALSE, parking |-> FALSE]

\* A park slew starts with tracking off.
Park == /\ RequestIdle /\ SetFlags(AreFlags)
        /\ main' = Begin("park", <<<<"stop", 1>>>> \o GotoAxes("park"), "none")

\* To unpark during a park slew is to stop it.
UnparkThen(then, f) ==
    IF f.parking THEN main' = Begin("unpark", AbortAxes, then) /\ SetFlags(f)
    ELSE main' = Begin("unpark", <<>>, then) /\ SetFlags(NoFlags)
Unpark == RequestIdle /\ UnparkThen("none", AreFlags)

Manual(a, on) ==
    /\ RequestIdle /\ SetFlags(NoFlags)
    /\ main' = Begin("manual", Turn(1, on /\ a = 1) \o Turn(2, on /\ a = 2), "none")

\* The calls the driver may make; a status is a read of both axes.
Look(then) == Begin("status", Both("read"), then)
TryAutoHomeSync(then) == {Begin("look", todo, then) : todo \in {<<>>, Both("read")}}
SyncTo == Begin("look", Both("read"), "sync")
SetTracking(on, f) == {Begin("track", Turn(1, on), "none") : x \in {TRUE} \ {on /\ f.parking}}
SlewTo(to, f) == IF f.parked \/ f.parking THEN {}
                 ELSE {Begin("refused", Both("read"), "none"), Begin("goto", GotoAxes(to), "none")}

\* The others look at the mount first, whatever comes of it: a slew, as an operation or
\* at once (Stellarium's), tracking on or off, a sync, the place to park.  A new site
\* reads the axes, to find them at home.
First(then) == /\ RequestIdle /\ SetFlags(AreFlags)
               /\ main' = Look(then)
StartSlew == First("slew")
SlewNow == First("now")
Track == First("on") \/ First("off")
Sync == First("sync")
SetPark == First("here")
SiteTime == RequestIdle /\ SetFlags(AreFlags) /\ main' \in TryAutoHomeSync("site")

\* A changed place to park clears the flags: a park slew goes on alone, to the old one.
\* Axes `at` stand at the new place.
ConfigureGeometry(at) ==
    /\ SetFlags(NoFlags)
    /\ pos' = [a \in Axes |-> IF a \in at THEN "park" ELSE "away"]
    /\ axis' = [a \in Axes |-> IF axis[a] = "park" THEN "alone" ELSE axis[a]]

\* A new profile looks at no lock: it comes during a slew operation too.
SetProfile ==
    /\ Request /\ pool.m \in {"none", "abort"}
    /\ main' \in {NoCall} \cup TryAutoHomeSync("none")
    /\ \/ SetFlags(AreFlags) /\ UNCHANGED <<axis, pos>>
       \/ \E at \in SUBSET {a \in Axes : axis[a] = "still"} : ConfigureGeometry(at)
    /\ UNCHANGED <<mode, pool, slew, cancel, aborted, fails>>

\* A status poll waits for the device mutex.
Status == /\ Ready(main) /\ pool.m \in {"none", "abort"} /\ parking
          /\ main' = Look("none")
          /\ Quiet /\ UNCHANGED <<parked, parking, cancel, aborted, user>>

\* mutant: the operation is not cancelled
AbortOnly == /\ Request /\ Quiet /\ UNCHANGED <<parked, parking, aborted, cancel>>
             /\ main' = Begin("abort", AbortAxes, "none")

\* abortMountMotion cancels the operation, then stops the mount itself.
Abort == /\ Request /\ Quiet /\ UNCHANGED <<parked, parking, aborted>>
         /\ cancel' = (slew # "none")
         /\ main' = Begin("abort", AbortAxes, "none")

\* mutant: one axis at rest settles the park slew
SettlesSoon(c) == c.m = "status" /\ ~c.bad /\ parking /\ \E a \in Axes : c.seen[a] # "moves"

\* A status with both axes at rest ends a park slew, one way or the other.
Settles(c) == c.m = "status" /\ ~c.bad /\ parking /\ \A a \in Axes : c.seen[a] # "moves"

Flags(c) ==
    CASE Settles(c) -> [parked |-> \A a \in Axes : c.seen[a] = "park", parking |-> FALSE]
      [] c.m = "park" /\ ~c.bad -> [parked |-> FALSE, parking |-> TRUE]
      [] c.m \in {"abort", "unpark"} /\ ~c.bad -> NoFlags
      [] OTHER -> AreFlags

\* What may follow call c of a request, with flags f: the alignment refuses or not.
After(c, f) ==
    CASE c.m = "status" /\ c.then = "on" -> {NoCall} \cup SetTracking(TRUE, f)
      [] c.m = "status" /\ c.then = "off" -> SetTracking(FALSE, f)
      [] c.m = "status" /\ c.then = "sync" -> {SyncTo}
      [] c.m = "look" /\ c.then = "sync" -> {NoCall} \cup (IF c.bad THEN {} ELSE {Look("none")})
      [] c.m = "look" /\ c.then = "site" -> {Look("none")}
      [] c.then = "now" /\ (c.m = "unpark" => ~c.bad) -> {Look("goto")}
      [] c.m = "status" /\ c.then = "goto" -> {NoCall} \cup SlewTo("alone", f)
      [] OTHER -> {NoCall}

MainDone ==
    /\ main.m # "none" /\ main.todo = <<>> /\ (main.then = "here" => main.bad)
    /\ UNCHANGED <<axis, mode, pos, pool, cancel, user, fails>>
    /\ LET f == Flags(main) IN
       IF main.m = "status" /\ main.then \in {"slew", "now"} /\ ~main.bad /\ (f.parked \/ f.parking)
       THEN UnparkThen(main.then, f) /\ UNCHANGED <<slew, aborted>>
       ELSE /\ SetFlags(f) /\ main' \in After(main, f)
            /\ slew' = IF main.then = "slew" /\ (main.m = "unpark" => ~main.bad) /\ slew = "none"
                       THEN "starting" ELSE slew
            /\ aborted' = (aborted \/ (main.m = "abort" /\ ~main.bad))

\* Where the axes stand becomes the place to park.
ParkHere ==
    /\ main.m = "status" /\ main.then = "here" /\ main.todo = <<>> /\ ~main.bad
    /\ main' = NoCall
    /\ \/ /\ \A a \in Axes : main.seen[a] = "park"
          /\ SetFlags(Flags(main)) /\ UNCHANGED <<axis, pos>>
       \/ ConfigureGeometry({a \in Axes : main.seen[a] # "moves"})
    /\ UNCHANGED <<mode, pool, slew, cancel, aborted, user, fails>>

-----------------------------------------------------------------------------
(* The task of the slew operation *)

PoolCall(call) == pool' = call /\ UNCHANGED <<axis, mode, pos, parked, parking, main, aborted, user, fails>>
Unlocked == main.m \in {"none", "abort"}
EndSlew == slew' = "none" /\ cancel' = FALSE /\ pool' = NoCall

\* The flag is read when the task starts, then after each status.
StartTask ==
    /\ slew = "starting" /\ Ready(pool)
    /\ IF cancel THEN EndSlew ELSE slew' = "commanding" /\ UNCHANGED <<cancel, pool>>
    /\ UNCHANGED <<axis, mode, pos, parked, parking, main, aborted, user, fails>>

Command ==
    /\ slew = "commanding" /\ Ready(pool) /\ Unlocked
    /\ IF SlewTo("sky", AreFlags) = {} THEN EndSlew
       ELSE pool' \in SlewTo("sky", AreFlags) /\ UNCHANGED <<slew, cancel>>
    /\ UNCHANGED <<axis, mode, pos, parked, parking, main, aborted, user, fails>>

Poll == /\ slew = "polling" /\ Ready(pool) /\ ~cancel /\ Unlocked
        /\ PoolCall(Look("none")) /\ UNCHANGED <<slew, cancel>>

GiveUp == /\ slew = "polling" /\ Ready(pool) /\ cancel
          /\ PoolCall(Begin("abort", AbortAxes, "none")) /\ slew' = "aborting" /\ UNCHANGED cancel

Slewing(c) == \E a \in Axes : c.seen[a] = "moves"
PoolDone ==
    /\ pool.m # "none" /\ pool.todo = <<>>
    /\ SetFlags(Flags(pool))
    /\ IF pool.bad \/ pool.m \in {"abort", "refused"} \/ (pool.m = "status" /\ ~Slewing(pool))
       THEN EndSlew
       ELSE pool' = NoCall /\ slew' = "polling" /\ UNCHANGED cancel
    /\ UNCHANGED <<axis, mode, pos, main, aborted, user, fails>>

MotionRequests == \/ Park \/ Unpark \/ StartSlew \/ SlewNow \/ Abort
                  \/ Track \/ Sync \/ SetPark \/ SiteTime \/ SetProfile
                  \/ \E on \in BOOLEAN, a \in Axes : Manual(a, on)
MotionRuns == \/ MainExchange \/ MainDone \/ ParkHere
              \/ PoolExchange \/ PoolDone \/ StartTask \/ Command \/ Poll \/ GiveUp
              \/ \E a \in Axes : Arrive(a) \/ Rest(a)
MotionNext == MotionRequests \/ MotionRuns \/ Status

\* Calls go on and axes told to stop come to rest.  Nothing is assumed of clients,
\* nor that a GOTO ever arrives.
MotionFairness == /\ WF_motionVars(MainExchange \/ MainDone \/ ParkHere)
                  /\ WF_motionVars(PoolExchange \/ PoolDone) /\ WF_motionVars(StartTask) /\ SF_motionVars(Command)
                  /\ SF_motionVars(Poll) /\ WF_motionVars(GiveUp)
                  /\ \A a \in Axes : WF_motionVars(Rest(a))

-----------------------------------------------------------------------------
(* Properties *)

\* No axis goes to a target that nobody watches: while every exchange succeeds,
\* an axis in a GOTO belongs to the slew operation, to a park slew that status
\* polls will settle, or to a call in progress (oal_native_devices.cpp:280-361,
\* application_controller.cpp:1212-1234).  Two GOTOs are alone: Stellarium's, and that
\* of a park slew during which the place to park is set.
GotoIsWatched ==
    fails = 0 /\ (\E a \in Axes : axis[a] \in {"park", "sky"}) =>
        slew # "none" \/ parking \/ main.m # "none"

\* What the node reports as parked is parked: no axis is in a GOTO and axis 2 is
\* where the park slew took it, whatever was asked since, unless an exchange was lost
\* or the mount is being parked again.  Axis 1 may be away: setTracking does not look
\* at parked_ (oal_native_devices.cpp:280-361).
ParkedIsParked ==
    parked /\ fails = 0 /\ main.m # "park" => pos[2] = "park" /\ \A a \in Axes : axis[a] \notin Gotos

\* What the node says of the mount's motion, and of its being parked, is so.
MotionIsKnown == GotoIsWatched /\ ParkedIsParked

\* While no exchange is lost, an abort that has succeeded ends in rest, although the GOTO it interrupted may
\* have started an axis after the abort stopped it: the operation aborts again
\* (application_controller.cpp:1216, oal_driver_eqdrive.cpp:506-513).
AbortStops ==
    aborted /\ fails = 0 ~> ~aborted \/ fails > 0 \/ \A a \in Axes : axis[a] = "still"

\* README.md:246: ABORT "verifies both axes actually stop".
AbortConfirms ==
    [][aborted' /\ ~aborted => \A a \in Axes : axis'[a] = "still"]_motionVars
=============================================================================
