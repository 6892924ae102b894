---------------------------- MODULE SynScanNetwork ----------------------------
(***************************************************************************)
(* SynScanNetworkMount: a Motor Controller over UDP.  A command or its     *)
(* reply may be lost, and a reply may be late: it names neither the        *)
(* command nor the axis it answers, so the next exchange may take it for   *)
(* its own.  Calls come one at a time, from the main thread.               *)
(*                                                                         *)
(* Retries and polls are counted and timed in the code; here each failed   *)
(* attempt may be the last.  Angles, rates and periods are left out.       *)
(***************************************************************************)
EXTENDS Naturals, Sequences, FiniteSets

CONSTANTS Keys,         \* directions and rates of a manual slew; 0 is none
          MaxNetCalls,  \* bound: calls of the node
          MaxNetFaults  \* bound: commands and replies lost or late

VARIABLES
    motor,   \* each axis: still, slowing or moving; the mode it was given; has it moved since it was last looked at
    late,    \* replies on their way to an exchange that gave up on them
    memory,  \* parked_, trackingRequested_ and the remembered manual direction and rate of each axis
    ncall,   \* the call in progress: routines left, where in the first one, and how it goes
    claim,   \* the last call: reported done, axes it was to start, did and found moving all along,
             \* a reply taken for another, an axis coasting
    netFaults, netCalls

netVars == <<motor, late, memory, ncall, claim, netFaults, netCalls>>

NetAxes == {1, 2}
NoMemory == [parked |-> FALSE, tracking |-> FALSE, manual |-> [a \in NetAxes |-> 0]]
NoNetCall == [op |-> "none", todo |-> <<>>, at |-> 1, bad |-> FALSE, moved |-> FALSE]
NoClaim == [op |-> "none", wanted |-> {}, begun |-> {}, kept |-> {}, blurred |-> FALSE, coasted |-> FALSE]

NetInit ==
    /\ motor = [a \in NetAxes |-> [does |-> "still", mode |-> "turn", ran |-> FALSE]]
    /\ late = {} /\ memory = NoMemory /\ ncall = NoNetCall /\ claim = NoClaim
    /\ netFaults = 0 /\ netCalls = 0

-----------------------------------------------------------------------------
(* Routines: the exchanges of each, and where one goes on after a failure; *)
(* 0 is the end of the routine                                             *)

LookAxis == <<"pos", "status">>

ConfirmedStopAxis == <<"instant", "pos", "status">>

GotoAxisDelta == <<"pos", "status", "slow", "pos", "status", "mode", "target", "brake", "start", "pos", "status">>

SetManualRate == <<"instant", "mode", "period", "start", "pos", "status">>

TrackAxis == <<"slow", "pos", "status", "mode", "period", "start">>

Exchanges(r) == CASE r = "stop" -> ConfirmedStopAxis [] r = "goto" -> GotoAxisDelta [] r = "turn" -> SetManualRate
                  [] r = "track" -> TrackAxis [] r = "off" -> <<"slow">> [] OTHER -> LookAxis

\* waitStopped() and the verification of a start poll; an instant stop, a
\* manual command and their sequences are tried again.
GoesOn(r, i) ==
    CASE r = "stop" -> IF i = 1 THEN {1, 0} ELSE {2, 1, 0}
      [] r = "turn" -> IF i = 1 THEN {1, 2} ELSE IF i > 4 THEN {5, 1, 0} ELSE {i, 2, 0}
      [] r = "goto" /\ i \in 4..5 -> {4, 0}
      [] r = "goto" /\ i > 9 -> {10, 0}
      [] r = "track" /\ i \in 2..3 -> {2, 0}
      [] OTHER -> {0}

Routine == Head(ncall.todo).r
Axis == Head(ncall.todo).axis
Cmd == Exchanges(Routine)[ncall.at]
Last == ncall.at = Len(Exchanges(Routine))

-----------------------------------------------------------------------------
(* The Motor Controller *)

Moving(m) == m.does # "still"
Coming == {ncall.todo[i].axis : i \in 1 .. Len(ncall.todo)}
Refuses(m) == Cmd \in {"mode", "target", "brake", "period"} /\ Moving(m)

Acted(m) ==
    CASE Cmd = "instant" -> [m EXCEPT !.does = "still", !.ran = @ \/ Moving(m)]
      [] Cmd = "slow" /\ Moving(m) -> [m EXCEPT !.does = "slowing"]
      [] Cmd = "mode" /\ ~Refuses(m) -> [m EXCEPT !.mode = IF Routine = "goto" THEN "goto" ELSE "turn"]
      [] Cmd = "start" -> [m EXCEPT !.does = "moves"]
      [] OTHER -> m

\* What the controller answers.  A position tells whether the axis has moved
\* since a GOTO first looked at it.
Answers(m) ==
    CASE Cmd = "status" -> {[is |-> "status", run |-> Moving(m), goto |-> m.mode = "goto"]}
      [] Cmd = "pos" -> {[is |-> "pos", moved |-> moved] : moved \in IF Moving(m) THEN BOOLEAN ELSE {m.ran}}
      [] Refuses(m) -> {[is |-> "error"]}
      [] OTHER -> {[is |-> "ack"]}

\* An axis comes to rest by itself when it slows down or has arrived.
Settles(a) ==
    /\ motor[a].does = "slowing" \/ (motor[a].does = "moves" /\ motor[a].mode = "goto")
    /\ motor' = [motor EXCEPT ![a].does = "still", ![a].ran = TRUE]
    /\ claim' = [claim EXCEPT !.kept = @ \ (Coming \cap {a})]
    /\ UNCHANGED <<late, memory, ncall, netFaults, netCalls>>

-----------------------------------------------------------------------------
(* Calls *)

R(r, a) == [r |-> r, axis |-> a, key |-> 0]
Both(r) == <<R(r, 1), R(r, 2)>>
Needed(r, a, as) == IF a \in as THEN <<R(r, a)>> ELSE <<>>

Begin(op, todo, wanted) ==
    /\ ncall = NoNetCall /\ netCalls < MaxNetCalls /\ netCalls' = netCalls + 1
    /\ ncall' = [NoNetCall EXCEPT !.op = op, !.todo = todo]
    /\ claim' = [NoClaim EXCEPT !.wanted = wanted, !.kept = {a \in NetAxes : Moving(motor[a])}]
    /\ UNCHANGED <<motor, late, netFaults>>

Forget == memory' = [memory EXCEPT !.tracking = FALSE]

\* An axis that is where it should be is left alone.
SlewTo == \E as \in SUBSET NetAxes :
    ~memory.parked /\ Begin("slew", Both("look") \o Needed("goto", 1, as) \o Needed("goto", 2, as), as) /\ UNCHANGED memory

Park == \E as \in SUBSET NetAxes : Begin("park", Both("look") \o Needed("goto", 1, as) \o Needed("goto", 2, as), as) /\ UNCHANGED memory

Unpark == memory.parked /\ memory' = [memory EXCEPT !.parked = FALSE] /\ Begin("unpark", <<>>, {})

AbortMotion == Begin("abort", Both("stop"), {}) /\ UNCHANGED memory

Track == Begin("track", <<R("track", 1)>>, {}) /\ UNCHANGED memory

Untrack == Begin("untrack", <<R("off", 1)>>, {}) /\ Forget

\* Only what differs from the remembered direction and rate is sent.
Turned(keys, a) ==
    IF keys[a] = memory.manual[a] THEN <<>>
    ELSE IF keys[a] = 0 THEN <<R("stop", a)>> ELSE <<[r |-> "turn", axis |-> a, key |-> keys[a]]>>

ManualSlew == \E keys \in [NetAxes -> Keys] :
    /\ Forget
    /\ IF \A a \in NetAxes : keys[a] = 0 THEN Begin("halt", Both("stop"), {})
       ELSE Begin("manual", Turned(keys, 1) \o Turned(keys, 2),
                  {a \in NetAxes : keys[a] \notin {0, memory.manual[a]}})

\* Connecting makes a new object with a socket of its own.
Connect == /\ ncall = NoNetCall /\ netCalls < MaxNetCalls /\ netCalls' = netCalls + 1
           /\ memory' = NoMemory /\ late' = {} /\ claim' = NoClaim
           /\ UNCHANGED <<motor, ncall, netFaults>>

-----------------------------------------------------------------------------
(* One exchange *)

\* The routine of the first axis is done: what is remembered, what comes next.
RoutineDone ==
    /\ ncall' = [ncall EXCEPT !.todo = Tail(@), !.at = 1, !.moved = FALSE]
    /\ memory' = IF Routine \in {"stop", "turn"} THEN [memory EXCEPT !.manual[Axis] = Head(ncall.todo).key] ELSE memory

\* mutant: an abort that goes on with the other axis forgets the failure
FailureForgotten ==
    /\ ncall' = CASE ncall.op \in {"abort", "halt", "rescue"} -> [ncall EXCEPT !.todo = Tail(@), !.at = 1]
                  [] Routine \in {"goto", "turn"} \/ ncall.op = "manual" ->
                       [op |-> "rescue", bad |-> TRUE, at |-> 1, moved |-> FALSE,
                        todo |-> (IF Routine = "turn" THEN <<R("stop", Axis)>> ELSE <<>>) \o Both("stop")]
                  [] OTHER -> [ncall EXCEPT !.bad = TRUE, !.todo = <<>>]
    /\ UNCHANGED memory

\* A failed GOTO or manual slew stops both axes, an abort goes on with the
\* other axis, everything else ends.
RoutineFails ==
    /\ ncall' = CASE ncall.op \in {"abort", "halt", "rescue"} -> [ncall EXCEPT !.bad = TRUE, !.todo = Tail(@), !.at = 1]
                  [] Routine \in {"goto", "turn"} \/ ncall.op = "manual" ->
                       [op |-> "rescue", bad |-> TRUE, at |-> 1, moved |-> FALSE,
                        todo |-> (IF Routine = "turn" THEN <<R("stop", Axis)>> ELSE <<>>) \o Both("stop")]
                  [] OTHER -> [ncall EXCEPT !.bad = TRUE, !.todo = <<>>]
    /\ UNCHANGED memory

StepFails ==
    \E i \in GoesOn(Routine, ncall.at) :
      IF i = 0 THEN RoutineFails ELSE ncall' = [ncall EXCEPT !.at = i] /\ UNCHANGED memory

\* What a routine waits for.  A GOTO is also content with an axis that has moved.
Waited(reply) ==
    CASE Routine \in {"stop", "track"} \/ (Routine = "goto" /\ ncall.at = 5) -> {~reply.run}
      [] Routine = "goto" /\ Last -> {ncall.moved \/ (reply.run /\ reply.goto)}
      [] Routine = "turn" -> {reply.run /\ ~reply.goto}
      [] OTHER -> {TRUE}

\* A status must say what the routine waits for; a position taken for a
\* status says anything.
Content(reply) ==
    CASE Cmd = "pos" -> {reply.is = "pos"}
      [] Cmd \notin {"pos", "status"} -> {reply.is # "error"}
      [] Cmd = "status" /\ reply.is # "status" ->
           IF reply.is # "pos" THEN {FALSE} ELSE IF ncall.moved THEN {TRUE} ELSE BOOLEAN
      [] Cmd = "status" /\ reply.is = "status" -> Waited(reply)

Shown(reply) == Routine = "goto" /\ ncall.at = 10 /\ reply.moved

Answered(reply) ==
    \E fine \in Content(reply) :
      IF ~fine THEN StepFails
      ELSE IF Last THEN RoutineDone
      ELSE ncall' = [ncall EXCEPT !.at = @ + 1, !.moved = Shown(reply)] /\ UNCHANGED memory

\* What a call does after a reading that was not its own is not claimed.
Blurred == [NoClaim EXCEPT !.blurred = TRUE]

First == Routine = "goto" /\ ncall.at = 1

\* What this call has made of an axis that obeys.
Obeyed(c) ==
    CASE Cmd = "start" -> [c EXCEPT !.begun = @ \cup {Axis}]
      [] Cmd = "instant" -> [c EXCEPT !.begun = @ \ {Axis}, !.kept = @ \ {Axis}]
      [] OTHER -> c

Exchange ==
    /\ ncall.todo # <<>>
    /\ \E stay \in {{}, late}, acts \in BOOLEAN, answer \in Answers(motor[Axis]) :
         LET here == IF First THEN [motor[Axis] EXCEPT !.ran = FALSE] ELSE motor[Axis]
             own == IF acts THEN {answer} ELSE {}
             seen == [claim EXCEPT !.coasted = @ \/ (First /\ Moving(motor[Axis]))]
             note == IF claim.blurred THEN claim ELSE IF acts THEN Obeyed(seen) ELSE seen
         IN
         /\ motor' = [motor EXCEPT ![Axis] = IF acts THEN Acted(here) ELSE here]
         /\ netFaults' = IF acts THEN netFaults ELSE netFaults + 1
         /\ \/ acts /\ Answered(answer) /\ late' = stay /\ claim' = note
            \/ \E other \in stay : Answered(other) /\ late' = (stay \ {other}) \cup own
                                   /\ claim' = IF Cmd \in {"status", "pos"} THEN Blurred ELSE note
            \/ ~acts /\ netFaults < MaxNetFaults /\ StepFails /\ late' = stay /\ claim' = note
         /\ netFaults' <= MaxNetFaults
    /\ UNCHANGED netCalls

\* The reply is late; if nobody takes it, it is as good as lost.
Delayed ==
    /\ ncall.todo # <<>> /\ netFaults < MaxNetFaults /\ netFaults' = netFaults + 1
    /\ \E stay \in {{}, late}, answer \in Answers(motor[Axis]) :
         /\ late' = stay \cup {answer}
         /\ motor' = [motor EXCEPT ![Axis] = Acted(@)]
         /\ claim' = IF claim.blurred THEN claim ELSE Obeyed(claim)
    /\ StepFails
    /\ UNCHANGED netCalls

\* The call returns.  An abort, also the one after a failure, forgets the
\* manual slew whether or not the axes have stopped.
Return ==
    /\ ncall # NoNetCall /\ ncall.todo = <<>> /\ ncall' = NoNetCall
    /\ memory' = CASE ncall.op \in {"abort", "halt", "rescue"} -> [NoMemory EXCEPT !.parked = memory.parked]
                   [] ncall.op \in {"slew", "park"} /\ ~ncall.bad ->
                        [memory EXCEPT !.tracking = FALSE, !.parked = ncall.op = "park"]
                   [] ncall.op = "track" /\ ~ncall.bad -> [memory EXCEPT !.tracking = TRUE]
                   [] OTHER -> memory
    /\ claim' = IF ncall.bad THEN NoClaim ELSE [claim EXCEPT !.op = ncall.op]
    /\ motor' = [a \in NetAxes |-> [motor[a] EXCEPT !.ran = FALSE]]
    /\ UNCHANGED <<late, netFaults, netCalls>>

NetNext ==
    \/ \E a \in NetAxes : Settles(a)
    \/ SlewTo \/ Park \/ Unpark \/ AbortMotion \/ Track \/ Untrack \/ ManualSlew \/ Connect
    \/ Exchange \/ Delayed \/ Return

-----------------------------------------------------------------------------
(* Properties *)

\* A stop that was reported done has left both axes at rest; a GOTO that was
\* reported done has started every axis it was to start; a manual slew that
\* was, has started every axis or never stopped it, whatever was lost or late
\* on the way: of an axis at rest, or stopped, a late acknowledgement cannot
\* pass for a command that was lost.  Of an axis that turned before it can: it
\* goes on turning as it did.  The verification itself can be fooled by a late
\* status or position, and by an axis that still coasts when a GOTO first
\* looks at it (SynScanNetworkMount::confirmedStopAxis, gotoAxisDelta,
\* setManualRate).
DoneIsDone ==
    claim.blurred \/ /\ claim.op \in {"abort", "halt"} => \A a \in NetAxes : motor[a].does = "still"
                     /\ claim.op \in {"slew", "park"} => claim.wanted \subseteq claim.begun \/ claim.coasted
                     /\ claim.op = "manual" => claim.wanted \subseteq claim.begun \cup claim.kept
=============================================================================
