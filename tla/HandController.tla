---------------------------- MODULE HandController ----------------------------
(***************************************************************************)
(* A Sky-Watcher mount behind its SynScan hand controller: the commands    *)
(* each driver call sends, one exchange at a time.  The task of a          *)
(* mount.slew operation and the main thread call the driver; the device    *)
(* mutex keeps their calls apart, except mount.abort, whose exchanges come *)
(* between those of the other call.                                        *)
(*                                                                         *)
(* An exchange that is not answered was obeyed or was not.  A GOTO and the *)
(* turning of an axis at a fixed rate are the motions; where they lead is  *)
(* left out, and so is tracking.                                           *)
(***************************************************************************)
EXTENDS Naturals, Sequences, FiniteSets

CONSTANTS MaxHandCalls,  \* bound: requests of clients
          MaxLost        \* bound: exchanges without an answer

VARIABLES
    hand,      \* the hand controller: in a GOTO, turning axes, aligned
    hmain, hpool,  \* the call of the main thread, and of the operation
    gotoOp,    \* the mount.slew operation
    flagged,   \* its cancellation flag
    turned,    \* history: the axes a client has asked to turn and not to stop
    unheard,   \* exchanges without an answer: the call and the command
    handCalls

handVars == <<hand, hmain, hpool, gotoOp, flagged, turned, unheard, handCalls>>

Arms == {"ra", "dec"}
Free == [m |-> "none", todo |-> <<>>, ok |-> {}, bad |-> {}, on |-> {}, seen |-> FALSE]

HandInit ==
    /\ hand = [goto |-> FALSE, turn |-> {}, aligned |-> TRUE]
    /\ hmain = Free /\ hpool = Free /\ gotoOp = "none" /\ flagged = FALSE
    /\ turned = {} /\ unheard = {} /\ handCalls = 0

-----------------------------------------------------------------------------
(* The commands of a call *)

Cmd(do) == [do |-> do, arm |-> "none", on |-> FALSE]
FixedRate(arm, on) == [do |-> "rate", arm |-> arm, on |-> on]
StopManualAxes == <<FixedRate("ra", FALSE), FixedRate("dec", FALSE)>>

StatusOf == <<Cmd("position"), Cmd("trackingMode"), Cmd("gotoBusy"), Cmd("pierSide"), Cmd("alignment")>>
SlewOf == <<Cmd("alignment"), Cmd("goto")>>
AbortOf == <<Cmd("abort")>> \o StopManualAxes
SyncOf == <<Cmd("sync")>>
TrackingOf == <<Cmd("tracking")>>
ManualOf(on) == <<FixedRate("ra", "ra" \in on), FixedRate("dec", "dec" \in on)>>
PulseOf(arm) == <<FixedRate(arm, TRUE), FixedRate(arm, FALSE)>>

Sends(m, todo, on) == [Free EXCEPT !.m = m, !.todo = todo, !.on = on]

Does(cmd) ==
    CASE cmd.do = "goto" -> [hand EXCEPT !.goto = TRUE]
      [] cmd.do = "abort" -> [hand EXCEPT !.goto = FALSE]
      [] cmd.do = "rate" -> [hand EXCEPT !.turn = IF cmd.on THEN @ \cup {cmd.arm} ELSE @ \ {cmd.arm}]
      [] OTHER -> hand

Answered(c, cmd) ==
    [c EXCEPT !.todo = IF cmd.do = "alignment" /\ c.m = "slew" /\ ~hand.aligned THEN <<>> ELSE Tail(@),
              !.bad = IF cmd.do = "alignment" /\ c.m = "slew" /\ ~hand.aligned THEN @ \cup {"alignment"} ELSE @,
              !.ok = @ \cup {<<cmd.do, cmd.arm>>},
              !.seen = IF cmd.do = "gotoBusy" THEN hand.goto ELSE @]

\* mutant: a manual slew is given up as it is
GivesUpMoving(c, cmd) ==
    LET bad == [c EXCEPT !.bad = @ \cup {cmd.do}] IN
    IF c.m = "abort" \/ (c.m = "status" /\ cmd.do # "position") \/ (c.m = "manual" /\ cmd.arm = "ra")
    THEN [bad EXCEPT !.todo = Tail(@)] ELSE [bad EXCEPT !.todo = <<>>]

\* A status needs the position only, an abort goes on, a manual slew ends in
\* StopManualAxes, whose answers nobody looks at, after both its commands;
\* any other call ends.
Unanswered(c, cmd) ==
    LET bad == [c EXCEPT !.bad = @ \cup {cmd.do}] IN
    CASE c.m \in {"abort", "rescue"} \/ (c.m = "status" /\ cmd.do # "position") -> [bad EXCEPT !.todo = Tail(@)]
      [] c.m = "manual" -> [bad EXCEPT !.m = "rescue", !.todo = Tail(@) \o StopManualAxes]
      [] OTHER -> [bad EXCEPT !.todo = <<>>]

HandExchange(c, cn) ==
    /\ c.todo # <<>>
    /\ LET cmd == Head(c.todo) IN
       \/ cn = Answered(c, cmd) /\ hand' = Does(cmd) /\ UNCHANGED unheard
       \/ /\ Cardinality(unheard) < MaxLost /\ unheard' = unheard \cup {<<c.m, cmd.do>>}
          /\ cn = Unanswered(c, cmd) /\ hand' \in {hand, Does(cmd)}
    /\ UNCHANGED <<gotoOp, flagged, turned, handCalls>>

MainSends == HandExchange(hmain, hmain') /\ UNCHANGED hpool
PoolSends == HandExchange(hpool, hpool') /\ UNCHANGED hmain

\* A GOTO arrives; a user aligns or restarts the hand controller.
Arrives == hand.goto /\ hand' = [hand EXCEPT !.goto = FALSE]
           /\ UNCHANGED <<hmain, hpool, gotoOp, flagged, turned, unheard, handCalls>>
Align == /\ handCalls > 0 /\ ~hand.goto /\ hand' = [hand EXCEPT !.aligned = ~@]
         /\ UNCHANGED <<hmain, hpool, gotoOp, flagged, turned, unheard, handCalls>>

-----------------------------------------------------------------------------
(* Requests on the main thread *)

Requests == hmain = Free /\ handCalls < MaxHandCalls /\ handCalls' = handCalls + 1
            /\ UNCHANGED <<hand, hpool, unheard>>

\* Most requests are refused while an operation has the mount.
Request ==
    /\ Requests /\ gotoOp = "none" /\ UNCHANGED <<gotoOp, flagged, turned>>
    /\ \/ hmain' = Sends("sync", SyncOf, {})
       \/ hmain' = Sends("tracking", TrackingOf, {})
       \/ \E on \in SUBSET Arms : hmain' = Sends("manual", ManualOf(on), on)
       \/ \E arm \in Arms : hmain' = Sends("pulse", PulseOf(arm), {})

StartSlew == Requests /\ gotoOp = "none" /\ gotoOp' = "starting" /\ flagged' = FALSE /\ UNCHANGED <<hmain, turned>>

Abort == /\ Requests /\ hmain' = Sends("abort", AbortOf, {})
         /\ flagged' = (gotoOp # "none") /\ UNCHANGED <<gotoOp, turned>>

\* An abort has succeeded when one of its two parts has.
AbortDone(c) == <<"abort", "none">> \in c.ok \/ \A arm \in Arms : <<"rate", arm>> \in c.ok

MainReturns ==
    /\ hmain # Free /\ hmain.todo = <<>> /\ hmain' = Free
    /\ turned' = CASE hmain.m = "manual" -> hmain.on
                   [] hmain.m = "rescue" -> {}
                   [] hmain.m = "abort" /\ AbortDone(hmain) -> {}
                   [] OTHER -> turned
    /\ UNCHANGED <<hand, hpool, gotoOp, flagged, unheard, handCalls>>

-----------------------------------------------------------------------------
(* The operation; its calls wait for the device mutex *)

Lends == hpool = Free /\ hmain.m \in {"none", "abort"} /\ UNCHANGED <<hand, hmain, turned, unheard, handCalls>>

Begins == /\ Lends /\ gotoOp = "starting" /\ UNCHANGED flagged
          /\ IF flagged THEN gotoOp' = "none" /\ UNCHANGED hpool
             ELSE gotoOp' = "commanding" /\ hpool' = Sends("slew", SlewOf, {})

Polls == /\ Lends /\ gotoOp = "polling" /\ ~flagged /\ UNCHANGED <<gotoOp, flagged>>
         /\ hpool' = Sends("status", StatusOf, {})

\* Cancelled, or after ten minutes.
GivesUp == /\ hpool = Free /\ gotoOp = "polling" /\ gotoOp' = "aborting" /\ hpool' = Sends("abort", AbortOf, {})
           /\ UNCHANGED <<hand, hmain, flagged, turned, unheard, handCalls>>

\* A status that cannot be read and one that shows no GOTO end the operation.
PoolReturns ==
    /\ hpool # Free /\ hpool.todo = <<>> /\ hpool' = Free
    /\ gotoOp' = IF \/ hpool.m = "slew" /\ hpool.bad = {}
                    \/ hpool.m = "status" /\ "position" \notin hpool.bad /\ hpool.seen
                 THEN "polling" ELSE "none"
    /\ UNCHANGED <<hand, hmain, flagged, turned, unheard, handCalls>>

HandNext == \/ MainSends \/ PoolSends \/ Arrives \/ Align \/ Request \/ StartSlew \/ Abort \/ MainReturns
            \/ Begins \/ Polls \/ GivesUp \/ PoolReturns

-----------------------------------------------------------------------------
(* Property *)

\* Between calls no GOTO runs without the operation that started it, and no
\* axis turns that no client asked to turn, however aborts come between the
\* exchanges of other calls and whichever answer is lost, except where the
\* driver does not look: an abort with one part lost is reported as done, a
\* status without gotoBusy shows no GOTO, and a GOTO, a status and a guide
\* pulse that fail stop nothing, and nobody looks at the answers of
\* StopManualAxes after a manual slew that failed (invoke: mount.abort, mount.status,
\* mount.slew, mount.manualSlew, mount.pulseGuide; startMountSlew).
MotionIsAsked ==
    (hmain = Free /\ hpool = Free) =>
        /\ hand.goto /\ gotoOp = "none" =>
              unheard \cap {<<"abort", "abort">>, <<"status", "gotoBusy">>, <<"status", "position">>, <<"slew", "goto">>} # {}
        /\ ~(hand.turn \subseteq turned) =>
              unheard \cap {<<"abort", "rate">>, <<"pulse", "rate">>, <<"rescue", "rate">>} # {}
=============================================================================
