------------------------------ MODULE Autofocus ------------------------------
(***************************************************************************)
(* The autofocus operation on its pool thread, with a client that cancels  *)
(* it or halts the focuser.  A search moves the focuser, waits until it is *)
(* idle and grades the frames it takes there; grades are compared with     *)
(* their spread, so any comparison may come out either way.  Commands that *)
(* fail, and motions that do not end in time, are bounded.                 *)
(***************************************************************************)
EXTENDS Integers, Sequences

CONSTANTS Starts,           \* positions of the focuser when the search starts
          MaxPosition,     \* the driver's limit
          Coarse, Fine, Half,  \* coarseStep, fineStep, half the range
          MaxFocusFaults   \* bound: commands that fail

VARIABLES
    focus,    \* the focuser: where it is, where it goes
    af,       \* the search: mode, where it is in it, what it found
    stopped,  \* cancellation was requested
    halted,   \* a client's HALT stopped a motion
    report,   \* what the search returned: kind, bestPosition
    afFaults

afVars == <<focus, af, stopped, halted, report, afFaults>>

None == [kind |-> "none", best |-> 0]

AfInit ==
    /\ focus = [at |-> 0, goal |-> 0]
    /\ af = [scene |-> FALSE, pc |-> "idle", stage |-> "none", from |-> 0, todo |-> <<>>, seen |-> {},
             best |-> 0, samples |-> 0, probes |-> 0]
    /\ stopped = FALSE /\ halted = FALSE /\ report = None /\ afFaults = 0

-----------------------------------------------------------------------------
(* The focuser *)

Moving == focus.at # focus.goal
Done == afFaults' = afFaults
Fault == afFaults < MaxFocusFaults /\ afFaults' = afFaults + 1

\* A position outside the driver's limits is refused.
Moved(p) == p <= MaxPosition /\ Done /\ focus' = [focus EXCEPT !.goal = p]

\* A command that failed may have been carried out: its answer was lost.
MoveFails(p) == \/ p > MaxPosition /\ Done /\ UNCHANGED focus
                \/ p <= MaxPosition /\ Fault /\ focus' \in {focus, [focus EXCEPT !.goal = p]}

Turn ==
    /\ Moving /\ focus' = [focus EXCEPT !.at = IF @ < focus.goal THEN @ + 1 ELSE @ - 1]
    /\ UNCHANGED <<af, stopped, halted, report, afFaults>>

\* Native Gemini has no halt.
Halt == focus' \in {focus, [focus EXCEPT !.goal = focus.at]}

-----------------------------------------------------------------------------
(* Clients *)

Cancel ==
    /\ af.pc # "idle" /\ stopped' = TRUE
    /\ UNCHANGED <<focus, af, halted, report, afFaults>>

\* haltFocuser() cancels the operation that holds the focuser, then halts it.
HaltFocuser ==
    /\ af.pc # "idle" /\ stopped' = TRUE /\ Halt
    /\ halted' = (halted \/ (Moving /\ focus'.goal = focus.at))
    /\ UNCHANGED <<af, report, afFaults>>

-----------------------------------------------------------------------------
(* One scan: the positions in todo, one after the other *)

\* A scan that is left early has no more positions; the scene search makes a scan of
\* each position.
Rest == IF af.scene THEN Tail(af.todo) ELSE <<>>

Scan(todo, stage) == [af EXCEPT !.pc = "scan", !.todo = todo, !.stage = stage]
Skip(todo) == af' = [af EXCEPT !.pc = "scan", !.todo = todo]

\* A position whose move is refused is passed over.
ScanMove ==
    /\ af.pc = "scan" /\ af.todo # <<>>
    /\ \/ stopped /\ Skip(Rest) /\ Done /\ UNCHANGED focus
       \/ ~stopped /\ Moved(Head(af.todo)) /\ af' = [af EXCEPT !.pc = "wait"]
       \/ ~stopped /\ MoveFails(Head(af.todo)) /\ Skip(Tail(af.todo))
    /\ UNCHANGED <<stopped, halted, report>>

\* waitForFocuserIdle(): the status cannot be read, or the time is over, or it is idle.
Waited(ok, failed) ==
    /\ UNCHANGED focus
    /\ \/ ~Moving /\ Done /\ ok
       \/ Fault /\ failed

ScanWait ==
    /\ af.pc = "wait"
    /\ \/ stopped /\ Skip(Rest) /\ Done /\ UNCHANGED focus
       \/ Waited(af' = [af EXCEPT !.pc = "grade"], Skip(Rest))
    /\ UNCHANGED <<stopped, halted, report>>

\* score(): a frame shows no stars or structure, or a metric to compare.
Scores == {"none", "some"}

\* After the settling time, frames are taken and graded.
Grade ==
    /\ af.pc = "grade"
    /\ \/ stopped /\ Skip(Rest)
       \/ \E score \in Scores :
            af' = [af EXCEPT !.pc = "scan", !.todo = Tail(@),
                             !.samples = IF @ < 3 THEN @ + 1 ELSE @,
                             !.seen = IF score = "some" THEN @ \cup {Head(af.todo)} ELSE @]
    /\ UNCHANGED <<focus, stopped, halted, report, afFaults>>

-----------------------------------------------------------------------------
(* The search *)

\* run() reads the focuser's position, wherever it was left.
Run(scene) ==
    /\ af.pc = "idle" /\ report = None
    /\ \E p \in Starts :
       \/ /\ Done /\ UNCHANGED report /\ focus' = [at |-> p, goal |-> p]
          /\ af' = [af EXCEPT !.scene = scene, !.from = p, !.best = p,
                             !.pc = IF scene THEN "meter" ELSE "begin"]
       \/ Fault /\ report' = [None EXCEPT !.kind = "failed"] /\ UNCHANGED <<af, focus>>
    /\ UNCHANGED <<stopped, halted>>

\* The scene search first takes up to four frames to choose its exposure.
Meter ==
    /\ af.pc = "meter" /\ af' = [af EXCEPT !.pc = "begin"]
    /\ UNCHANGED <<focus, stopped, halted, report, afFaults>>

Steps(lo, hi, step) == [i \in 1 .. ((hi - lo) \div step + 1) |-> lo + (i - 1) * step]
Above0(p) == IF p > 0 THEN p ELSE 0
InRange(p) == Above0(af.from - Half) <= p /\ p <= af.from + Half
Around(p, steps) == SelectSeq([i \in DOMAIN steps |-> p + steps[i]], InRange)

Restore == [af EXCEPT !.pc = "restore"]
Cancelled == [af EXCEPT !.pc = "halt"]

\* A scan is over: `next` is where the search goes from there.
After(stage, next) ==
    /\ af.pc = "scan" /\ af.todo = <<>> /\ af.stage = stage
    /\ af' \in IF stopped THEN {Cancelled} ELSE next
    /\ UNCHANGED <<focus, stopped, halted, report, afFaults>>

Begin ==
    /\ af.pc = "begin"
    /\ af' = IF stopped THEN Cancelled
             ELSE IF af.scene THEN Scan(<<af.from>>, "center")
             ELSE Scan(Steps(Above0(af.from - Half), af.from + Half, Coarse), "coarse")
    /\ UNCHANGED <<focus, stopped, halted, report, afFaults>>

\* Three samples, one of them of use; then a scan around the best.
CoarseDone ==
    LET lo(p) == Above0(p - IF Coarse > 4 * Fine THEN Coarse ELSE 4 * Fine)
        hi(p) == p + IF Coarse > 4 * Fine THEN Coarse ELSE 4 * Fine
    IN After("coarse", {Restore} \cup
         {[Scan(Steps(lo(p), hi(p), Fine), "fine") EXCEPT !.best = p, !.seen = {}] :
            p \in IF af.samples = 3 THEN af.seen ELSE {}})

FineDone == After("fine", {[af EXCEPT !.pc = "settle", !.best = p] : p \in af.seen \cup {af.best}})

CenterDone ==
    After("center", IF af.seen = {} THEN {Restore}
                    ELSE {Scan(Around(af.from, <<-Coarse, Coarse>>), "sides")})

\* Neither side is better: a small scan around the start.  Else the search climbs.
SidesDone ==
    After("sides", {Scan(Around(af.from, <<-2 * Fine, -Fine, Fine, 2 * Fine>>), "refine")} \cup
          {[af EXCEPT !.pc = "climb", !.best = p] : p \in af.seen \ {af.from}})

Up == IF af.best > af.from THEN Coarse ELSE -Coarse

\* At most four probes; a peak that is not bracketed inside the range is none.
Climb ==
    /\ af.pc = "climb"
    /\ af' = IF af.probes = 4 \/ ~InRange(af.best + Up) THEN Restore
             ELSE [Scan(<<af.best + Up>>, "probe") EXCEPT !.probes = @ + 1]
    /\ UNCHANGED <<focus, stopped, halted, report, afFaults>>

ProbeDone ==
    After("probe", {Scan(Around(af.best, <<-2 * Fine, -Fine, Fine, 2 * Fine>>), "refine")} \cup
          {[af EXCEPT !.pc = "climb", !.best = p] : p \in {af.best + Up} \cap af.seen})

RefineDone == After("refine", {[af EXCEPT !.pc = "settle", !.best = p] : p \in af.seen \cup {af.best}})

-----------------------------------------------------------------------------
(* The end *)

\* The best position, or the start if it is not clearly better; a move that fails, and
\* a wait that fails or is cancelled, restores the start.
SettleMove ==
    /\ af.pc = "settle"
    /\ \E p \in {af.best} \cup IF af.scene THEN {af.from} ELSE {} :
         \/ Moved(p) /\ af' = [af EXCEPT !.pc = "settling", !.best = p]
         \/ MoveFails(p) /\ af' = Restore
    /\ UNCHANGED <<stopped, halted, report>>

Success == report' = [kind |-> "success", best |-> af.best] /\ af' = [af EXCEPT !.pc = "end"]

SettleWait ==
    /\ af.pc = "settling" /\ UNCHANGED <<stopped, halted>>
    /\ \/ stopped /\ af' = Restore /\ Done /\ UNCHANGED <<focus, report>>
       \/ Waited(IF af.scene /\ stopped /\ af.stage # "verify" THEN af' = Cancelled /\ UNCHANGED report
                 ELSE IF af.scene /\ af.best # af.from
                      THEN af' = [Scan(<<af.best>>, "verify") EXCEPT !.seen = {}] /\ UNCHANGED report
                 ELSE Success,
                 af' = Restore /\ UNCHANGED report)

\* mutant: a peak that is not repeatable is given up without a move
VerifyKeeps ==
    After("verify", {[af EXCEPT !.pc = "settling", !.best = p] : p \in {af.from} \cup af.seen})

\* The sample at the new position is better again, or the search goes back to the start.
VerifyDone ==
    \/ After("verify", {[af EXCEPT !.pc = "settle", !.best = af.from]})
    \/ /\ af.pc = "scan" /\ af.todo = <<>> /\ af.stage = "verify" /\ ~stopped /\ af.best \in af.seen
       /\ Success /\ UNCHANGED <<focus, stopped, halted, afFaults>>

\* cancelAndRestore()
HaltFirst ==
    /\ af.pc = "halt" /\ Halt /\ af' = Restore
    /\ UNCHANGED <<stopped, halted, report, afFaults>>

\* failAndRestore()
RestoreMove ==
    /\ af.pc = "restore"
    /\ \/ Moved(af.from) /\ af' = [af EXCEPT !.pc = "restoring"] /\ UNCHANGED report
       \/ MoveFails(af.from) /\ af' = [af EXCEPT !.pc = "end"] /\ report' = [None EXCEPT !.kind = "warning"]
    /\ UNCHANGED <<stopped, halted>>

\* Nothing cancels this wait.
RestoreWait ==
    /\ af.pc = "restoring" /\ af' = [af EXCEPT !.pc = "end"]
    /\ Waited(report' = [kind |-> "restored", best |-> af.from], report' = [None EXCEPT !.kind = "warning"])
    /\ UNCHANGED <<stopped, halted>>

\* The operation ends; one that was cancelled halts the focuser once more.
End ==
    /\ af.pc = "end" /\ af' = [af EXCEPT !.pc = "idle"]
    /\ IF stopped THEN Halt ELSE UNCHANGED focus
    /\ UNCHANGED <<stopped, halted, report, afFaults>>

AfNext ==
    \/ Turn \/ Cancel \/ HaltFocuser \/ ScanMove \/ ScanWait \/ Grade
    \/ \E scene \in BOOLEAN : Run(scene)
    \/ Meter \/ Begin \/ CoarseDone \/ FineDone \/ CenterDone \/ SidesDone \/ Climb \/ ProbeDone \/ RefineDone
    \/ SettleMove \/ SettleWait \/ VerifyDone \/ HaltFirst \/ RestoreMove \/ RestoreWait \/ End

-----------------------------------------------------------------------------
(* Property *)

\* When the search has returned a position, chosen or restored, the focuser is at rest
\* there, whatever failed on the way and whenever it was cancelled; a client's HALT in
\* the middle of a motion excepts it, as the wait for a motion's end looks at the
\* motion and not at the position (autofocus_engine.cpp:201-209, 251-261).
FocusAsReported ==
    report.kind \in {"success", "restored"} /\ ~halted => focus = [at |-> report.best, goal |-> report.best]
=============================================================================
