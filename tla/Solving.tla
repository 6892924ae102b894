------------------------------- MODULE Solving -------------------------------
(***************************************************************************)
(* Plate solving: the adaptive solve, which stacks short frames and tries  *)
(* again, and the automatic polar alignment, which solves a frame at each  *)
(* of several mount positions.  Both run on a pool thread and publish what *)
(* they found on the main thread, where clients solve the last frame, take *)
(* pictures, move the mount and cancel.                                    *)
(*                                                                         *)
(* A frame is the attempt it was taken in and, in a polar alignment, the   *)
(* position the mount pointed at.  Images, star counts, exposures and      *)
(* hints are left out; what they decide is a choice.                       *)
(***************************************************************************)
EXTENDS Naturals, Sequences, FiniteSets

CONSTANTS Attempts,      \* of an adaptive solve, clamped to 1 to 6 in the code
          Stack,         \* frames of an attempt after the first
          Samples,       \* of a polar alignment, clamped to 2 to 5
          MaxSolves,     \* bound: operations
          MaxSlips       \* bound: calls that fail

VARIABLES
    scope,    \* the mount: where it points, slewing, turning by hand, parked
    task,     \* the operation
    lastFrame, polarSamples,  \* of the ApplicationController
    lastSolve,  \* lastSolve_: the frame that was solved, and the one published with it
    wanted,   \* the operation's cancellation flag
    slipped,  \* what has failed, kind by kind
    solves

solveVars == <<scope, task, lastFrame, polarSamples, lastSolve, wanted, slipped, solves>>

NoFrame == [no |-> 0, at |-> 0]
NoResult == [of |-> NoFrame, ok |-> FALSE]
NoSolve == [of |-> NoFrame, with |-> NoFrame]
NoTask == [kind |-> "none", step |-> "end", n |-> 0, left |-> 0, seen |-> 0, frame |-> NoFrame,
           result |-> NoResult, samples |-> <<>>, restless |-> FALSE, then |-> "end"]

SolvingInit ==
    /\ scope = [at |-> 1, slewing |-> "no", turning |-> FALSE, parked |-> FALSE]
    /\ task = NoTask /\ lastFrame = NoFrame /\ lastSolve = NoSolve /\ polarSamples = {}
    /\ wanted = FALSE /\ slipped = {} /\ solves = 0

Slip(kind) == Cardinality(slipped) < MaxSlips /\ slipped' = slipped \cup {kind}
NoSlip == UNCHANGED slipped

Go(step) == task' = [task EXCEPT !.step = step]
Stop == Go("end")
Shared == UNCHANGED <<lastFrame, lastSolve, polarSamples>>
Own == UNCHANGED <<wanted, solves>>

-----------------------------------------------------------------------------
(* AstapSolver::solve(): the temporary image is written, the process is    *)
(* started, waited for, killed when it takes too long, and its result file *)
(* is read.  Each of these may fail, and so may the search for the stars.  *)

Solutions(frame) == {[of |-> frame, ok |-> ok] : ok \in BOOLEAN}

-----------------------------------------------------------------------------
(* solver.adaptive *)

Adaptive ==
    /\ task.step = "end" /\ solves < MaxSolves /\ solves' = solves + 1
    /\ task' = [NoTask EXCEPT !.kind = "adaptive", !.step = "attempt"]
    /\ wanted' = FALSE /\ UNCHANGED scope /\ Shared /\ NoSlip

Doing(kind, step) == task.kind = kind /\ task.step = step

\* Each attempt and each of its frames begins with a look at the flag.
Attempt ==
    /\ Doing("adaptive", "attempt")
    /\ IF task.n = Attempts THEN Go("commit")
       ELSE IF wanted THEN Stop
       ELSE task' = [task EXCEPT !.step = "frame", !.n = @ + 1, !.left = IF task.n = 0 THEN 1 ELSE Stack]
    /\ UNCHANGED scope /\ Shared /\ Own /\ NoSlip

\* A capture may fail, and the frames of all attempts may take too long.
ShortFrame ==
    /\ Doing("adaptive", "frame")
    /\ \/ Stop
       \/ /\ ~wanted
          /\ task' = [task EXCEPT !.left = @ - 1, !.step = IF task.left = 1 THEN "prepare" ELSE "frame",
                                  !.frame = [no |-> task.n, at |-> 0]]
    /\ UNCHANGED scope /\ Shared /\ Own /\ NoSlip

\* mutant: an attempt with few stars is given up even if it is the last
AnyGivenUp == TRUE

\* With few stars an attempt is given up, but not the last one.
MayGiveUp == task.n < Attempts

\* AdaptivePlateSolvePreprocessor::prepare() makes one frame of the stack, or
\* none if all images were empty.
Prepare ==
    /\ Doing("adaptive", "prepare")
    /\ Stop \/ Go("solve") \/ (MayGiveUp /\ Go("attempt"))
    /\ UNCHANGED scope /\ Shared /\ Own /\ NoSlip

SolveFrame ==
    /\ Doing("adaptive", "solve")
    /\ \E result \in Solutions(task.frame) :
         task' = [task EXCEPT !.result = result, !.step = IF result.ok THEN "commit" ELSE "attempt"]
    /\ UNCHANGED scope /\ Shared /\ Own /\ NoSlip

Announce(frame, result) ==
    lastFrame' = frame /\ lastSolve' = [of |-> result.of, with |-> frame]

\* The frame and its solution are published together, also the last ones of
\* a search that failed.
Commit ==
    /\ Doing("adaptive", "commit")
    /\ Announce(task.frame, task.result) /\ Stop
    /\ UNCHANGED <<scope, polarSamples>> /\ Own /\ NoSlip

-----------------------------------------------------------------------------
(* polar.align *)

Polar ==
    /\ task.step = "end" /\ solves < MaxSolves /\ solves' = solves + 1
    /\ task' = [NoTask EXCEPT !.kind = "polar", !.step = "unpark", !.restless = scope.slewing # "no" \/ scope.turning]
    /\ wanted' = FALSE /\ UNCHANGED scope /\ Shared /\ NoSlip

UnparkFirst ==
    /\ Doing("polar", "unpark")
    /\ \/ Stop /\ UNCHANGED scope
       \/ ~scope.parked /\ Go("sample") /\ UNCHANGED scope
       \/ scope.parked /\ task' = [task EXCEPT !.step = "wait", !.then = "sample"]
          /\ scope' = [scope EXCEPT !.parked = FALSE]
    /\ Shared /\ Own /\ NoSlip

\* Where the mount points is read before the exposure.
Sample ==
    /\ Doing("polar", "sample")
    /\ Stop \/ (~wanted /\ task' = [task EXCEPT !.step = "expose", !.seen = scope.at, !.n = @ + 1])
    /\ UNCHANGED scope /\ Shared /\ Own /\ NoSlip

Expose ==
    /\ Doing("polar", "expose")
    /\ Stop \/ task' = [task EXCEPT !.step = "publish", !.frame = [no |-> task.n, at |-> scope.at]]
    /\ UNCHANGED scope /\ Shared /\ Own /\ NoSlip

\* The solution is published before it is used.
Publish ==
    /\ Doing("polar", "publish")
    /\ \E result \in Solutions(task.frame) :
         /\ Announce(task.frame, result)
         /\ IF ~result.ok THEN Stop
            ELSE task' = [task EXCEPT !.samples = Append(@, [frame |-> task.frame, mount |-> task.seen]),
                                      !.step = IF task.n = Samples THEN "estimate" ELSE "step"]
    /\ UNCHANGED <<scope, polarSamples>> /\ Own /\ NoSlip

Slew(then) == /\ task' = [task EXCEPT !.step = "wait", !.then = then]
              /\ scope' = [scope EXCEPT !.slewing = "task", !.turning = FALSE]

\* The next position, if the way to it is safe and the mount takes the command.
Step ==
    /\ Doing("polar", "step")
    /\ Slew("sample") \/ (Stop /\ UNCHANGED scope)
    /\ Shared /\ Own /\ NoSlip

AbortMotion == \/ scope' = [scope EXCEPT !.slewing = "no", !.turning = FALSE] /\ NoSlip
               \/ Slip("command") /\ UNCHANGED scope

\* waitIdle(): a cancelled slew and one that takes too long are aborted, one
\* whose status cannot be read is not.  The way back ends the same way.
WaitIdle ==
    \/ scope.slewing = "no" /\ ~wanted /\ Go(task.then) /\ NoSlip /\ UNCHANGED scope
    \/ Go(IF task.then = "save" THEN "save" ELSE "end") /\
       \/ (wanted \/ scope.slewing # "no") /\ AbortMotion
       \/ Slip("status") /\ UNCHANGED scope

Wait == Doing("polar", "wait") /\ WaitIdle /\ Shared /\ Own

\* With returnToStart the mount goes back, if the way is safe.
Estimate ==
    /\ Doing("polar", "estimate")
    /\ Slew("save") \/ ((Stop \/ Go("save")) /\ UNCHANGED scope)
    /\ Shared /\ Own /\ NoSlip

Save ==
    /\ Doing("polar", "save") /\ Stop
    /\ polarSamples' = {task.samples[i] : i \in DOMAIN task.samples}
    /\ UNCHANGED <<scope, lastFrame, lastSolve>> /\ Own /\ NoSlip

-----------------------------------------------------------------------------
(* The main thread and the mount *)

Quiet == task' = task /\ NoSlip /\ UNCHANGED solves

\* cancelOperation() also stops the mount of a polar alignment.
Cancel ==
    /\ task.step # "end" /\ ~wanted /\ wanted' = TRUE
    /\ \/ task.kind = "polar" /\ AbortMotion
       \/ task.kind # "polar" /\ NoSlip /\ UNCHANGED scope
    /\ Shared /\ UNCHANGED <<task, solves>>

SolveLast ==
    /\ lastFrame # NoFrame /\ \E result \in Solutions(lastFrame) : Announce(lastFrame, result)
    /\ UNCHANGED <<scope, polarSamples, wanted>> /\ Quiet

\* A picture of a client, while no operation has the camera.
Capture ==
    /\ task.step = "end" /\ lastFrame' = [no |-> 0, at |-> 1]
    /\ UNCHANGED <<scope, lastSolve, polarSamples, wanted>> /\ Quiet

\* Requests that move the mount return while it still moves; they are
\* refused as long as an operation has the mount.
HandMoves ==
    /\ task.step = "end" \/ task.kind = "adaptive"
    /\ scope' \in {[scope EXCEPT !.slewing = "hand", !.turning = FALSE, !.parked = FALSE],
                   [scope EXCEPT !.slewing = "no", !.turning = TRUE, !.parked = FALSE],
                   [scope EXCEPT !.slewing = "no", !.turning = FALSE]}
    /\ Shared /\ UNCHANGED wanted /\ Quiet

Places == 1..(Samples + 1)

\* A slew to the park position ends in park.
Moves ==
    /\ scope.slewing # "no" \/ scope.turning
    /\ \E to \in Places \ {scope.at}, parks \in BOOLEAN :
         scope' \in {[scope EXCEPT !.at = to]} \cup
                    (IF scope.slewing = "no" \/ (parks /\ scope.slewing = "task") THEN {}
                     ELSE {[scope EXCEPT !.at = to, !.slewing = "no", !.parked = parks]})
    /\ Shared /\ UNCHANGED wanted /\ Quiet

SolvingNext ==
    \/ Adaptive \/ Attempt \/ ShortFrame \/ Prepare \/ SolveFrame \/ Commit
    \/ Polar \/ UnparkFirst \/ Sample \/ Expose \/ Publish \/ Step \/ Wait \/ Estimate \/ Save
    \/ Cancel \/ SolveLast \/ Capture \/ HandMoves \/ Moves

-----------------------------------------------------------------------------
(* Properties *)

\* The solution that is published belongs to the frame that is published with
\* it, whichever attempts were given up for want of stars or failed: it is
\* the frame a client fetches by solverFrameId, and the position the session
\* recentres by (startAdaptiveSolve, startPolarAlignment, solveLast).
SolutionIsOfFrame == lastSolve.of = lastSolve.with

\* Each sample of a polar alignment pairs a solution with the position the
\* mount had while the frame was taken, unless the mount was already moving
\* by a request of its own when the operation began, which nobody asks
\* (startPolarAlignment).
SamplesFit ==
    ~task.restless => \A i \in DOMAIN task.samples : task.samples[i].mount = task.samples[i].frame.at

\* A polar alignment that has ended, however it ended, has left no slew of its
\* own running, unless a status or the abort itself failed (waitIdle in
\* startPolarAlignment, cancelOperation).
PolarEndsStill ==
    (task.step = "end" /\ slipped = {}) => scope.slewing # "task"

\* What is solved is published with its own frame and measured where the mount was, and
\* a polar alignment leaves the mount at rest (startAdaptiveSolve, startPolarAlignment).
SolvingHolds == SolutionIsOfFrame /\ SamplesFit /\ PolarEndsStill
=============================================================================
