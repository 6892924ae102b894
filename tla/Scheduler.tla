----------------------------- MODULE Scheduler ------------------------------
(***************************************************************************)
(* The node's Scheduler (src/algorithms/scheduler.cpp): the state of one   *)
(* observing session over a plan of blocks.  It does no hardware work and  *)
(* has no thread of its own: the session executor calls it on the Qt main  *)
(* thread, often several times in one handler, so each member function is  *)
(* an operator from the scheduler's state to its next state.               *)
(*                                                                         *)
(* Dates are abstracted to the set "due" of blocks whose startAtUtc is     *)
(* absent or has been reached.                                             *)
(***************************************************************************)
EXTENDS Integers, Sequences, FiniteSets

CONSTANT Plan  \* plan_.blocks, as setPlan() normalised them

ASSUME PlanAssumption ==
    /\ Plan # <<>>
    /\ Plan \in Seq([mode : {"dso", "planetary", "mosaic"},
                     frames : Nat \ {0}, tiles : Nat \ {0}, dated : BOOLEAN,
                     park : BOOLEAN, unpark : BOOLEAN,
                     recenterFirst : BOOLEAN, recenterEvery : Nat, maxAttempts : Nat,
                     recenterEachTile : BOOLEAN, focusFirst : BOOLEAN, focusEvery : Nat,
                     focusEachTile : BOOLEAN, corrections : BOOLEAN, calibrate : BOOLEAN])

Blocks == 1 .. Len(Plan)
NoOp == 0

States == {"ready", "scheduled", "running", "completed", "failed", "stopped"}

\* setPlan(): a plan is loaded, nothing is active.
Ready == [active |-> FALSE, state |-> "ready", step |-> "ready", op |-> NoOp, error |-> "",
          block |-> 1, frames |-> 0, order |-> <<>>, progress |-> [b \in Blocks |-> 0]]

\* Mutants of PrepareCurrentBlockStart: the date is not looked at; the next
\* block goes on with the step of the one before.
PrepareAtOnce(s, firstBlock, due) ==
    [s EXCEPT !.state = "running", !.step = IF firstBlock THEN "waiting-camera" ELSE "prepare-block"]
PrepareKeepsStep(s, firstBlock, due) ==
    IF s.block \in due
    THEN [s EXCEPT !.state = "running", !.step = IF firstBlock THEN "waiting-camera" ELSE @]
    ELSE [s EXCEPT !.state = "scheduled", !.step = "waiting-block-start"]

\* prepareCurrentBlockStart(): a block whose date has not come waits for it; the
\* first block of a session also has the camera to clear.
PrepareCurrentBlockStart(s, firstBlock, due) ==
    IF s.block \in due
    THEN [s EXCEPT !.state = "running",
                   !.step = IF firstBlock THEN "waiting-camera" ELSE "prepare-block"]
    ELSE [s EXCEPT !.state = "scheduled", !.step = "waiting-block-start"]

\* start(): the blocks from blockIndex on are pending, in plan order.
Start(s, blockIndex, due) ==
    PrepareCurrentBlockStart(
        [s EXCEPT !.active = TRUE, !.op = NoOp, !.error = "",
                  !.block = blockIndex, !.frames = 0,
                  !.order = [k \in 1 .. Len(Plan) - blockIndex + 1 |-> blockIndex + k - 1],
                  !.progress = [b \in Blocks |-> 0]],
        TRUE, due)

\* Mutant of BeginScheduled: the step still waits for the date.
BeginWaiting(s) == IF s.active /\ s.state = "scheduled" THEN [s EXCEPT !.state = "running"] ELSE s

\* beginScheduled(): the date of the current block has come.
BeginScheduled(s) ==
    IF s.active /\ s.state = "scheduled"
    THEN [s EXCEPT !.state = "running", !.step = "waiting-camera"]
    ELSE s

Stop(s, reason) ==
    [s EXCEPT !.active = FALSE, !.state = "stopped", !.step = "stopped", !.op = NoOp,
              !.error = IF reason = "" THEN @ ELSE reason]

Fail(s, reason) ==
    [s EXCEPT !.active = FALSE, !.state = "failed", !.step = "failed", !.op = NoOp,
              !.error = reason]

\* setStep() and clearOperation() test neither active nor the state.
SetStep(s, step, op) == [s EXCEPT !.step = step, !.op = op]
ClearOperation(s) == [s EXCEPT !.op = NoOp]

MarkFrameCompleted(s) ==
    [s EXCEPT !.frames = @ + 1, !.progress[s.block] = s.frames + 1]

\* The front of pendingOrder_ becomes the current block, with the frames it
\* already has.
TakeFront(s, due) ==
    PrepareCurrentBlockStart(
        [s EXCEPT !.block = Head(s.order), !.frames = s.progress[Head(s.order)], !.op = NoOp],
        FALSE, due)

\* advanceBlock(): the current block is done and leaves the pending order.
AdvanceBlock(s, due) ==
    LET rest == IF s.order # <<>> /\ Head(s.order) = s.block THEN Tail(s.order) ELSE s.order
        left == [s EXCEPT !.order = rest, !.progress[s.block] = 0]
    IN  IF rest # <<>>
        THEN TakeFront(left, due)
        ELSE [left EXCEPT !.active = FALSE, !.state = "completed", !.step = "completed",
                          !.op = NoOp]

\* deferCurrentBlock(), k times: the first k pending blocks go to the back.
DeferBlocks(s, k, due) ==
    TakeFront([s EXCEPT !.order = SubSeq(s.order, k + 1, Len(s.order)) \o SubSeq(s.order, 1, k)],
              due)

\* Mutant of ResumeIndexHint: the block to run next.
HintAtFront(s) == IF s.order = <<>> THEN Len(Plan) + 1 ELSE Head(s.order)

\* resumeIndexHint(): the earliest block that is still pending.
ResumeIndexHint(s) ==
    LET pending == {s.order[k] : k \in DOMAIN s.order}
    IN  IF pending = {} THEN Len(Plan) + 1
        ELSE CHOOSE b \in pending : \A c \in pending : b <= c
=============================================================================
