------------------------ MODULE SessionExecutor_proofs -------------------------
(***************************************************************************)
(* Proofs about SessionExecutor, for every plan, every sky, every setting  *)
(* of its switches and every bound.                                        *)
(*                                                                         *)
(* No invariant of a session is inductive alone, and their conjunction is  *)
(* not either.  IInv adds what the handlers rely on:                       *)
(*   Course  the frames of a block are fewer than it asks for until it is  *)
(*           left, the current block is the front of the pending order,    *)
(*           every block that is not done is pending, and while nothing    *)
(*           was ever hidden the order is the plan's from the cursor on;   *)
(*   Work    the session's operation is alive or its update is on its way, *)
(*           it is of the session's step and for its target, any other     *)
(*           operation of a session was asked to end, and no more ids are  *)
(*           in use than there are;                                        *)
(*   Aim     the mount rests on the block's target, moved by nothing but   *)
(*           the session, at every step that works there.                  *)
(* ShotsKept, proved on top of it, counts the frames taken of each tile:   *)
(* those counted, and one more while the update of its operation is on     *)
(* its way.                                                                *)
(***************************************************************************)
EXTENDS SessionQueue_proofs

SchedRecord == [active : BOOLEAN, state : States, step : Steps, op : OpIds \cup {NoOp},
                error : Reasons, block : Blocks, frames : Nat, order : Seq(Blocks),
                progress : [Blocks -> Nat]]

-----------------------------------------------------------------------------
(* The plan and its targets.                                               *)

\* The plan has a first block, and each block the fields setPlan() gave it.
LEMMA PlanIs ==
    /\ Len(Plan) \in Nat /\ Len(Plan) >= 1 /\ 1 \in Blocks
    /\ Blocks \subseteq Nat
    /\ \A b \in Blocks :
          /\ Plan[b].mode \in {"dso", "planetary", "mosaic"}
          /\ Plan[b].frames \in Nat /\ Plan[b].frames > 0
          /\ Plan[b].tiles \in Nat /\ Plan[b].tiles > 0
          /\ Plan[b].maxAttempts \in Nat
<1> DEFINE R == [mode : {"dso", "planetary", "mosaic"},
                 frames : Nat \ {0}, tiles : Nat \ {0}, dated : BOOLEAN,
                 park : BOOLEAN, unpark : BOOLEAN,
                 recenterFirst : BOOLEAN, recenterEvery : Nat, maxAttempts : Nat,
                 recenterEachTile : BOOLEAN, focusFirst : BOOLEAN, focusEvery : Nat,
                 focusEachTile : BOOLEAN, corrections : BOOLEAN, calibrate : BOOLEAN]
<1>1. Plan \in Seq(R) /\ Plan # <<>>
  BY PlanAssumption
<1> HIDE DEF R
<1>2. Len(Plan) \in Nat /\ Len(Plan) >= 1 /\ \A b \in 1 .. Len(Plan) : Plan[b] \in R
  BY <1>1
<1>3. \A b \in Blocks : Plan[b] \in R
  BY <1>2 DEF Blocks
<1> QED  BY <1>2, <1>3 DEF R, Blocks

\* A block has at least one tile and asks for at least one frame of each.
LEMMA TilesAre ==
    ASSUME NEW b \in Blocks
    PROVE  /\ Cardinality(Tiles(b)) \in Nat /\ Cardinality(Tiles(b)) > 0
           /\ Tiles(b) = 1 .. Cardinality(Tiles(b))
           /\ Plan[b].mode # "mosaic" => Tiles(b) = {1}
           /\ FrameTarget(b) \in Nat /\ FrameTarget(b) > 0
<1> DEFINE t == Plan[b].tiles
           f == Plan[b].frames
<1>1. t \in Nat /\ t > 0 /\ f \in Nat /\ f > 0
  BY PlanIs
<1>2. Cardinality(1 .. t) = t
  <2> HIDE DEF t
  <2>1. 1 \in Int /\ t \in Int /\ ~(1 > t)
    BY <1>1
  <2>2. Cardinality(1 .. t) = t - 1 + 1
    BY <2>1, FS_Interval
  <2> QED  BY <1>1, <2>2
<1>3. Cardinality({1}) = 1 /\ {1} = 1 .. 1
  BY FS_Singleton
<1>4. \E c \in Nat : c > 0 /\ Cardinality(Tiles(b)) = c /\ Tiles(b) = 1 .. c
  <2>1. CASE Plan[b].mode = "mosaic"
    <3>1. Tiles(b) = 1 .. t
      BY <2>1 DEF Tiles
    <3> HIDE DEF t
    <3> QED  BY <1>1, <1>2, <3>1
  <2>2. CASE Plan[b].mode # "mosaic"
    <3>1. Tiles(b) = {1}
      BY <2>2 DEF Tiles
    <3> QED  BY <1>3, <3>1
  <2> QED  BY <2>1, <2>2
<1>5. PICK c \in Nat : c > 0 /\ Cardinality(Tiles(b)) = c /\ Tiles(b) = 1 .. c
  BY <1>4
<1>6. FrameTarget(b) = f * c
  BY <1>5 DEF FrameTarget
<1>7. f * c \in Nat /\ f * c > 0
  <2> HIDE DEF f
  <2> QED  BY <1>1, <1>5
<1> QED  BY <1>5, <1>6, <1>7 DEF Tiles

\* While frames are missing, the tile to point at is one of the block's.
LEMMA TargetIs ==
    ASSUME NEW s, s.block \in Blocks, s.frames \in Nat
    PROVE  Target(s) \in Targets /\ Target(s)[1] = s.block
<1> DEFINE b == s.block
           c == Cardinality(Tiles(b))
           f == Plan[b].frames
<1>1. c \in Nat /\ c > 0 /\ Tiles(b) = 1 .. c /\ f \in Nat /\ f > 0 /\ FrameTarget(b) = f * c
  BY TilesAre, PlanIs DEF FrameTarget
<1>2. Tile(b, s.frames) \in Tiles(b)
  <2> DEFINE n == s.frames
  <2>1. n \in Nat
    OBVIOUS
  <2>2. n < f * c => n \div f + 1 \in 1 .. c
    <3> HIDE DEF n, f, c
    <3> QED  BY <1>1, <2>1
  <2>3. n >= f * c \/ n < f * c
    <3> HIDE DEF n, f, c
    <3> QED  BY <1>1, <2>1
  <2> QED  BY <1>1, <2>2, <2>3 DEF Tile
<1>3. 1 \in Tiles(b)
  BY <1>1
<1>4. \A i \in Tiles(b) : <<b, i>> \in Targets
  BY DEF Targets
<1> QED  BY <1>2, <1>3, <1>4 DEF Target, Block

-----------------------------------------------------------------------------
(* What the scheduler's operations do to its state.                        *)

\* The block, its frames and what is pending are those of p.
SameCourse(s, p) ==
    /\ s.block = p.block /\ s.frames = p.frames /\ s.order = p.order /\ s.progress = p.progress

\* The states and steps that the scheduler's operations set.
LEMMA Named ==
    /\ {"ready", "scheduled", "running", "completed", "failed", "stopped"} \subseteq States
    /\ {"ready", "waiting-block-start", "waiting-camera", "prepare-block", "completed", "failed",
        "stopped"} \subseteq Steps
    /\ "" \in Reasons /\ NoOp \in OpIds \cup {NoOp}
BY DEF States, Steps, Reasons

\* Ending a session leaves its course as it was.
LEMMA EndIs ==
    ASSUME NEW s \in SchedRecord, NEW r \in Reasons
    PROVE  /\ Fail(s, r) \in SchedRecord /\ SameCourse(Fail(s, r), s)
           /\ ~Fail(s, r).active /\ Fail(s, r).op = NoOp
           /\ Stop(s, r) \in SchedRecord /\ SameCourse(Stop(s, r), s)
           /\ ~Stop(s, r).active /\ Stop(s, r).op = NoOp
<1>1. Fail(s, r) \in SchedRecord
  BY Named DEF SchedRecord, Fail
<1>2. SameCourse(Fail(s, r), s) /\ ~Fail(s, r).active /\ Fail(s, r).op = NoOp
  BY DEF SchedRecord, Fail, SameCourse
<1>3. Stop(s, r) \in SchedRecord
  BY Named DEF SchedRecord, Stop
<1>4. SameCourse(Stop(s, r), s) /\ ~Stop(s, r).active /\ Stop(s, r).op = NoOp
  BY DEF SchedRecord, Stop, SameCourse
<1> QED  BY <1>1, <1>2, <1>3, <1>4

\* So does setting the step, with or without an operation.
LEMMA SetStepIs ==
    ASSUME NEW s \in SchedRecord, NEW p \in Steps, NEW o \in OpIds \cup {NoOp}
    PROVE  /\ SetStep(s, p, o) \in SchedRecord /\ SameCourse(SetStep(s, p, o), s)
           /\ SetStep(s, p, o).active = s.active /\ SetStep(s, p, o).state = s.state
           /\ SetStep(s, p, o).step = p /\ SetStep(s, p, o).op = o
BY DEF SchedRecord, SameCourse, SetStep

\* clearOperation() forgets the operation and nothing else.
LEMMA ClearIs ==
    ASSUME NEW s \in SchedRecord
    PROVE  /\ ClearOperation(s) \in SchedRecord /\ SameCourse(ClearOperation(s), s)
           /\ ClearOperation(s).active = s.active /\ ClearOperation(s).state = s.state
           /\ ClearOperation(s).step = s.step /\ ClearOperation(s).op = NoOp
BY Named DEF SchedRecord, SameCourse, ClearOperation

\* A block whose date came is begun in place.
LEMMA BeginScheduledIs ==
    ASSUME NEW s \in SchedRecord, s.active, s.state = "scheduled"
    PROVE  /\ BeginScheduled(s) \in SchedRecord /\ SameCourse(BeginScheduled(s), s)
           /\ BeginScheduled(s).active /\ BeginScheduled(s).state = "running"
           /\ BeginScheduled(s).step = "waiting-camera" /\ BeginScheduled(s).op = s.op
BY Named DEF SchedRecord, SameCourse, BeginScheduled

\* An executor that was never started drives nothing.
LEMMA ReadyIs == Ready \in SchedRecord /\ ~Ready.active /\ Ready.op = NoOp
<1>1. [b \in Blocks |-> 0] \in [Blocks -> Nat] /\ <<>> \in Seq(Blocks)
  OBVIOUS
<1> QED  BY PlanIs, Named, <1>1 DEF Ready, SchedRecord

\* A frame is counted for the current block only.
LEMMA MarkIs ==
    ASSUME NEW s \in SchedRecord
    PROVE  LET m == MarkFrameCompleted(s)
           IN  /\ m \in SchedRecord
               /\ m.block = s.block /\ m.frames = s.frames + 1 /\ m.order = s.order
               /\ m.progress = [s.progress EXCEPT ![s.block] = s.frames + 1]
               /\ m.active = s.active /\ m.state = s.state /\ m.step = s.step /\ m.op = s.op
<1>1. s.frames + 1 \in Nat /\ [s.progress EXCEPT ![s.block] = s.frames + 1] \in [Blocks -> Nat]
  BY DEF SchedRecord
<1>2. MarkFrameCompleted(s) \in SchedRecord
  BY <1>1 DEF SchedRecord, MarkFrameCompleted
<1> QED  BY <1>2 DEF SchedRecord, MarkFrameCompleted

\* A block begins, or waits for its date.
LEMMA PrepareIs ==
    ASSUME NEW s \in SchedRecord, NEW first \in BOOLEAN, NEW d
    PROVE  LET p == PrepareCurrentBlockStart(s, first, d)
           IN  /\ p \in SchedRecord /\ SameCourse(p, s) /\ p.active = s.active /\ p.op = s.op
               /\ s.block \in d =>
                     /\ p.state = "running"
                     /\ p.step = IF first THEN "waiting-camera" ELSE "prepare-block"
               /\ s.block \notin d => p.state = "scheduled" /\ p.step = "waiting-block-start"
<1>1. CASE s.block \in d
  <2> DEFINE p == [s EXCEPT !.state = "running",
                            !.step = IF first THEN "waiting-camera" ELSE "prepare-block"]
  <2>1. p \in SchedRecord
    BY Named DEF SchedRecord
  <2>2. p = PrepareCurrentBlockStart(s, first, d)
    BY <1>1 DEF PrepareCurrentBlockStart
  <2>3. /\ SameCourse(p, s) /\ p.active = s.active /\ p.op = s.op /\ p.state = "running"
        /\ p.step = IF first THEN "waiting-camera" ELSE "prepare-block"
    BY DEF SchedRecord, SameCourse
  <2> HIDE DEF p
  <2> QED  BY <1>1, <2>1, <2>2, <2>3
<1>2. CASE s.block \notin d
  <2> DEFINE p == [s EXCEPT !.state = "scheduled", !.step = "waiting-block-start"]
  <2>1. p \in SchedRecord
    BY Named DEF SchedRecord
  <2>2. p = PrepareCurrentBlockStart(s, first, d)
    BY <1>2 DEF PrepareCurrentBlockStart
  <2>3. /\ SameCourse(p, s) /\ p.active = s.active /\ p.op = s.op /\ p.state = "scheduled"
        /\ p.step = "waiting-block-start"
    BY DEF SchedRecord, SameCourse
  <2> HIDE DEF p
  <2> QED  BY <1>2, <2>1, <2>2, <2>3
<1> QED  BY <1>1, <1>2

\* The blocks from b on, in plan order.
From(b) == [k \in 1 .. Len(Plan) - b + 1 |-> b + k - 1]

\* A session starts at block b, with that block and those after it pending.
LEMMA StartIs ==
    ASSUME NEW s \in SchedRecord, NEW b \in Blocks, NEW d
    PROVE  LET p == Start(s, b, d)
           IN  /\ p \in SchedRecord /\ p.active /\ p.op = NoOp
               /\ p.block = b /\ p.frames = 0
               /\ p.order = From(b)
               /\ \A c \in Blocks : p.progress[c] = 0
               /\ b \in d => p.state = "running" /\ p.step = "waiting-camera"
               /\ b \notin d => p.state = "scheduled" /\ p.step = "waiting-block-start"
<1> DEFINE order == [k \in 1 .. Len(Plan) - b + 1 |-> b + k - 1]
           none == [c \in Blocks |-> 0]
           q == [s EXCEPT !.active = TRUE, !.op = NoOp, !.error = "",
                          !.block = b, !.frames = 0, !.order = order,
                          !.progress = none]
           p == PrepareCurrentBlockStart(q, TRUE, d)
<1>1. order \in Seq(Blocks)
  BY PlanIs DEF Blocks
<1>2. none \in [Blocks -> Nat]
  OBVIOUS
<1>3. Start(s, b, d) = p
  BY DEF Start
<1> HIDE DEF order, none
<1>4. q \in SchedRecord
  BY <1>1, <1>2, Named DEF SchedRecord
<1>5. /\ q.active /\ q.op = NoOp /\ q.block = b /\ q.frames = 0
      /\ q.order = order /\ q.progress = none
  BY DEF SchedRecord
<1> HIDE DEF q
<1>6. /\ p \in SchedRecord /\ SameCourse(p, q) /\ p.active = q.active /\ p.op = q.op
      /\ q.block \in d => p.state = "running" /\ p.step = "waiting-camera"
      /\ q.block \notin d => p.state = "scheduled" /\ p.step = "waiting-block-start"
  <2>1. TRUE \in BOOLEAN
    OBVIOUS
  <2> QED  BY <1>4, <2>1, PrepareIs
<1> HIDE DEF p
<1> QED  BY <1>3, <1>5, <1>6 DEF SameCourse, order, none, From

\* The front of the pending order becomes the current block.
LEMMA TakeFrontIs ==
    ASSUME NEW s \in SchedRecord, s.order # <<>>, NEW d
    PROVE  LET p == TakeFront(s, d)
           IN  /\ p \in SchedRecord /\ p.active = s.active /\ p.op = NoOp
               /\ p.block = Head(s.order) /\ p.frames = s.progress[p.block]
               /\ p.order = s.order /\ p.progress = s.progress
               /\ p.block \in d => p.state = "running" /\ p.step = "prepare-block"
               /\ p.block \notin d => p.state = "scheduled" /\ p.step = "waiting-block-start"
<1> DEFINE q == [s EXCEPT !.block = Head(s.order), !.frames = s.progress[Head(s.order)], !.op = NoOp]
<1>1. Head(s.order) \in Blocks /\ s.progress[Head(s.order)] \in Nat
  BY DEF SchedRecord
<1> DEFINE p == PrepareCurrentBlockStart(q, FALSE, d)
<1>2. q \in SchedRecord
  BY <1>1, Named DEF SchedRecord
<1>3. /\ q.active = s.active /\ q.op = NoOp /\ q.block = Head(s.order)
      /\ q.frames = s.progress[Head(s.order)] /\ q.order = s.order /\ q.progress = s.progress
  BY DEF SchedRecord
<1>4. TakeFront(s, d) = p
  BY DEF TakeFront
<1> HIDE DEF q
<1>5. /\ p \in SchedRecord /\ SameCourse(p, q) /\ p.active = q.active /\ p.op = q.op
      /\ q.block \in d => p.state = "running" /\ p.step = "prepare-block"
      /\ q.block \notin d => p.state = "scheduled" /\ p.step = "waiting-block-start"
  <2>1. FALSE \in BOOLEAN
    OBVIOUS
  <2> QED  BY <1>2, <2>1, PrepareIs, ZenonT(90)
<1> HIDE DEF p
<1> QED  BY <1>3, <1>4, <1>5 DEF SameCourse

\* The current block is done: it leaves the pending order, and the next one
\* becomes the current block unless none is left.
LEMMA AdvanceIs ==
    ASSUME NEW s \in SchedRecord, s.order # <<>>, Head(s.order) = s.block, NEW d
    PROVE  LET p == AdvanceBlock(s, d)
           IN  /\ p \in SchedRecord /\ p.op = NoOp
               /\ p.order = Tail(s.order)
               /\ p.progress = [s.progress EXCEPT ![s.block] = 0]
               /\ Tail(s.order) = <<>> => ~p.active
               /\ Tail(s.order) # <<>> =>
                     /\ p.active = s.active
                     /\ p.block = Head(p.order) /\ p.frames = p.progress[p.block]
                     /\ p.block \in d => p.state = "running" /\ p.step = "prepare-block"
                     /\ p.block \notin d => p.state = "scheduled" /\ p.step = "waiting-block-start"
<1> DEFINE rest == Tail(s.order)
           progress == [s.progress EXCEPT ![s.block] = 0]
           left == [s EXCEPT !.order = rest, !.progress = progress]
           over == [left EXCEPT !.active = FALSE, !.state = "completed", !.step = "completed",
                                !.op = NoOp]
           front == TakeFront(left, d)
<1>1. rest \in Seq(Blocks) /\ progress \in [Blocks -> Nat]
  BY DEF SchedRecord
<1>2. AdvanceBlock(s, d) = IF rest # <<>> THEN front ELSE over
  BY DEF AdvanceBlock, SchedRecord
<1>3. rest = Tail(s.order) /\ progress = [s.progress EXCEPT ![s.block] = 0]
  OBVIOUS
<1> HIDE DEF rest, progress
<1>4. left \in SchedRecord
  BY <1>1 DEF SchedRecord
<1>5. left.order = rest /\ left.progress = progress /\ left.active = s.active
  BY DEF SchedRecord
<1>6. CASE rest # <<>>
  <2> HIDE DEF left
  <2>1. /\ front \in SchedRecord /\ front.active = left.active /\ front.op = NoOp
        /\ front.block = Head(left.order) /\ front.frames = left.progress[front.block]
        /\ front.order = left.order /\ front.progress = left.progress
        /\ front.block \in d => front.state = "running" /\ front.step = "prepare-block"
        /\ front.block \notin d => front.state = "scheduled" /\ front.step = "waiting-block-start"
    BY <1>4, <1>5, <1>6, TakeFrontIs
  <2> HIDE DEF front
  <2> QED  BY <1>2, <1>3, <1>5, <1>6, <2>1
<1>7. CASE rest = <<>>
  <2> HIDE DEF left
  <2>1. over \in SchedRecord /\ over.op = NoOp /\ ~over.active
    BY <1>4, Named DEF SchedRecord
  <2>2. over.order = left.order /\ over.progress = left.progress
    BY <1>4 DEF SchedRecord
  <2> HIDE DEF over
  <2> QED  BY <1>2, <1>3, <1>5, <1>7, <2>1, <2>2
<1> QED  BY <1>6, <1>7

\* The blocks that are pending, in whatever order.
Pending(s) == {s.order[k] : k \in DOMAIN s.order}

\* Deferring keeps every block pending, and only turns the order.
LEMMA DeferIs ==
    ASSUME NEW s \in SchedRecord, NEW k \in 1 .. Len(s.order) - 1, NEW d
    PROVE  LET p == DeferBlocks(s, k, d)
           IN  /\ p \in SchedRecord /\ p.active = s.active /\ p.op = NoOp
               /\ p.order # <<>> /\ p.block = Head(p.order) /\ p.block = s.order[k + 1]
               /\ p.progress = s.progress /\ p.frames = s.progress[p.block]
               /\ Pending(p) = Pending(s)
               /\ p.block \in d => p.state = "running" /\ p.step = "prepare-block"
               /\ p.block \notin d => p.state = "scheduled" /\ p.step = "waiting-block-start"
<1> DEFINE o == s.order
           n == Len(o)
           back == SubSeq(o, k + 1, n)
           fore == SubSeq(o, 1, k)
           turn == back \o fore
           q == [s EXCEPT !.order = turn]
           p == TakeFront(q, d)
<1>1. o \in Seq(Blocks) /\ n \in Nat /\ k \in Nat /\ k >= 1 /\ k + 1 <= n /\ DOMAIN o = 1 .. n
      /\ \A i \in 1 .. n : o[i] \in Blocks
  BY DEF SchedRecord
<1> HIDE DEF o, n
<1>2. /\ back \in Seq(Blocks) /\ Len(back) = n - k
      /\ \A i \in 1 .. n - k : back[i] = o[k + i]
  <2>1. k + 1 \in Int /\ n \in Int /\ (k + 1 <= n) /\ \A i \in k + 1 .. n : o[i] \in Blocks
    BY <1>1
  <2>2. /\ back \in Seq(Blocks)
        /\ Len(back) = IF k + 1 <= n THEN n - (k + 1) + 1 ELSE 0
        /\ \A i \in 1 .. n - (k + 1) + 1 : back[i] = o[k + 1 + i - 1]
    BY <2>1, SubSeqProperties
  <2> HIDE DEF back
  <2>3. n - (k + 1) + 1 = n - k
    BY <1>1
  <2>4. \A i \in 1 .. n - k : k + 1 + i - 1 = k + i
    BY <1>1
  <2> QED  BY <2>1, <2>2, <2>3, <2>4
<1>3. /\ fore \in Seq(Blocks) /\ Len(fore) = k
      /\ \A i \in 1 .. k : fore[i] = o[i]
  <2>1. 1 \in Int /\ k \in Int /\ (1 <= k) /\ \A i \in 1 .. k : o[i] \in Blocks
    BY <1>1
  <2>2. /\ fore \in Seq(Blocks)
        /\ Len(fore) = IF 1 <= k THEN k - 1 + 1 ELSE 0
        /\ \A i \in 1 .. k - 1 + 1 : fore[i] = o[1 + i - 1]
    BY <2>1, SubSeqProperties
  <2> HIDE DEF fore
  <2> QED  BY <1>1, <2>1, <2>2
<1> HIDE DEF back, fore
<1>4. /\ turn \in Seq(Blocks) /\ Len(turn) = n /\ DOMAIN turn = 1 .. n
      /\ \A i \in 1 .. n - k : turn[i] = o[k + i]
      /\ \A i \in n - k + 1 .. n : turn[i] = o[i - (n - k)]
  <2>1. /\ turn \in Seq(Blocks)
        /\ Len(turn) = Len(back) + Len(fore)
        /\ \A i \in 1 .. Len(back) + Len(fore) :
              turn[i] = IF i <= Len(back) THEN back[i] ELSE fore[i - Len(back)]
    BY <1>2, <1>3, ConcatProperties
  <2> HIDE DEF turn
  <2>2. Len(turn) = n /\ DOMAIN turn = 1 .. n
    BY <1>1, <1>2, <1>3, <2>1
  <2>3. ASSUME NEW i \in 1 .. n - k PROVE turn[i] = o[k + i]
    <3>1. i \in 1 .. n /\ i <= n - k
      BY <1>1
    <3>2. turn[i] = back[i]
      BY <1>1, <1>2, <1>3, <2>1, <3>1
    <3> QED  BY <1>2, <3>2
  <2>4. ASSUME NEW i \in n - k + 1 .. n PROVE turn[i] = o[i - (n - k)]
    <3>1. i \in 1 .. n /\ ~(i <= n - k) /\ i - (n - k) \in 1 .. k
      BY <1>1
    <3> QED  BY <1>1, <1>2, <1>3, <2>1, <3>1, SMTT(60)
  <2> QED  BY <2>1, <2>2, <2>3, <2>4
<1> HIDE DEF turn
<1>5. turn # <<>> /\ Head(turn) = o[k + 1]
  <2>1. 1 \in 1 .. n - k /\ turn[1] = o[k + 1] /\ Len(turn) >= 1
    BY <1>1, <1>4
  <2> QED  BY <1>4, <2>1
<1>6. {turn[i] : i \in 1 .. n} = {o[i] : i \in 1 .. n}
  <2>1. ASSUME NEW i \in 1 .. n PROVE \E j \in 1 .. n : turn[i] = o[j]
    <3>1. CASE i <= n - k
      BY <1>1, <1>4, <3>1
    <3>2. CASE ~(i <= n - k)
      <4>1. i \in n - k + 1 .. n /\ i - (n - k) \in 1 .. n
        BY <1>1, <3>2
      <4> QED  BY <1>4, <4>1
    <3> QED  BY <3>1, <3>2
  <2>2. ASSUME NEW j \in 1 .. n PROVE \E i \in 1 .. n : turn[i] = o[j]
    <3>1. CASE j <= k
      <4>1. j + (n - k) \in n - k + 1 .. n /\ j + (n - k) \in 1 .. n /\ (j + (n - k)) - (n - k) = j
        BY <1>1, <3>1
      <4> QED  BY <1>4, <4>1
    <3>2. CASE ~(j <= k)
      <4>1. j - k \in 1 .. n - k /\ j - k \in 1 .. n /\ k + (j - k) = j
        BY <1>1, <3>2
      <4> QED  BY <1>4, <4>1
    <3> QED  BY <3>1, <3>2
  <2>3. {turn[i] : i \in 1 .. n} \subseteq {o[i] : i \in 1 .. n}
    BY <2>1
  <2>4. {o[i] : i \in 1 .. n} \subseteq {turn[i] : i \in 1 .. n}
    <3> SUFFICES ASSUME NEW j \in 1 .. n PROVE o[j] \in {turn[i] : i \in 1 .. n}
      OBVIOUS
    <3>1. PICK i \in 1 .. n : turn[i] = o[j]
      BY <2>2
    <3> QED  BY <3>1
  <2> QED  BY <2>3, <2>4
<1>7. q \in SchedRecord
  BY <1>4 DEF SchedRecord
<1>8. q.order = turn /\ q.progress = s.progress /\ q.active = s.active
  BY DEF SchedRecord
<1>9. p = DeferBlocks(s, k, d)
  BY DEF DeferBlocks, turn, back, fore, o, n
<1> HIDE DEF q
<1>10. /\ p \in SchedRecord /\ p.active = q.active /\ p.op = NoOp
       /\ p.block = Head(q.order) /\ p.frames = q.progress[p.block]
       /\ p.order = q.order /\ p.progress = q.progress
       /\ p.block \in d => p.state = "running" /\ p.step = "prepare-block"
       /\ p.block \notin d => p.state = "scheduled" /\ p.step = "waiting-block-start"
  BY <1>5, <1>7, <1>8, TakeFrontIs
<1> HIDE DEF p
<1>11. Pending(p) = Pending(s)
  <2>1. Pending(p) = {turn[i] : i \in 1 .. n}
    <3>1. p.order = turn
      BY <1>8, <1>10, Zenon
    <3>2. DOMAIN turn = 1 .. n
      BY <1>4
    <3> QED  BY <3>1, <3>2, Zenon DEF Pending
  <2>2. Pending(s) = {o[i] : i \in 1 .. n}
    BY <1>1 DEF Pending, o
  <2> QED  BY <1>6, <2>1, <2>2
<1>12. s.order[k + 1] = o[k + 1]
  BY DEF o
<1> QED  BY <1>5, <1>8, <1>9, <1>10, <1>11, <1>12

\* The persisted cursor: the first pending block, or one past the plan.
LEMMA HintIs ==
    ASSUME NEW s, s.order \in Seq(Blocks)
    PROVE  /\ ResumeIndexHint(s) \in 1 .. Len(Plan) + 1
           /\ s.order = <<>> => ResumeIndexHint(s) = Len(Plan) + 1
           /\ s.order # <<>> => ResumeIndexHint(s) \in Pending(s)
           /\ \A b \in Pending(s) : ResumeIndexHint(s) <= b
<1>1. Pending(s) \subseteq Blocks /\ Blocks = 1 .. Len(Plan) /\ Len(Plan) \in Nat
  BY PlanIs DEF Pending, Blocks
<1>2. s.order = <<>> <=> Pending(s) = {}
  BY DEF Pending
<1>3. ResumeIndexHint(s) = IF Pending(s) = {} THEN Len(Plan) + 1
                           ELSE CHOOSE b \in Pending(s) : \A c \in Pending(s) : b <= c
  BY DEF ResumeIndexHint, Pending
<1>4. CASE Pending(s) = {}
  BY <1>1, <1>2, <1>3, <1>4
<1>5. CASE Pending(s) # {}
  <2>1. \E b \in Pending(s) : \A c \in Pending(s) : b <= c
    <3> DEFINE T == Pending(s)
    <3>1. T \subseteq Nat /\ T # {}
      BY <1>1, <1>5
    <3> HIDE DEF T
    <3>2. \E x \in T : \A y \in T : x <= y
      BY <3>1, LeastNatural
    <3> QED  BY <3>2 DEF T
  <2>2. /\ ResumeIndexHint(s) \in Pending(s)
        /\ \A c \in Pending(s) : ResumeIndexHint(s) <= c
    BY <1>3, <1>5, <2>1
  <2> QED  BY <1>1, <1>2, <1>5, <2>2
<1> QED  BY <1>4, <1>5

-----------------------------------------------------------------------------
(* The session, its operation and the updates on their way.                *)

OpKinds == SlewKinds \cup CameraKinds

\* What ties the session s to the queue q and the posted updates ev: each
\* operation ends once, and the session's own is alive or its update is on its
\* way; every other operation of a session has been asked to end.
Link(s, q, ev) ==
    /\ Proper(q)
    /\ \A j, k \in DOMAIN ev : ev[j].id = ev[k].id => j = k
    /\ \A j \in DOMAIN q : \A k \in DOMAIN ev : q[j].id # ev[k].id
    /\ \A k \in DOMAIN q : q[k].id = s.op => q[k].kind = s.step /\ q[k].target = Target(s)
    /\ \A k \in DOMAIN q : q[k].kind # "live-view" /\ ~q[k].cancel => q[k].id = s.op
    /\ s.op # NoOp => \/ \E k \in DOMAIN q : q[k].id = s.op
                      \/ \E k \in DOMAIN ev : ev[k].id = s.op

\* An operation's id is never NoOp, and a live view is no step of a session.
LEMMA IdsAre ==
    /\ \A q \in Seq(OpRecord) : \A k \in DOMAIN q : q[k].id \in OpIds /\ q[k].id # NoOp
    /\ \A ev \in Seq(EventRecord) : \A k \in DOMAIN ev : ev[k].id \in OpIds /\ ev[k].id # NoOp
    /\ "live-view" \notin OpKinds
<1>1. \A i \in OpIds : i # NoOp
  <2> DEFINE n == MaxStarts + MaxCrashes + MaxLiveViews + 2
  <2>1. n \in Nat
    BY BoundAssumption
  <2>2. OpIds = 1 .. n
    BY DEF OpIds
  <2> HIDE DEF n
  <2> QED  BY <2>1, <2>2 DEF NoOp
<1>2. \A q \in Seq(OpRecord) : \A k \in DOMAIN q : q[k].id \in OpIds
  <2> SUFFICES ASSUME NEW q \in Seq(OpRecord), NEW k \in DOMAIN q PROVE q[k].id \in OpIds
    OBVIOUS
  <2>1. q[k] \in OpRecord
    OBVIOUS
  <2> QED  BY <2>1 DEF OpRecord
<1>3. \A ev \in Seq(EventRecord) : \A k \in DOMAIN ev : ev[k].id \in OpIds
  <2> SUFFICES ASSUME NEW ev \in Seq(EventRecord), NEW k \in DOMAIN ev PROVE ev[k].id \in OpIds
    OBVIOUS
  <2>1. ev[k] \in EventRecord
    OBVIOUS
  <2> QED  BY <2>1 DEF EventRecord
<1> QED  BY <1>1, <1>2, <1>3 DEF OpKinds, SlewKinds, CameraKinds

\* What is left when the first update is delivered.
LEMMA TailIs ==
    ASSUME NEW ev \in Seq(EventRecord), ev # <<>>
    PROVE  /\ Tail(ev) \in Seq(EventRecord) /\ Len(Tail(ev)) = Len(ev) - 1
           /\ Head(ev) \in EventRecord
           /\ 1 \in DOMAIN ev /\ ev[1] = Head(ev)
           /\ \A k \in DOMAIN Tail(ev) : k + 1 \in DOMAIN ev /\ k + 1 # 1 /\ Tail(ev)[k] = ev[k + 1]
           /\ \A k \in DOMAIN ev : k # 1 => k - 1 \in DOMAIN Tail(ev) /\ Tail(ev)[k - 1] = ev[k]
<1> DEFINE t == Tail(ev)
           n == Len(ev)
<1>1. n \in Nat /\ n > 0 /\ DOMAIN ev = 1 .. n
  OBVIOUS
<1>2. t \in Seq(EventRecord) /\ Len(t) = n - 1 /\ \A i \in 1 .. Len(t) : t[i] = ev[i + 1]
  BY HeadTailProperties
<1>3. Head(ev) \in EventRecord /\ ev[1] = Head(ev)
  OBVIOUS
<1> HIDE DEF t, n
<1>4. DOMAIN t = 1 .. n - 1
  BY <1>2
<1>5. ASSUME NEW k \in DOMAIN t PROVE k + 1 \in DOMAIN ev /\ k + 1 # 1 /\ t[k] = ev[k + 1]
  BY <1>1, <1>2, <1>4
<1>6. ASSUME NEW k \in DOMAIN ev, k # 1 PROVE k - 1 \in DOMAIN t /\ t[k - 1] = ev[k]
  BY <1>1, <1>2, <1>4, <1>6
<1> QED  BY <1>1, <1>2, <1>3, <1>5, <1>6 DEF t, n

\* A session that waits for no operation may go on to any state that does not.
LEMMA LinkIdle ==
    ASSUME NEW q \in Seq(OpRecord), NEW ev \in Seq(EventRecord),
           NEW s, Link(s, q, ev), s.op = NoOp, NEW t, t.op = NoOp
    PROVE  Link(t, q, ev)
BY IdsAre DEF Link

\* The same when it only keeps what it waits for.
LEMMA LinkSame ==
    ASSUME NEW q, NEW ev, NEW s, Link(s, q, ev),
           NEW t, t.op = s.op, t.step = s.step, Target(t) = Target(s)
    PROVE  Link(t, q, ev)
BY DEF Link

\* An update the session does not wait for is dropped.
LEMMA LinkForeign ==
    ASSUME NEW q \in Seq(OpRecord), NEW ev \in Seq(EventRecord), ev # <<>>,
           NEW s, Link(s, q, ev), s.op = NoOp \/ Head(ev).id # s.op
    PROVE  Link(s, q, Tail(ev))
<1> DEFINE r == Tail(ev)
<1>1. /\ 1 \in DOMAIN ev /\ ev[1] = Head(ev)
      /\ \A k \in DOMAIN r : k + 1 \in DOMAIN ev /\ k \in Nat /\ r[k] = ev[k + 1]
      /\ \A k \in DOMAIN ev : k # 1 => k - 1 \in DOMAIN r /\ r[k - 1] = ev[k]
  <2>1. r \in Seq(EventRecord)
    BY TailIs
  <2>2. \A k \in DOMAIN r : k \in Nat
    BY <2>1
  <2> QED  BY <2>2, TailIs
<1> HIDE DEF r
<1>2. \A j, k \in DOMAIN r : r[j].id = r[k].id => j = k
  <2> SUFFICES ASSUME NEW j \in DOMAIN r, NEW k \in DOMAIN r, r[j].id = r[k].id PROVE j = k
    OBVIOUS
  <2>1. j + 1 = k + 1
    BY <1>1 DEF Link
  <2> QED  BY <1>1, <2>1
<1>3. \A j \in DOMAIN q : \A k \in DOMAIN r : q[j].id # r[k].id
  BY <1>1 DEF Link
<1>4. s.op # NoOp => \/ \E k \in DOMAIN q : q[k].id = s.op
                     \/ \E k \in DOMAIN r : r[k].id = s.op
  BY <1>1 DEF Link
<1>5. Link(s, q, r)
  BY <1>2, <1>3, <1>4 DEF Link
<1> QED  BY <1>5 DEF r

\* The update the session waits for is delivered, and it waits no longer: no
\* operation of a session is left but those that were asked to end.
LEMMA LinkHeard ==
    ASSUME NEW q \in Seq(OpRecord), NEW ev \in Seq(EventRecord), ev # <<>>,
           NEW s, Link(s, q, ev), Head(ev).id = s.op, NEW t, t.op = NoOp
    PROVE  Link(t, q, Tail(ev))
<1>1. 1 \in DOMAIN ev /\ ev[1].id = s.op
  BY TailIs
<1>2. \A k \in DOMAIN q : q[k].id # s.op
  BY <1>1 DEF Link
<1>3. Link(t, q, ev)
  BY <1>2, IdsAre DEF Link
<1> QED  BY <1>3, LinkForeign

\* An operation ends and its update is posted.
LEMMA LinkEnded ==
    ASSUME NEW q \in Seq(OpRecord), NEW ev \in Seq(EventRecord), NEW s, Link(s, q, ev),
           NEW e \in DOMAIN q, NEW u \in EventRecord, u.id = q[e].id
    PROVE  Link(s, TryStart(Without(q, {e})), Append(ev, u))
<1> DEFINE r == TryStart(Without(q, {e}))
           w == Append(ev, u)
           n == Len(ev) + 1
<1>1. /\ Proper(r)
      /\ \A i \in DOMAIN r : \E k \in DOMAIN q : k # e /\ SameOp(r[i], q[k])
      /\ \A i \in DOMAIN r : r[i].id # q[e].id
      /\ \A k \in DOMAIN q : k # e => \E i \in DOMAIN r : SameOp(r[i], q[k])
  BY EndedIs DEF Link
<1>2. /\ n \in DOMAIN w /\ w[n] = u
      /\ \A k \in DOMAIN ev : k \in DOMAIN w /\ k # n /\ w[k] = ev[k]
      /\ \A k \in DOMAIN w : k = n \/ k \in DOMAIN ev
  OBVIOUS
<1> HIDE DEF r, w, n
<1>3. \A j, k \in DOMAIN w : w[j].id = w[k].id => j = k
  BY <1>2 DEF Link
<1>4. \A j \in DOMAIN r : \A k \in DOMAIN w : r[j].id # w[k].id
  BY <1>1, <1>2 DEF Link, SameOp
<1>5. \A k \in DOMAIN r : r[k].id = s.op => r[k].kind = s.step /\ r[k].target = Target(s)
  BY <1>1 DEF Link, SameOp
<1>6. \A k \in DOMAIN r : r[k].kind # "live-view" /\ ~r[k].cancel => r[k].id = s.op
  BY <1>1 DEF Link, SameOp
<1>7. s.op # NoOp => \/ \E k \in DOMAIN r : r[k].id = s.op
                     \/ \E k \in DOMAIN w : w[k].id = s.op
  <2> SUFFICES ASSUME s.op # NoOp, \A k \in DOMAIN w : w[k].id # s.op
               PROVE  \E k \in DOMAIN r : r[k].id = s.op
    OBVIOUS
  <2>1. PICK k \in DOMAIN q : q[k].id = s.op
    BY <1>2 DEF Link
  <2>2. k # e
    BY <1>2, <2>1
  <2> QED  BY <1>1, <2>1, <2>2 DEF SameOp
<1>8. Link(s, r, w)
  BY <1>1, <1>3, <1>4, <1>5, <1>6, <1>7 DEF Link
<1> QED  BY <1>8 DEF r, w

\* A live view ends: no session waits for one.
LEMMA LinkViewEnded ==
    ASSUME NEW q \in Seq(OpRecord), NEW ev \in Seq(EventRecord), NEW s, Link(s, q, ev),
           s.op # NoOp => s.step \in OpKinds,
           NEW e \in DOMAIN q, q[e].kind = "live-view"
    PROVE  Link(s, TryStart(Without(q, {e})), ev)
<1> DEFINE r == TryStart(Without(q, {e}))
<1>1. /\ Proper(r)
      /\ \A i \in DOMAIN r : \E k \in DOMAIN q : k # e /\ SameOp(r[i], q[k])
      /\ \A k \in DOMAIN q : k # e => \E i \in DOMAIN r : SameOp(r[i], q[k])
  BY EndedIs DEF Link
<1> HIDE DEF r
<1>2. q[e].id # s.op
  BY IdsAre DEF Link
<1>3. \A k \in DOMAIN r : /\ r[k].id = s.op => r[k].kind = s.step /\ r[k].target = Target(s)
                          /\ r[k].kind # "live-view" /\ ~r[k].cancel => r[k].id = s.op
                          /\ \A i \in DOMAIN ev : r[k].id # ev[i].id
  BY <1>1 DEF Link, SameOp
<1>4. s.op # NoOp => \/ \E k \in DOMAIN r : r[k].id = s.op
                     \/ \E k \in DOMAIN ev : ev[k].id = s.op
  <2> SUFFICES ASSUME s.op # NoOp, \A k \in DOMAIN ev : ev[k].id # s.op
               PROVE  \E k \in DOMAIN r : r[k].id = s.op
    OBVIOUS
  <2>1. PICK k \in DOMAIN q : q[k].id = s.op
    BY DEF Link
  <2> QED  BY <1>1, <1>2, <2>1 DEF SameOp
<1>5. Link(s, r, ev)
  BY <1>1, <1>3, <1>4 DEF Link
<1> QED  BY <1>5 DEF r

\* Operations are cancelled, the session's own only if it runs, or the session
\* does not wait for it any more.
LEMMA LinkCancelled ==
    ASSUME NEW q \in Seq(OpRecord), NEW ev \in Seq(EventRecord), NEW s, Link(s, q, ev),
           NEW ids, NEW t,
           \/ /\ t = s
              /\ \A k \in DOMAIN q : q[k].id = s.op => q[k].id \notin ids \/ q[k].st # "queued"
           \/ t.op = NoOp /\ (s.op = NoOp \/ s.op \in ids)
    PROVE  Link(t, Cancelled(q, ids), ev)
<1> DEFINE r == Cancelled(q, ids)
<1>1. /\ Proper(r) /\ r \in Seq(OpRecord)
      /\ \A i \in DOMAIN r : \E k \in DOMAIN q : Later(r[i], q[k])
      /\ \A i \in DOMAIN r : r[i].id \in ids => r[i].cancel
      /\ \A k \in DOMAIN q : \/ q[k].id \in ids /\ q[k].st = "queued"
                             \/ \E i \in DOMAIN r : Later(r[i], q[k])
  BY CancelledIs DEF Link, Follows
<1> HIDE DEF r
<1>2. \A j \in DOMAIN r : \A k \in DOMAIN ev : r[j].id # ev[k].id
  BY <1>1 DEF Link, Later
<1>3. ASSUME NEW k \in DOMAIN r, r[k].kind # "live-view", ~r[k].cancel
      PROVE  r[k].id = s.op /\ s.op \notin ids /\ s.op # NoOp
  <2>1. PICK j \in DOMAIN q : Later(r[k], q[j])
    BY <1>1
  <2>2. q[j].kind # "live-view" /\ ~q[j].cancel /\ q[j].id = r[k].id
    BY <1>3, <2>1 DEF Later
  <2>3. q[j].id = s.op /\ q[j].id # NoOp
    BY <2>2, IdsAre DEF Link
  <2> QED  BY <1>1, <1>3, <2>2, <2>3
<1>4. CASE t.op = NoOp /\ (s.op = NoOp \/ s.op \in ids)
  <2>1. \A k \in DOMAIN r : r[k].kind # "live-view" => r[k].cancel
    BY <1>3, <1>4
  <2>2. \A k \in DOMAIN r : r[k].id # t.op
    BY <1>1, <1>4, IdsAre
  <2>3. Link(t, r, ev)
    BY <1>1, <1>2, <1>4, <2>1, <2>2 DEF Link
  <2> QED  BY <2>3 DEF r
<1>5. CASE /\ t = s
           /\ \A k \in DOMAIN q : q[k].id = s.op => q[k].id \notin ids \/ q[k].st # "queued"
  <2>1. \A k \in DOMAIN r : r[k].id = s.op => r[k].kind = s.step /\ r[k].target = Target(s)
    BY <1>1 DEF Link, Later
  <2>2. s.op # NoOp => \/ \E k \in DOMAIN r : r[k].id = s.op
                       \/ \E k \in DOMAIN ev : ev[k].id = s.op
    <3> SUFFICES ASSUME s.op # NoOp, \A k \in DOMAIN ev : ev[k].id # s.op
                 PROVE  \E k \in DOMAIN r : r[k].id = s.op
      OBVIOUS
    <3>1. PICK k \in DOMAIN q : q[k].id = s.op
      BY DEF Link
    <3>2. PICK i \in DOMAIN r : Later(r[i], q[k])
      BY <1>1, <1>5, <3>1
    <3> QED  BY <3>1, <3>2 DEF Later
  <2>3. Link(s, r, ev)
    BY <1>1, <1>2, <1>3, <2>1, <2>2 DEF Link
  <2> QED  BY <1>5, <2>3 DEF r
<1> QED  BY <1>4, <1>5

\* A session that waits for nothing submits its next operation; FreeId may be
\* chosen while the update just delivered is still counted.
LEMMA LinkSubmitted ==
    ASSUME RoomForOne, NEW ev \in {events, Tail(events)},
           ev \in Seq(EventRecord), \A k \in DOMAIN ev : ev[k].id # FreeId,
           NEW s, Link(s, ops, ev), s.op = NoOp, Target(s) \in Targets,
           NEW kind \in OpKinds,
           NEW t, t.op = FreeId, t.step = kind, Target(t) = Target(s)
    PROVE  Link(t, Submitted(ops, kind, Target(s)), ev)
<1> DEFINE target == Target(s)
           r == Submitted(ops, kind, target)
           e == Len(ops) + 1
<1>1. ops \in Seq(OpRecord) /\ Proper(ops)
  BY DEF RoomForOne, Link
<1>2. kind \in SlewKinds \cup CameraKinds \cup {"live-view"} /\ target \in Targets \cup {NoTarget}
  BY DEF OpKinds
<1> HIDE DEF target
<1>3. /\ Proper(r)
      /\ e \in DOMAIN r /\ r[e].id = FreeId /\ r[e].kind = kind /\ r[e].target = target
      /\ \A k \in DOMAIN ops : k \in DOMAIN r /\ SameOp(r[k], ops[k])
      /\ \A k \in DOMAIN r : k = e \/ k \in DOMAIN ops
  BY ONLY RoomForOne, <1>1, <1>2, SubmittedIs, ZenonT(90)
<1> HIDE DEF r, e
<1>4. \A k \in DOMAIN ops : ops[k].id # FreeId /\ ops[k].id # NoOp
  BY <1>1, IdsAre, FreeIdIsFree
<1>5. \A k \in DOMAIN ops : ops[k].kind = "live-view" \/ ops[k].cancel
  BY <1>4 DEF Link
<1>6. \A j \in DOMAIN r : \A k \in DOMAIN ev : r[j].id # ev[k].id
  BY <1>3 DEF Link, SameOp
<1>7. \A k \in DOMAIN r : /\ r[k].id = t.op => r[k].kind = t.step /\ r[k].target = Target(t)
                          /\ r[k].kind # "live-view" /\ ~r[k].cancel => r[k].id = t.op
  BY <1>3, <1>4, <1>5 DEF SameOp, target
<1>8. \E k \in DOMAIN r : r[k].id = t.op
  BY <1>3
<1>9. Link(t, r, ev)
  BY <1>3, <1>6, <1>7, <1>8 DEF Link
<1> QED  BY <1>9 DEF r, target

\* A client's live view is nobody's step.
LEMMA LinkViewed ==
    ASSUME RoomForOne, Link(sched, ops, events)
    PROVE  Link(sched, Submitted(ops, "live-view", NoTarget), events)
<1> DEFINE r == Submitted(ops, "live-view", NoTarget)
           e == Len(ops) + 1
<1>1. ops \in Seq(OpRecord) /\ Proper(ops)
  BY DEF RoomForOne, Link
<1>2. /\ Proper(r)
      /\ e \in DOMAIN r /\ r[e].id = FreeId /\ r[e].kind = "live-view"
      /\ \A k \in DOMAIN ops : k \in DOMAIN r /\ SameOp(r[k], ops[k])
      /\ \A k \in DOMAIN r : k = e \/ k \in DOMAIN ops
  <2>1. /\ "live-view" \in SlewKinds \cup CameraKinds \cup {"live-view"}
        /\ NoTarget \in Targets \cup {NoTarget}
    OBVIOUS
  <2> QED  BY <1>1, <2>1, SubmittedIs, ZenonT(60)
<1> HIDE DEF r, e
<1>3. FreeId # sched.op /\ \A k \in DOMAIN events : events[k].id # FreeId
  BY FreeIdIsFree
<1>4. Link(sched, r, events)
  BY <1>2, <1>3 DEF Link, SameOp
<1> QED  BY <1>4 DEF r

-----------------------------------------------------------------------------
(* The inductive invariant.                                                *)

\* A process that is down runs nothing, and has used up one of its ends.
ProcessDown ==
    ~up => /\ ~sched.active /\ ops = <<>> /\ events = <<>>
           /\ ~resumeTimer /\ budget.crashes < MaxCrashes

\* An active session works on a block whose date has come, or waits for it.
SessionSteps ==
    /\ ~sched.active => sched.op = NoOp
    /\ sched.active => \/ sched.state = "running" /\ sched.block \in due
                       \/ /\ sched.state = "scheduled" /\ sched.op = NoOp
                          /\ sched.step = "waiting-block-start"
    /\ sched.op # NoOp => sched.step \in OpKinds

Linked == Link(sched, ops, events)

\* Session operations are for targets whose date has come.
Dated(q, d) ==
    \A k \in DOMAIN q : q[k].kind # "live-view" => q[k].target \in Targets /\ q[k].target[1] \in d
OpsDated == Dated(ops, due)

\* Each bound is spent on one thing that holds an id, or is about to take one.
Used == Len(ops) + Len(events) + (IF sched.active /\ sched.op = NoOp THEN 1 ELSE 0)
            + (IF resumeTimer THEN 1 ELSE 0)
Count ==
    /\ Used <= (MaxStarts - budget.starts) + (MaxCrashes - budget.crashes)
                  + (MaxLiveViews - budget.lives)
    /\ budget.starts <= MaxStarts /\ budget.crashes <= MaxCrashes
    /\ budget.lives <= MaxLiveViews /\ budget.skies <= MaxSkyChanges

\* The frames of a block that is not complete are fewer than its plan asks for;
\* the current block may be, while the mount parks after it.
Frames ==
    sched.active =>
       /\ sched.progress[sched.block] = sched.frames
       /\ \A b \in Blocks : \/ b = sched.block /\ sched.step = "park-after-block"
                            \/ sched.progress[b] < FrameTarget(b)

\* The current block is the front of the pending order, and every block that is
\* not done is pending.
Calendar ==
    sched.active => /\ sched.order # <<>> /\ Head(sched.order) = sched.block
                    /\ \A b \in Blocks : b \in done \/ b \in Pending(sched)

\* While no target was ever hidden the blocks are taken in plan order.
NeverHidden == budget.skies = MaxSkyChanges /\ visible = Targets
Straight ==
    NeverHidden => /\ done = {b \in Blocks : b < store.next}
                   /\ sched.active => sched.block = store.next /\ sched.order = From(sched.block)

\* A planetary step belongs to a planetary block.
PlanetarySteps == {"planetary-slew", "planetary-acquire-pending", "planetary-acquire",
                   "planetary-reacquire-pending", "planetary-reacquire",
                   "planetary-postcal-acquire-pending", "planetary-postcal-acquire",
                   "planetary-autofocus-pending", "planetary-autofocus",
                   "planetary-calibration-pending", "planetary-calibration",
                   "planetary-ser-pending", "planetary-ser"}
PlanetaryMode == sched.active /\ sched.step \in PlanetarySteps => Block(sched).mode = "planetary"

\* The unparked mount rests on the target of the current block, and nothing moves
\* it but the session's own operation.
MountMovers == SlewKinds \cup {"planetary-calibration"}
OnTarget ==
    /\ mount.park = "unparked" /\ mount.pointing = Target(sched)
    /\ \A k \in DOMAIN ops : ops[k].kind \in MountMovers => ops[k].id = sched.op

\* The steps that work at the target rely on it, unless their operation failed;
\* so does a slew that has succeeded.
AtTarget == (PlanetarySteps \ {"planetary-slew"})
                \cup {"solve", "solve-pending", "autofocus", "autofocus-pending",
                      "capture", "capture-pending"}
Aim ==
    sched.active =>
       /\ /\ sched.step \in AtTarget
          /\ \A k \in DOMAIN events : events[k].id = sched.op => events[k].result = "succeeded"
          => OnTarget
       /\ /\ sched.step \in SlewKinds
          /\ \E k \in DOMAIN events : events[k].id = sched.op /\ events[k].result = "succeeded"
          => OnTarget

Course == Frames /\ Calendar /\ Straight /\ NeverSkips
Work == ProcessDown /\ SessionSteps /\ Linked /\ OpsDated /\ Count
IInv == TypeOK /\ Course /\ Work /\ NoStall /\ PlanetaryMode /\ Aim

-----------------------------------------------------------------------------
(* What a step may do to the session's course.                             *)

StoreRecord == [armed : BOOLEAN, next : 1 .. Len(Plan) + 1]

\* Publishing changes the session and may disarm, no more.
LEMMA PublishIs ==
    ASSUME store \in StoreRecord, NEW s, Publish(s)
    PROVE  sched' = s /\ store' \in StoreRecord /\ store'.next = store.next
BY DEF Publish, StoreRecord, Ended

\* The course is that of p, and the calendar as it was.
Rests(p) ==
    /\ sched' \in SchedRecord /\ SameCourse(sched', p) /\ (sched'.active => p.active)
    /\ store' \in StoreRecord /\ store'.next = store.next /\ done' = done

Keeps ==
    /\ Rests(sched)
    /\ sched.step = "park-after-block" /\ sched'.active => sched'.step = "park-after-block"

\* A frame was taken; a block with all its frames parks, if it goes on.
Counts ==
    LET m == MarkFrameCompleted(Cleared)
    IN  /\ Rests(m) /\ sched.active /\ sched.step # "park-after-block"
        /\ m.frames >= FrameTarget(m.block) /\ sched'.active => sched'.step = "park-after-block"

\* The current block is complete.
Advances ==
    \E s \in SchedRecord :
       /\ sched.active /\ s.active /\ s.block = sched.block /\ s.order = sched.order
       /\ \A b \in Blocks : b # sched.block => s.progress[b] = sched.progress[b]
       /\ sched' = AdvanceBlock(s, due)
       /\ store' \in StoreRecord /\ store'.next = ResumeIndexHint(sched')
       /\ done' = done \cup {sched.block}

\* A block is deferred because its target is hidden.
Turns ==
    /\ sched.active /\ sched.step # "park-after-block" /\ Target(sched) \notin visible
    /\ \E k \in 1 .. Len(sched.order) - 1 : sched' = DeferBlocks(sched, k, due)
    /\ store' \in StoreRecord /\ store'.next = store.next /\ done' = done

Begins == ~sched.active /\ BeginSession

Forgets == sched' = Ready /\ store' = store /\ done' = done

\* The session's state is a scheduler's, and so is the one with its operation
\* cleared.
LEMMA TypesUsed ==
    ASSUME TypeOK
    PROVE  /\ sched \in SchedRecord /\ store \in StoreRecord
           /\ ops \in Seq(OpRecord) /\ events \in Seq(EventRecord)
           /\ Cleared \in SchedRecord /\ SameCourse(Cleared, sched) /\ Cleared.active = sched.active
           /\ Cleared.state = sched.state /\ Cleared.step = sched.step /\ Cleared.op = NoOp
<1>1. /\ sched \in SchedRecord /\ store \in StoreRecord
      /\ ops \in Seq(OpRecord) /\ events \in Seq(EventRecord)
  BY DEF TypeOK, SchedRecord, StoreRecord, OpRecord, EventRecord
<1> QED  BY <1>1, ClearIs DEF Cleared

\* A session that fails keeps its course.
LEMMA FailRests ==
    ASSUME store \in StoreRecord, NEW p \in SchedRecord, NEW r \in Reasons, Publish(Fail(p, r)),
           done' = done
    PROVE  Rests(p) /\ ~sched'.active /\ sched'.op = NoOp
<1>1. /\ Fail(p, r) \in SchedRecord /\ SameCourse(Fail(p, r), p)
      /\ ~Fail(p, r).active /\ Fail(p, r).op = NoOp
  BY EndIs
<1>2. sched' = Fail(p, r) /\ store' \in StoreRecord /\ store'.next = store.next
  BY PublishIs
<1> QED  BY <1>1, <1>2 DEF Rests

\* So does one that takes another step.
LEMMA StepRests ==
    ASSUME store \in StoreRecord, NEW p \in SchedRecord, NEW t \in Steps, NEW o \in OpIds \cup {NoOp},
           Publish(SetStep(p, t, o)), done' = done
    PROVE  /\ Rests(p) /\ sched'.active = p.active /\ sched'.state = p.state
           /\ sched'.step = t /\ sched'.op = o
<1>1. /\ SetStep(p, t, o) \in SchedRecord /\ SameCourse(SetStep(p, t, o), p)
      /\ SetStep(p, t, o).active = p.active /\ SetStep(p, t, o).state = p.state
      /\ SetStep(p, t, o).step = t /\ SetStep(p, t, o).op = o
  BY SetStepIs
<1>2. sched' = SetStep(p, t, o) /\ store' \in StoreRecord /\ store'.next = store.next
  BY PublishIs
<1> QED  BY <1>1, <1>2 DEF Rests

\* The bounds leave an id for one more operation.
LEMMA RoomToSubmit ==
    ASSUME TypeOK, Count
    PROVE  RoomForOne
<1> DEFINE a == IF sched.active /\ sched.op = NoOp THEN 1 ELSE 0
           b == IF resumeTimer THEN 1 ELSE 0
           n == Len(ops)
           m == Len(events)
<1>1. /\ n \in Nat /\ m \in Nat /\ a \in {0, 1} /\ b \in {0, 1} /\ sched.op \in OpIds \cup {NoOp}
      /\ ops \in Seq(OpRecord) /\ events \in Seq(EventRecord)
  BY TypesUsed DEF SchedRecord
<1>2. /\ budget.starts \in Nat /\ budget.crashes \in Nat /\ budget.lives \in Nat
      /\ MaxStarts \in Nat /\ MaxCrashes \in Nat /\ MaxLiveViews \in Nat
  BY BoundAssumption DEF TypeOK
<1>3. /\ n + m + a + b <= (MaxStarts - budget.starts) + (MaxCrashes - budget.crashes)
                             + (MaxLiveViews - budget.lives)
  BY DEF Count, Used
<1> HIDE DEF a, b, n, m
<1>4. n + m + 1 < MaxStarts + MaxCrashes + MaxLiveViews + 2
  <2> DEFINE x == budget.starts
             y == budget.crashes
             z == budget.lives
  <2>1. /\ x \in Nat /\ y \in Nat /\ z \in Nat /\ a \in Nat /\ b \in Nat
        /\ n + m + a + b <= (MaxStarts - x) + (MaxCrashes - y) + (MaxLiveViews - z)
    BY <1>1, <1>2, <1>3
  <2> HIDE DEF x, y, z
  <2> QED  BY <1>1, <1>2, <2>1
<1> QED  BY <1>1, <1>4 DEF RoomForOne, n, m

\* A submission, whichever session state it is made from, sets the step to the
\* kind of the operation.
LEMMA SubmitRests ==
    ASSUME store \in StoreRecord, RoomForOne, NEW p \in SchedRecord, NEW kind \in OpKinds,
           Submit(p, kind), done' = done
    PROVE  /\ Rests(p) /\ sched'.active = p.active /\ sched'.state = p.state
           /\ sched'.step = kind /\ sched'.op = FreeId
<1>1. kind \in Steps /\ FreeId \in OpIds \cup {NoOp}
  BY FreeIdIsFree DEF OpKinds, Steps
<1>2. Publish(SetStep(p, kind, FreeId))
  BY DEF Submit
<1> QED  BY <1>1, <1>2, StepRests

\* The session stays in its block when it submits a slew, or fails when the mount
\* refuses it.
LEMMA SlewRests ==
    ASSUME store \in StoreRecord, RoomForOne, NEW p \in SchedRecord, NEW kind \in SlewKinds,
           SubmitSlew(p, kind), done' = done
    PROVE  /\ Rests(p)
           /\ \/ ~sched'.active /\ sched'.op = NoOp /\ ops' = ops /\ mount' = mount
              \/ /\ sched'.active = p.active /\ sched'.state = p.state
                 /\ sched'.step = kind /\ sched'.op = FreeId /\ Submit(p, kind)
                 /\ mount' = [mount EXCEPT !.park = "unparked"]
<1>1. {"no mount connected", "goto rejected", "unpark failed"} \subseteq Reasons /\ kind \in OpKinds
  BY DEF Reasons, OpKinds
<1>2. CASE /\ \E r \in Reasons : Publish(Fail(p, r))
           /\ UNCHANGED <<ops, mount>>
  BY <1>2, FailRests
<1>3. CASE Submit(p, kind) /\ mount' = [mount EXCEPT !.park = "unparked"]
  BY <1>1, <1>3, SubmitRests
<1> QED  BY <1>1, <1>2, <1>3 DEF SubmitSlew

\* It stays in its block when the mount is told to park or unpark, or fails when
\* the mount refuses.
LEMMA ParkRests ==
    ASSUME store \in StoreRecord, NEW p \in SchedRecord, NEW park, NEW t \in Steps,
           ParkMount(p, park, t), done' = done
    PROVE  /\ Rests(p) /\ sched'.op = NoOp
           /\ \/ ~sched'.active /\ mount' = mount
              \/ /\ sched'.active = p.active /\ sched'.state = p.state /\ sched'.step = t
                 /\ mount' = [park |-> park, pointing |-> NoTarget]
<1>1. CASE Publish(Fail(p, "park failed")) /\ UNCHANGED mount
  <2>1. "park failed" \in Reasons
    BY DEF Reasons
  <2> QED  BY <1>1, <2>1, FailRests
<1>2. CASE Publish(SetStep(p, t, NoOp)) /\ mount' = [park |-> park, pointing |-> NoTarget]
  <2>1. NoOp \in OpIds \cup {NoOp}
    OBVIOUS
  <2> QED  BY <1>2, <2>1, StepRests
<1> QED  BY <1>1, <1>2 DEF ParkMount

\* Each pending step has its operation.
LEMMA KindIs ==
    /\ \A step \in Submissions : KindOf(step) \in CameraKinds
    /\ Submissions \subseteq Steps /\ OpKinds \subseteq Steps
    /\ "park-after-block" \notin OpKinds \cup Submissions \cup SkyChecked
    /\ {"prepare-block", "waiting-camera", "waiting-observable-sky", "park-after-block",
        "unpark-before-block"} \subseteq Steps
    /\ {"solve-pending", "autofocus-pending", "capture-pending", "planetary-acquire-pending",
        "planetary-reacquire-pending", "planetary-postcal-acquire-pending",
        "planetary-autofocus-pending", "planetary-calibration-pending",
        "planetary-ser-pending"} = Submissions
<1>1. \A step \in Submissions : KindOf(step) \in CameraKinds
  BY DEF Submissions, KindOf, CameraKinds
<1>2. Submissions \subseteq Steps /\ OpKinds \subseteq Steps
  BY DEF Steps, OpKinds
<1>3. "park-after-block" \notin OpKinds \cup Submissions \cup SkyChecked
  BY DEF OpKinds, SlewKinds, CameraKinds, Submissions, SkyChecked
<1>4. {"prepare-block", "waiting-camera", "waiting-observable-sky", "park-after-block",
       "unpark-before-block"} \subseteq Steps
  BY DEF Steps
<1> QED  BY <1>1, <1>2, <1>3, <1>4 DEF Submissions

\* The session's own update finds it at a step with an operation.
LEMMA OwnEventIs ==
    ASSUME IInv, OwnEvent
    PROVE  /\ sched.active /\ sched.op # NoOp /\ sched.state = "running" /\ sched.block \in due
           /\ sched.step \in OpKinds /\ sched.step # "park-after-block"
           /\ up /\ events # <<>> /\ Head(events).id = sched.op /\ events' = Tail(events)
BY KindIs DEF IInv, Work, SessionSteps, OwnEvent

\* After an update the session goes on, or fails, or is where it was.
LEMMA ProceedKeeps ==
    ASSUME IInv, OwnEvent, NEW t \in Steps, Publish(SetStep(Cleared, t, NoOp)), done' = done
    PROVE  Keeps /\ sched'.active /\ sched'.state = sched.state /\ sched'.step = t /\ sched'.op = NoOp
<1>1. NoOp \in OpIds \cup {NoOp} /\ store \in StoreRecord
  BY TypesUsed DEF IInv
<1>2. Cleared \in SchedRecord /\ SameCourse(Cleared, sched) /\ Cleared.active = sched.active
      /\ Cleared.state = sched.state
  BY TypesUsed DEF IInv
<1>3. /\ Rests(Cleared) /\ sched'.active = Cleared.active /\ sched'.state = Cleared.state
      /\ sched'.step = t /\ sched'.op = NoOp
  BY <1>1, <1>2, StepRests
<1> QED  BY <1>2, <1>3, OwnEventIs DEF Rests, SameCourse, Keeps

\* A failed session keeps its place in the calendar.
LEMMA FailKeeps ==
    ASSUME TypeOK, NEW p \in {sched, Cleared}, NEW r \in Reasons, Publish(Fail(p, r)), done' = done
    PROVE  Keeps /\ ~sched'.active /\ sched'.op = NoOp
<1>1. /\ p \in SchedRecord /\ SameCourse(p, sched) /\ p.active = sched.active /\ store \in StoreRecord
  BY TypesUsed DEF SameCourse
<1>2. Rests(p) /\ ~sched'.active /\ sched'.op = NoOp
  BY <1>1, FailRests
<1> QED  BY <1>1, <1>2 DEF Rests, SameCourse, Keeps

\* So does one that goes on to another step of its block.
LEMMA StepKeeps ==
    ASSUME TypeOK, sched.step # "park-after-block",
           NEW t \in Steps, NEW o \in OpIds \cup {NoOp}, Publish(SetStep(sched, t, o)), done' = done
    PROVE  /\ Keeps /\ sched'.active = sched.active /\ sched'.state = sched.state
           /\ sched'.step = t /\ sched'.op = o
<1>1. sched \in SchedRecord /\ store \in StoreRecord
  BY TypesUsed
<1>2. /\ Rests(sched) /\ sched'.active = sched.active /\ sched'.state = sched.state
      /\ sched'.step = t /\ sched'.op = o
  BY <1>1, StepRests
<1> QED  BY <1>2 DEF Keeps

\* Nothing changes for the session.
LEMMA QuietKeeps ==
    ASSUME TypeOK, sched' = sched, store' \in StoreRecord, store'.next = store.next, done' = done
    PROVE  Keeps
BY TypesUsed DEF Keeps, Rests, SameCourse

\* A client begins a session at the persisted block, or changes no course.
LEMMA CourseOfClients ==
    ASSUME IInv, Clients
    PROVE  Keeps \/ Begins
<1>0. TypeOK /\ sched \in SchedRecord /\ store \in StoreRecord
  BY TypesUsed DEF IInv
<1>1. CASE StartSession
  BY <1>1 DEF StartSession, Begins
<1>2. CASE StopSession
  <2>1. "Stopped by operator" \in Reasons
    BY DEF Reasons
  <2> DEFINE p == Stop(sched, "Stopped by operator")
  <2>2. p \in SchedRecord /\ SameCourse(p, sched) /\ ~p.active
    BY <1>0, <2>1, EndIs
  <2>3. sched' = p /\ done' = done
    BY <1>2 DEF StopSession
  <2>4. store' \in StoreRecord /\ store'.next = store.next
    BY <1>0, <1>2 DEF StopSession, StoreRecord
  <2> HIDE DEF p
  <2> QED  BY <2>2, <2>3, <2>4 DEF Keeps, Rests
<1>3. CASE CancelOperation
  <2>1. "cancelled" \in Reasons /\ done' = done
    BY <1>3 DEF CancelOperation, history, Reasons
  <2>2. Publish(Fail(sched, "cancelled")) \/ Publish(sched)
    BY <1>3 DEF CancelOperation
  <2>3. CASE Publish(Fail(sched, "cancelled"))
    BY <1>0, <2>1, <2>3, FailKeeps
  <2>4. CASE Publish(sched)
    BY <1>0, <2>1, <2>4, PublishIs, QuietKeeps
  <2> QED  BY <2>2, <2>3, <2>4
<1>4. CASE StartLiveView
  BY <1>0, <1>4, QuietKeeps DEF StartLiveView, session
<1> QED  BY <1>1, <1>2, <1>3, <1>4 DEF Clients

\* A deferral turns the pending order, or waits for the sky.
LEMMA DeferTurns ==
    ASSUME IInv, DeferBlock
    PROVE  /\ sched.step # "park-after-block" /\ done' = done
           /\ Turns \/ Publish(SetStep(sched, "waiting-observable-sky", NoOp))
<1> DEFINE turned(k) == DeferBlocks(sched, k, due)
           eligible == {k \in 1 .. Len(sched.order) - 1 :
                          sched.order[k + 1] \in due /\ Target(turned(k)) \in visible}
           first == CHOOSE k \in eligible : \A j \in eligible : k <= j
<1>1. /\ sched.step \in SkyChecked /\ sched.active /\ Target(sched) \notin visible /\ done' = done
      /\ sched.step # "park-after-block"
  BY KindIs DEF DeferBlock, Stepping, history
<1>2. CASE eligible # {} /\ Publish(turned(first))
  <2>1. first \in eligible
    <3> DEFINE T == eligible
    <3>1. T \subseteq Nat /\ T # {}
      BY <1>2, SMTT(30)
    <3> HIDE DEF T, eligible
    <3>2. \E x \in T : \A y \in T : x <= y
      BY <3>1, LeastNatural
    <3>3. \E k \in eligible : \A j \in eligible : k <= j
      BY <3>2 DEF T
    <3> QED  BY <3>3
  <2> HIDE DEF turned
  <2>2. first \in 1 .. Len(sched.order) - 1 /\ sched' = turned(first)
        /\ store' \in StoreRecord /\ store'.next = store.next
    BY <1>2, <2>1, TypesUsed, PublishIs DEF IInv
  <2> QED  BY <1>1, <2>2 DEF Turns, turned
<1> QED  BY <1>1, <1>2 DEF DeferBlock

\* The step handler stays in the block, or puts a hidden one behind the others.
LEMMA CourseOfStepHandler ==
    ASSUME IInv, StepHandler
    PROVE  Keeps \/ Turns
<1>0. TypeOK /\ sched \in SchedRecord /\ store \in StoreRecord /\ NoOp \in OpIds \cup {NoOp}
      /\ RoomForOne
  BY TypesUsed, RoomToSubmit DEF IInv, Work
<1>1. CASE StepIdle
  BY <1>0, <1>1, QuietKeeps DEF StepIdle, session, history
<1>2. CASE DeferBlock
  BY <1>0, <1>2, DeferTurns, StepKeeps, KindIs
<1>3. CASE WaitCamera
  <2>1. /\ sched.step # "park-after-block" /\ done' = done
        /\ \E t \in {"waiting-camera", "prepare-block"} : Publish(SetStep(sched, t, NoOp))
    BY <1>3 DEF WaitCamera, Stepping, history
  <2> QED  BY <1>0, <2>1, StepKeeps, KindIs
<1>4. CASE WaitUnpark
  <2>1. /\ sched.step = "unpark-before-block" /\ done' = done
        /\ \/ \E t \in {"unpark-before-block", "prepare-block"} : Publish(SetStep(sched, t, NoOp))
           \/ Publish(Fail(sched, "mount status failed"))
    BY <1>4 DEF WaitUnpark, Stepping, history
  <2>2. "mount status failed" \in Reasons
    BY DEF Reasons
  <2> QED  BY <1>0, <2>1, <2>2, StepKeeps, FailKeeps, KindIs
<1>5. CASE PrepareBlock
  <2>1. sched.step # "park-after-block" /\ done' = done
    BY <1>5 DEF PrepareBlock, Stepping, history
  <2>2. CASE ParkMount(sched, "unparking", "unpark-before-block")
    BY <1>0, <2>1, <2>2, ParkRests, KindIs DEF Keeps
  <2>3. CASE \E kind \in SlewKinds : SubmitSlew(sched, kind)
    BY <1>0, <2>1, <2>3, SlewRests DEF Keeps
  <2> QED  BY <1>5, <2>2, <2>3 DEF PrepareBlock, SlewKinds
<1>6. CASE SubmitStep
  <2>1. /\ sched.step \in Submissions /\ sched.step # "park-after-block" /\ done' = done
        /\ Submit(sched, KindOf(sched.step)) \/ Publish(Fail(sched, "not started"))
    BY <1>6, KindIs DEF SubmitStep, Stepping, history
  <2>2. "not started" \in Reasons /\ KindOf(sched.step) \in OpKinds
    BY <2>1, KindIs DEF Reasons, OpKinds
  <2> DEFINE kind == KindOf(sched.step)
  <2>3. Submit(sched, kind) => Rests(sched)
    <3>1. kind \in OpKinds
      BY <2>2
    <3> HIDE DEF kind
    <3> QED  BY <1>0, <2>1, <3>1, SubmitRests
  <2> QED  BY <1>0, <2>1, <2>2, <2>3, FailKeeps DEF Keeps
<1> QED  BY <1>1, <1>2, <1>3, <1>4, <1>5, <1>6 DEF StepHandler

\* The timers stay in the block, or leave one that is complete.
LEMMA CourseOfTimers ==
    ASSUME IInv, SkyTimer \/ ParkTimer \/ DateTimer
    PROVE  Keeps \/ Advances
<1>0. TypeOK /\ sched \in SchedRecord /\ store \in StoreRecord /\ NoOp \in OpIds \cup {NoOp}
  BY TypesUsed DEF IInv
<1>1. CASE SkyTimer
  <2>1. /\ done' = done
        /\ \/ /\ sched.step = "waiting-observable-sky"
              /\ Publish(SetStep(sched, "prepare-block", NoOp))
           \/ Publish(sched)
    BY <1>1 DEF SkyTimer, history
  <2>2. CASE Publish(sched)
    BY <1>0, <2>1, <2>2, PublishIs, QuietKeeps
  <2>3. CASE /\ sched.step = "waiting-observable-sky"
             /\ Publish(SetStep(sched, "prepare-block", NoOp))
    BY <1>0, <2>1, <2>3, StepKeeps, KindIs
  <2> QED  BY <2>1, <2>2, <2>3
<1>2. CASE ParkTimer
  <2> DEFINE t == [timers EXCEPT !.park = @ - 1]
  <2>1. \/ UNCHANGED <<sched, store, done>>
        \/ Publish(Fail(sched, "mount status failed")) /\ done' = done
        \/ sched.active /\ Advance(sched, t)
    BY <1>2 DEF ParkTimer
  <2>2. CASE UNCHANGED <<sched, store, done>>
    BY <1>0, <2>2, QuietKeeps
  <2>3. CASE Publish(Fail(sched, "mount status failed")) /\ done' = done
    <3>1. "mount status failed" \in Reasons
      BY DEF Reasons
    <3> QED  BY <1>0, <2>3, <3>1, FailKeeps
  <2>4. CASE sched.active /\ Advance(sched, t)
    <3>1. /\ sched' = AdvanceBlock(sched, due) /\ done' = done \cup {sched.block}
          /\ store' = [armed |-> store.armed /\ ~Ended(sched'), next |-> ResumeIndexHint(sched')]
      BY <2>4 DEF Advance
    <3>2. sched'.order \in Seq(Blocks)
      <4>1. sched.order # <<>> /\ Head(sched.order) = sched.block
        BY <2>4 DEF IInv, Course, Calendar
      <4> QED  BY <1>0, <3>1, <4>1, AdvanceIs DEF SchedRecord
    <3>3. ResumeIndexHint(sched') \in 1 .. Len(Plan) + 1
      BY <3>2, HintIs
    <3>4. store' \in StoreRecord
      BY <1>0, <3>1, <3>3 DEF StoreRecord, Ended
    <3> QED  BY <1>0, <2>4, <3>1, <3>4 DEF Advances
  <2> QED  BY <2>1, <2>2, <2>3, <2>4
<1>3. CASE DateTimer
  <2> DEFINE p == BeginScheduled(sched)
  <2>1. /\ sched.active /\ sched.state = "scheduled" /\ Publish(p) /\ done' = done
        /\ sched.step = "waiting-block-start"
    BY <1>3 DEF DateTimer, history, IInv, Work, SessionSteps
  <2>2. p \in SchedRecord /\ SameCourse(p, sched)
    BY <1>0, <2>1, BeginScheduledIs
  <2> HIDE DEF p
  <2>3. sched' = p /\ store' \in StoreRecord /\ store'.next = store.next
    BY <1>0, <2>1, PublishIs
  <2> QED  BY <2>1, <2>2, <2>3 DEF Keeps, Rests
<1> QED  BY <1>1, <1>2, <1>3

\* The steps after an update that takes no frame.
LEMMA CourseOfEvents ==
    ASSUME IInv,
           \/ ForeignEvent \/ StepFailed \/ SlewDone \/ RecenterSlewDone \/ SolveDone
           \/ AutofocusDone \/ PlanetarySlewDone \/ PlanetaryAcquireDone
           \/ PlanetaryAutofocusDone \/ PlanetaryCalibrationDone
    PROVE  Keeps
<1>0. TypeOK /\ sched \in SchedRecord /\ store \in StoreRecord /\ NoOp \in OpIds \cup {NoOp}
      /\ RoomForOne /\ Cleared \in SchedRecord /\ SameCourse(Cleared, sched)
      /\ Cleared.active = sched.active
  BY TypesUsed, RoomToSubmit DEF IInv, Work
<1>1. CASE ForeignEvent
  BY <1>0, <1>1, QuietKeeps DEF ForeignEvent, session, history
<1>2. CASE StepFailed
  <2>1. Head(events) \in EventRecord /\ Head(events).result # "succeeded"
    BY <1>0, <1>2, TypesUsed, TailIs DEF StepFailed, OwnEvent
  <2>2. Head(events).result \in Reasons
    BY <2>1 DEF EventRecord, Reasons
  <2>3. Publish(Fail(sched, Head(events).result)) /\ done' = done
    BY <1>2 DEF StepFailed, history
  <2> QED  BY <1>0, <2>2, <2>3, FailKeeps
<1>3. CASE \E t \in Submissions : OwnEvent /\ Publish(SetStep(Cleared, t, NoOp)) /\ done' = done
  BY <1>3, ProceedKeeps, KindIs
<1>4. CASE SlewDone
  BY <1>3, <1>4, KindIs DEF SlewDone, Succeeded, AfterPointing, Proceed, history
<1>5. CASE RecenterSlewDone
  BY <1>3, <1>5, KindIs DEF RecenterSlewDone, Succeeded, Proceed, history
<1>6. CASE SolveDone
  <2>1. /\ OwnEvent /\ done' = done
        /\ \/ \E t \in Submissions : Publish(SetStep(Cleared, t, NoOp))
           \/ \E r \in Reasons : Publish(Fail(Cleared, r))
           \/ SubmitSlew(Cleared, "recenter-slew")
    BY <1>6, KindIs DEF SolveDone, Succeeded, Proceed, history, Reasons
  <2>2. CASE SubmitSlew(Cleared, "recenter-slew")
    <3>1. "recenter-slew" \in SlewKinds
      BY DEF SlewKinds
    <3>2. Rests(Cleared)
      BY <1>0, <2>1, <2>2, <3>1, SlewRests
    <3> QED  BY <1>0, <2>1, <3>2, OwnEventIs DEF Rests, SameCourse, Keeps
  <2> QED  BY <1>0, <1>3, <2>1, <2>2, FailKeeps
<1>7. CASE AutofocusDone
  BY <1>3, <1>7, KindIs DEF AutofocusDone, Succeeded, Proceed, history
<1>8. CASE PlanetarySlewDone
  BY <1>3, <1>8, KindIs DEF PlanetarySlewDone, Succeeded, Proceed, history
<1>9. CASE PlanetaryAcquireDone
  <2>1. /\ OwnEvent /\ done' = done
        /\ \/ \E t \in Submissions : Publish(SetStep(Cleared, t, NoOp))
           \/ \E r \in Reasons : Publish(Fail(Cleared, r))
    BY <1>9, KindIs DEF PlanetaryAcquireDone, Succeeded, Proceed, history, Reasons
  <2> QED  BY <1>0, <1>3, <2>1, FailKeeps
<1>10. CASE PlanetaryAutofocusDone
  BY <1>3, <1>10, KindIs DEF PlanetaryAutofocusDone, Succeeded, Proceed, history
<1>11. CASE PlanetaryCalibrationDone
  BY <1>3, <1>11, KindIs DEF PlanetaryCalibrationDone, Succeeded, Proceed, history
<1> QED  BY <1>1, <1>2, <1>4, <1>5, <1>6, <1>7, <1>8, <1>9, <1>10, <1>11

\* A frame or a SER run was taken.
Counted == MarkFrameCompleted(Cleared)

\* A frame is one more of the current block.
LEMMA CountedIs ==
    ASSUME TypeOK
    PROVE  /\ Counted \in SchedRecord
           /\ Counted.block = sched.block /\ Counted.frames = sched.frames + 1
           /\ Counted.order = sched.order
           /\ Counted.progress = [sched.progress EXCEPT ![sched.block] = sched.frames + 1]
           /\ Counted.active = sched.active /\ Counted.state = sched.state
           /\ Counted.step = sched.step /\ Counted.op = NoOp
<1>1. /\ Cleared \in SchedRecord /\ SameCourse(Cleared, sched) /\ Cleared.active = sched.active
      /\ Cleared.state = sched.state /\ Cleared.step = sched.step /\ Cleared.op = NoOp
  BY TypesUsed
<1> QED  BY <1>1, MarkIs DEF Counted, SameCourse

\* After a frame the session stays in the block, or leaves it when it is complete.
LEMMA CourseOfFrames ==
    ASSUME IInv, CaptureDone \/ PlanetarySerDone
    PROVE  Counts \/ Advances
<1> DEFINE m == Counted
           full == m.frames >= FrameTarget(m.block)
<1>0. /\ TypeOK /\ sched \in SchedRecord /\ store \in StoreRecord /\ NoOp \in OpIds \cup {NoOp}
      /\ RoomForOne
      /\ m \in SchedRecord /\ m.block = sched.block /\ m.order = sched.order
      /\ m.active = sched.active
      /\ m.progress = [sched.progress EXCEPT ![sched.block] = sched.frames + 1]
  BY TypesUsed, CountedIs, RoomToSubmit DEF IInv, Work
<1>1. OwnEvent /\ sched.active /\ sched.step # "park-after-block"
  BY OwnEventIs DEF CaptureDone, PlanetarySerDone, Succeeded
<1>2. \/ full /\ CompleteBlock(m)
      \/ ~full /\ done' = done /\ \E t \in Submissions : Publish(SetStep(m, t, NoOp))
      \/ ~full /\ done' = done /\ SubmitSlew(m, "slew")
  BY KindIs DEF CaptureDone, PlanetarySerDone, AfterPointing, Proceed, Counted
<1>3. Rests(m) /\ (full /\ sched'.active => sched'.step = "park-after-block") => Counts
  BY <1>1 DEF Counts, Counted
<1> HIDE DEF m, full
<1>4. CASE ~full /\ done' = done /\ \E t \in Submissions : Publish(SetStep(m, t, NoOp))
  BY <1>0, <1>3, <1>4, StepRests, KindIs
<1>5. CASE ~full /\ done' = done /\ SubmitSlew(m, "slew")
  <2>1. "slew" \in SlewKinds
    BY DEF SlewKinds
  <2> QED  BY <1>0, <1>3, <1>5, <2>1, SlewRests
<1>6. CASE full /\ CompleteBlock(m)
  <2>1. CASE ParkMount(m, "parking", "park-after-block") /\ done' = done
    BY <1>0, <1>3, <2>1, ParkRests, KindIs
  <2>2. CASE Advance(m, timers)
    <3>1. /\ sched' = AdvanceBlock(m, due) /\ done' = done \cup {m.block}
          /\ store' = [armed |-> store.armed /\ ~Ended(sched'), next |-> ResumeIndexHint(sched')]
      BY <2>2 DEF Advance
    <3>2. sched'.order \in Seq(Blocks)
      <4>1. m.order # <<>> /\ Head(m.order) = m.block
        BY <1>0, <1>1 DEF IInv, Course, Calendar
      <4> QED  BY <1>0, <3>1, <4>1, AdvanceIs DEF SchedRecord
    <3>3. ResumeIndexHint(sched') \in 1 .. Len(Plan) + 1
      BY <3>2, HintIs
    <3>4. store' \in StoreRecord
      BY <1>0, <3>1, <3>3 DEF StoreRecord, Ended
    <3>5. \A b \in Blocks : b # sched.block => m.progress[b] = sched.progress[b]
      BY <1>0 DEF SchedRecord
    <3> QED  BY <1>0, <1>1, <3>1, <3>4, <3>5 DEF Advances
  <2> QED  BY <1>6, <2>1, <2>2 DEF CompleteBlock
<1> QED  BY <1>2, <1>4, <1>5, <1>6

\* The pool, the life of the process and the environment.
LEMMA CourseOfOthers ==
    ASSUME IInv,
           \/ OperationEnds \/ LiveViewEnds \/ Crash \/ Shutdown \/ Restart \/ ResumeTimer
           \/ DevicesRestored \/ SkyChanges \/ DateComes \/ ParkMotionEnds
    PROVE  Keeps \/ Begins \/ Forgets
<1>0. TypeOK /\ sched \in SchedRecord /\ store \in StoreRecord
  BY TypesUsed DEF IInv
<1>1. CASE UNCHANGED <<sched, store, done>>
  BY <1>0, <1>1, QuietKeeps
<1>2. CASE \/ OperationEnds \/ LiveViewEnds \/ DevicesRestored \/ SkyChanges \/ DateComes
           \/ ParkMotionEnds
  BY <1>1, <1>2 DEF OperationEnds, LiveViewEnds, DevicesRestored, SkyChanges, DateComes,
                    ParkMotionEnds, session, history
<1>3. CASE Crash \/ Restart
  BY <1>3 DEF Crash, Restart, ProcessEnds, history, Forgets
<1>4. CASE Shutdown
  <2>1. "" \in Reasons
    BY Named
  <2> DEFINE p == Stop(sched, "")
  <2>2. p \in SchedRecord /\ SameCourse(p, sched) /\ ~p.active
    BY <1>0, <2>1, EndIs
  <2>3. done' = done /\ (Publish(p) \/ Publish(sched))
    BY <1>4 DEF Shutdown, ProcessEnds
  <2> HIDE DEF p
  <2>4. CASE Publish(p)
    <3>1. sched' = p /\ store' \in StoreRecord /\ store'.next = store.next
      BY <1>0, <2>4, PublishIs
    <3> QED  BY <2>2, <2>3, <3>1 DEF Keeps, Rests
  <2>5. CASE Publish(sched)
    BY <1>0, <2>3, <2>5, PublishIs, QuietKeeps
  <2> QED  BY <2>3, <2>4, <2>5
<1>5. CASE ResumeTimer
  BY <1>1, <1>5 DEF ResumeTimer, Begins, session
<1> QED  BY <1>2, <1>3, <1>4, <1>5

\* Every step does one of these to the course of the session.
LEMMA CourseOfStep ==
    ASSUME IInv, Next
    PROVE  Keeps \/ Counts \/ Advances \/ Turns \/ Begins \/ Forgets
BY CourseOfClients, CourseOfStepHandler, CourseOfTimers, CourseOfEvents, CourseOfFrames,
   CourseOfOthers DEF Next, EventHandler

-----------------------------------------------------------------------------
(* The course of the session is kept.                                      *)

\* What was hidden once counts as hidden for good.
LEMMA HiddenForGood ==
    ASSUME IInv, Next, NeverHidden'
    PROVE  NeverHidden
<1>1. CASE SkyChanges
  <2>1. budget.skies \in Nat /\ MaxSkyChanges \in Nat /\ budget.skies <= MaxSkyChanges
    BY BoundAssumption DEF IInv, TypeOK, Work, Count
  <2>2. budget'.skies = budget.skies - 1
    BY <1>1 DEF SkyChanges, IInv, TypeOK
  <2> QED  BY <2>1, <2>2 DEF NeverHidden
<1>2. CASE UNCHANGED visible /\ budget'.skies = budget.skies
  BY <1>2 DEF NeverHidden
<1>3. CASE Clients
  BY <1>2, <1>3 DEF Clients, StartSession, StopSession, CancelOperation, StartLiveView, sky,
                    history, IInv, TypeOK
<1>4. CASE StepHandler
  BY <1>2, <1>4 DEF StepHandler, StepIdle, DeferBlock, WaitCamera, WaitUnpark, PrepareBlock,
                    SubmitStep, sky, history
<1>5. CASE SkyTimer \/ ParkTimer \/ DateTimer \/ OperationEnds \/ LiveViewEnds
  BY <1>2, <1>5 DEF SkyTimer, ParkTimer, DateTimer, OperationEnds, LiveViewEnds, sky, history
<1>6. CASE EventHandler
  BY <1>2, <1>6 DEF EventHandler, ForeignEvent, StepFailed, SlewDone, RecenterSlewDone, SolveDone,
                    AutofocusDone, CaptureDone, PlanetarySlewDone, PlanetaryAcquireDone,
                    PlanetaryAutofocusDone, PlanetaryCalibrationDone, PlanetarySerDone, sky, history
<1>7. CASE Crash \/ Shutdown
  BY <1>2, <1>7 DEF Crash, Shutdown, ProcessEnds, sky, IInv, TypeOK
<1>8. CASE Restart \/ ResumeTimer \/ DevicesRestored \/ DateComes \/ ParkMotionEnds
  BY <1>2, <1>8 DEF Restart, ResumeTimer, DevicesRestored, DateComes, ParkMotionEnds, sky, history
<1> QED  BY <1>1, <1>3, <1>4, <1>5, <1>6, <1>7, <1>8 DEF Next

\* They are pending in that order: the first leaves the next ones.
LEMMA FromIs ==
    ASSUME NEW b \in Blocks
    PROVE  /\ From(b) \in Seq(Blocks) /\ From(b) # <<>> /\ Head(From(b)) = b
           /\ \A c \in Blocks : c >= b => \E k \in DOMAIN From(b) : From(b)[k] = c
           /\ b = Len(Plan) => Tail(From(b)) = <<>>
           /\ b # Len(Plan) => Tail(From(b)) = From(b + 1) /\ b + 1 \in Blocks
<1> DEFINE n == Len(Plan) - b + 1
           f == From(b)
<1>1. n \in Nat /\ n >= 1 /\ b \in Nat /\ b >= 1 /\ b <= Len(Plan) /\ Len(Plan) \in Nat
  BY PlanIs DEF Blocks
<1>2. f \in Seq(Blocks) /\ Len(f) = n /\ DOMAIN f = 1 .. n /\ \A k \in 1 .. n : f[k] = b + k - 1
  BY <1>1 DEF From, Blocks
<1>3. f # <<>> /\ Head(f) = b
  <2>1. 1 \in 1 .. n /\ f[1] = b
    BY <1>1, <1>2
  <2> HIDE DEF f
  <2> QED  BY <1>2, <2>1
<1>4. ASSUME NEW c \in Blocks, c >= b PROVE \E k \in DOMAIN f : f[k] = c
  <2>1. c - b + 1 \in 1 .. n /\ b + (c - b + 1) - 1 = c
    BY <1>1, <1>4 DEF Blocks
  <2> QED  BY <1>2, <2>1
<1> HIDE DEF f
<1> DEFINE t == Tail(f)
           m == n - 1
<1>5. t \in Seq(Blocks) /\ Len(t) = m /\ \A k \in 1 .. m : t[k] = f[k + 1]
  BY <1>2, <1>3, HeadTailProperties
<1>6. m \in Nat /\ m = Len(Plan) - b
  BY <1>1
<1> HIDE DEF t, m
<1>7. b = Len(Plan) => t = <<>>
  BY <1>1, <1>5, <1>6
<1>8. ASSUME b # Len(Plan) PROVE t = From(b + 1) /\ b + 1 \in Blocks
  <2>1. b + 1 \in Blocks /\ Len(Plan) - (b + 1) + 1 = m
    BY <1>1, <1>6, <1>8 DEF Blocks
  <2>2. t = [k \in 1 .. m |-> t[k]]
    BY <1>5, <1>6
  <2>3. ASSUME NEW k \in 1 .. m PROVE t[k] = b + 1 + k - 1
    <3>1. k + 1 \in 1 .. n /\ b + (k + 1) - 1 = b + 1 + k - 1
      BY <1>1, <1>6
    <3> QED  BY <1>2, <1>5, <3>1
  <2> QED  BY <2>1, <2>2, <2>3 DEF From
<1> QED  BY <1>2, <1>3, <1>4, <1>7, <1>8 DEF f, t

\* Every step keeps the frames, the order of the blocks and the persisted cursor
\* consistent.
LEMMA CourseStep ==
    ASSUME IInv, Next
    PROVE  Course'
<1>0. /\ TypeOK /\ sched \in SchedRecord /\ store \in StoreRecord
      /\ Frames /\ Calendar /\ Straight /\ NeverSkips
      /\ sched.block \in Blocks /\ sched.frames \in Nat
      /\ sched.progress \in [Blocks -> Nat] /\ sched.order \in Seq(Blocks)
      /\ \A b \in Blocks : FrameTarget(b) \in Nat /\ FrameTarget(b) > 0
  BY TypesUsed, TilesAre DEF IInv, Course, SchedRecord
<1>1. Keeps \/ Counts \/ Advances \/ Turns \/ Begins \/ Forgets
  BY CourseOfStep
<1>2. NeverHidden' => NeverHidden
  BY HiddenForGood
<1>3. CASE Keeps
  <2>1. /\ sched'.block = sched.block /\ sched'.frames = sched.frames /\ sched'.order = sched.order
        /\ sched'.progress = sched.progress /\ (sched'.active => sched.active)
        /\ store'.next = store.next /\ done' = done
        /\ sched.step = "park-after-block" /\ sched'.active => sched'.step = "park-after-block"
    BY <1>3 DEF Keeps, Rests, SameCourse
  <2>2. Frames'
    BY <1>0, <2>1 DEF Frames
  <2>3. Calendar'
    BY <1>0, <2>1 DEF Calendar, Pending
  <2>4. Straight'
    BY <1>0, <1>2, <2>1 DEF Straight
  <2>5. NeverSkips'
    BY <1>0, <2>1 DEF NeverSkips
  <2> QED  BY <2>2, <2>3, <2>4, <2>5 DEF Course
<1>4. CASE Counts
  <2>1. /\ sched'.block = sched.block /\ sched'.frames = sched.frames + 1
        /\ sched'.order = sched.order
        /\ sched'.progress = [sched.progress EXCEPT ![sched.block] = sched.frames + 1]
        /\ sched.active /\ sched.step # "park-after-block"
        /\ store'.next = store.next /\ done' = done
        /\ sched'.frames >= FrameTarget(sched'.block) /\ sched'.active =>
              sched'.step = "park-after-block"
    BY <1>0, <1>4, CountedIs DEF Counts, Counted, Rests, SameCourse
  <2>2. Frames'
    <3> SUFFICES ASSUME sched'.active
                 PROVE  /\ sched'.progress[sched'.block] = sched'.frames
                        /\ \A b \in Blocks : \/ b = sched'.block /\ sched'.step = "park-after-block"
                                             \/ sched'.progress[b] < FrameTarget(b)
      BY DEF Frames
    <3>1. sched'.progress[sched'.block] = sched'.frames
      BY <1>0, <2>1
    <3>2. ASSUME NEW b \in Blocks
          PROVE  \/ b = sched'.block /\ sched'.step = "park-after-block"
                 \/ sched'.progress[b] < FrameTarget(b)
      <4>1. CASE b = sched.block
        <5>1. sched'.progress[b] = sched'.frames /\ sched'.frames \in Nat /\ FrameTarget(b) \in Nat
          BY <1>0, <2>1, <3>1, <4>1
        <5> QED  BY <2>1, <4>1, <5>1
      <4>2. CASE b # sched.block
        BY <1>0, <2>1, <4>2 DEF Frames
      <4> QED  BY <4>1, <4>2
    <3> QED  BY <3>1, <3>2
  <2>3. Calendar'
    BY <1>0, <2>1 DEF Calendar, Pending
  <2>4. Straight'
    BY <1>0, <1>2, <2>1 DEF Straight
  <2>5. NeverSkips'
    BY <1>0, <2>1 DEF NeverSkips
  <2> QED  BY <2>2, <2>3, <2>4, <2>5 DEF Course
<1>5. CASE Advances
  <2>1. PICK s \in SchedRecord :
           /\ sched.active /\ s.active /\ s.block = sched.block /\ s.order = sched.order
           /\ \A b \in Blocks : b # sched.block => s.progress[b] = sched.progress[b]
           /\ sched' = AdvanceBlock(s, due)
           /\ store' \in StoreRecord /\ store'.next = ResumeIndexHint(sched')
           /\ done' = done \cup {sched.block}
    BY <1>5 DEF Advances
  <2>2. sched.order # <<>> /\ Head(sched.order) = sched.block
        /\ \A b \in Blocks : b \in done \/ b \in Pending(sched)
    BY <1>0, <2>1 DEF Calendar
  <2>3. /\ sched' \in SchedRecord
        /\ sched'.order = Tail(sched.order)
        /\ sched'.progress = [s.progress EXCEPT ![sched.block] = 0]
        /\ Tail(sched.order) = <<>> => ~sched'.active
        /\ Tail(sched.order) # <<>> => /\ sched'.block = Head(sched'.order)
                                       /\ sched'.frames = sched'.progress[sched'.block]
                                       /\ sched'.step # "park-after-block"
    BY <2>1, <2>2, AdvanceIs, SMTT(60)
  <2>4. /\ sched'.order \in Seq(Blocks)
        /\ \A b \in Pending(sched) : b = sched.block \/ b \in Pending(sched')
    <3>1. Tail(sched.order) \in Seq(Blocks) /\ Len(Tail(sched.order)) = Len(sched.order) - 1
          /\ \A i \in 1 .. Len(Tail(sched.order)) : Tail(sched.order)[i] = sched.order[i + 1]
      BY <1>0, <2>2, HeadTailProperties
    <3>2. ASSUME NEW k \in DOMAIN sched.order
          PROVE  sched.order[k] = sched.block \/ \E i \in DOMAIN sched'.order : sched'.order[i] = sched.order[k]
      <4>1. CASE k = 1
        BY <1>0, <2>2, <4>1
      <4>2. CASE k # 1
        <5>1. k - 1 \in 1 .. Len(Tail(sched.order)) /\ (k - 1) + 1 = k
          <6>1. sched.order \in Seq(Blocks)
            BY <1>0
          <6>2. Len(Tail(sched.order)) = Len(sched.order) - 1
            BY <3>1
          <6> QED  BY <4>2, <6>1, <6>2, SMTT(60)
        <5>2. k - 1 \in DOMAIN Tail(sched.order)
          BY <3>1, <5>1
        <5> QED  BY <2>3, <3>1, <5>1, <5>2
      <4> QED  BY <4>1, <4>2
    <3> QED  BY <2>3, <3>1, <3>2 DEF Pending
  <2>5. \A b \in Blocks : b \in done' \/ b \in Pending(sched')
    BY <2>1, <2>2, <2>4
  <2>6. /\ store'.next \in 1 .. Len(Plan) + 1
        /\ sched'.order = <<>> => store'.next = Len(Plan) + 1
        /\ sched'.order # <<>> => store'.next \in Pending(sched')
        /\ \A b \in Pending(sched') : store'.next <= b
    BY <2>1, <2>4, HintIs
  <2>7. NeverSkips'
    BY <2>5, <2>6, PlanIs DEF NeverSkips, Blocks
  <2>8. Calendar'
    BY <2>3, <2>5 DEF Calendar
  <2>9. Frames'
    <3> SUFFICES ASSUME sched'.active
                 PROVE  /\ sched'.progress[sched'.block] = sched'.frames
                        /\ \A b \in Blocks : sched'.progress[b] < FrameTarget(b)
      BY DEF Frames
    <3>1. s.progress \in [Blocks -> Nat]
      BY DEF SchedRecord
    <3>2. ASSUME NEW b \in Blocks PROVE sched'.progress[b] < FrameTarget(b)
      <4>1. CASE b = sched.block
        <5>1. sched'.progress[b] = 0
          BY <1>0, <2>3, <3>1, <4>1
        <5> QED  BY <1>0, <5>1
      <4>2. CASE b # sched.block
        <5>1. sched'.progress[b] = sched.progress[b]
          BY <1>0, <2>1, <2>3, <3>1, <4>2, ZenonT(90)
        <5> QED  BY <1>0, <2>1, <4>2, <5>1 DEF Frames
      <4> QED  BY <4>1, <4>2
    <3> QED  BY <2>3, <3>2
  <2>10. Straight'
    <3> SUFFICES ASSUME NeverHidden'
                 PROVE  /\ done' = {b \in Blocks : b < store'.next}
                        /\ sched'.active => sched'.block = store'.next
                                            /\ sched'.order = From(sched'.block)
      BY DEF Straight
    <3> DEFINE c == sched.block
    <3>1. /\ done = {b \in Blocks : b < c} /\ c = store.next /\ sched.order = From(c) /\ c \in Blocks
      BY <1>0, <1>2, <2>1 DEF Straight
    <3>2. done' = {b \in Blocks : b < c} \cup {c}
      BY <2>1, <3>1
    <3> HIDE DEF c
    <3>3. done' = {b \in Blocks : b < c + 1}
      BY <3>1, <3>2, PlanIs
    <3>4. CASE c = Len(Plan)
      <4>1. Tail(sched.order) = <<>>
        BY <3>1, <3>4, FromIs
      <4> QED  BY <2>3, <2>6, <3>3, <3>4, <4>1
    <3>5. CASE c # Len(Plan)
      <4>1. sched'.order = From(c + 1) /\ c + 1 \in Blocks
        BY <2>3, <3>1, <3>5, FromIs
      <4>2. sched'.order # <<>> /\ Head(sched'.order) = c + 1
        BY <4>1, FromIs
      <4>3. sched'.block = c + 1
        BY <2>3, <4>2
      <4>4. c + 1 \in Pending(sched')
        BY <2>4, <4>2 DEF Pending
      <4>5. store'.next = c + 1
        <5>1. store'.next <= c + 1
          BY <2>6, <4>4
        <5>2. store'.next \in Pending(sched')
          BY <2>6, <4>2
        <5>3. \A b \in Pending(sched') : b >= c + 1
          <6>1. c \in Nat /\ Len(Plan) \in Nat
            BY <3>1, PlanIs
          <6>2. \A k \in DOMAIN From(c + 1) : k \in Nat /\ k >= 1 /\ From(c + 1)[k] = c + 1 + k - 1
            BY <6>1 DEF From
          <6>3. \A k \in DOMAIN From(c + 1) : From(c + 1)[k] >= c + 1
            BY <6>1, <6>2
          <6> QED  BY <4>1, <6>3 DEF Pending
        <5>4. store'.next \in Nat /\ c + 1 \in Nat /\ store'.next >= c + 1
          <6>1. store'.next >= c + 1
            BY <5>2, <5>3
          <6>2. store'.next \in Nat
            BY <2>6, PlanIs
          <6> QED  BY <4>1, <6>1, <6>2, PlanIs
        <5> QED  BY <5>1, <5>4
      <4> QED  BY <3>3, <4>1, <4>3, <4>5
    <3> QED  BY <3>4, <3>5
  <2> QED  BY <2>7, <2>8, <2>9, <2>10 DEF Course
<1>6. CASE Turns
  <2>1. PICK k \in 1 .. Len(sched.order) - 1 : sched' = DeferBlocks(sched, k, due)
    BY <1>6 DEF Turns
  <2>2. /\ sched.active /\ sched.step # "park-after-block" /\ Target(sched) \notin visible
        /\ store'.next = store.next /\ done' = done
    BY <1>6 DEF Turns
  <2>3. /\ sched'.active = sched.active
        /\ sched'.order # <<>> /\ sched'.block = Head(sched'.order)
        /\ sched'.progress = sched.progress /\ sched'.frames = sched.progress[sched'.block]
        /\ Pending(sched') = Pending(sched)
    <3> DEFINE p == DeferBlocks(sched, k, due)
    <3>1. /\ p.active = sched.active
          /\ p.order # <<>> /\ p.block = Head(p.order)
          /\ p.progress = sched.progress /\ p.frames = sched.progress[p.block]
          /\ Pending(p) = Pending(sched)
      BY <1>0, DeferIs
    <3> HIDE DEF p
    <3> QED  BY <2>1, <3>1 DEF p
  <2>4. Frames'
    BY <1>0, <2>2, <2>3 DEF Frames
  <2>5. Calendar'
    BY <1>0, <2>2, <2>3 DEF Calendar
  <2>6. Straight'
    <3>1. Target(sched) \in Targets
      BY <1>0, TargetIs
    <3> QED  BY <1>2, <2>2, <3>1 DEF Straight, NeverHidden
  <2>7. NeverSkips'
    BY <1>0, <2>2 DEF NeverSkips
  <2> QED  BY <2>4, <2>5, <2>6, <2>7 DEF Course
<1>7. CASE Begins
  <2> DEFINE wrap == store.next > Len(Plan)
             first == IF wrap THEN 1 ELSE store.next
  <2>1. /\ sched' = Start(sched, first, due) /\ store'.next = first
        /\ done' = IF wrap THEN {} ELSE done
    BY <1>7 DEF Begins, BeginSession
  <2>2. first \in Blocks /\ store.next \in 1 .. Len(Plan) + 1
    BY <1>0, PlanIs DEF StoreRecord, Blocks
  <2>3. \A b \in Blocks : b < first => b \in done'
    BY <1>0, <2>1, <2>2, PlanIs DEF NeverSkips, Blocks
  <2>4. NeverHidden' => done' = {b \in Blocks : b < first}
    BY <1>0, <1>2, <2>1, PlanIs DEF Straight, Blocks
  <2> HIDE DEF first, wrap
  <2>5. /\ sched'.block = first /\ sched'.frames = 0 /\ sched'.order = From(first)
        /\ \A c \in Blocks : sched'.progress[c] = 0
    <3> DEFINE p == Start(sched, first, due)
    <3>1. /\ p.block = first /\ p.frames = 0
          /\ p.order = From(first) /\ \A c \in Blocks : p.progress[c] = 0
      BY <1>0, <2>2, StartIs
    <3>2. sched' = p
      BY <2>1
    <3> HIDE DEF p
    <3> QED  BY <3>1, <3>2
  <2>6. Frames'
    BY <1>0, <2>2, <2>5 DEF Frames
  <2>7. Calendar'
    <3>1. \A b \in Blocks : b >= first => b \in Pending(sched')
      BY <2>2, <2>5, FromIs DEF Pending
    <3>2. \A b \in Blocks : b >= first \/ b < first
      BY <2>2, PlanIs
    <3> QED  BY <2>2, <2>3, <2>5, <3>1, <3>2, FromIs DEF Calendar
  <2>8. Straight'
    BY <2>1, <2>4, <2>5 DEF Straight
  <2>9. NeverSkips'
    BY <2>1, <2>3 DEF NeverSkips
  <2> QED  BY <2>6, <2>7, <2>8, <2>9 DEF Course
<1>8. CASE Forgets
  <2>1. ~sched'.active /\ store' = store /\ done' = done
    BY <1>8, ReadyIs DEF Forgets
  <2> QED  BY <1>0, <1>2, <2>1 DEF Course, Frames, Calendar, Straight, NeverSkips
<1> QED  BY <1>1, <1>3, <1>4, <1>5, <1>6, <1>7, <1>8

-----------------------------------------------------------------------------
(* What a step may do to the operations and their updates.                 *)

\* An active session without an operation is about to submit one.
Owes(s) == IF s.active /\ s.op = NoOp THEN 1 ELSE 0

\* The queue and the updates are still tied to the session, and at most n more
\* ids are held or about to be taken.
Served(n) ==
    /\ ops' \in Seq(OpRecord) /\ events' \in Seq(EventRecord) /\ Linked' /\ OpsDated'
    /\ Len(ops') + Len(events') + Owes(sched') <= Len(ops) + Len(events) + Owes(sched) + n

\* Operations that follow dated ones are dated.
LEMMA DatedFollows ==
    ASSUME NEW q, NEW r, Follows(r, q), NEW d, Dated(q, d), NEW e, d \subseteq e
    PROVE  Dated(r, e)
BY DEF Follows, Dated, Later

\* What the invariant says of the operations, as the next lemmas use it.
LEMMA QueueUsed ==
    ASSUME IInv
    PROVE  /\ TypeOK /\ sched \in SchedRecord /\ store \in StoreRecord
           /\ ops \in Seq(OpRecord) /\ events \in Seq(EventRecord)
           /\ Len(ops) \in Nat /\ Len(events) \in Nat /\ Owes(sched) \in {0, 1}
           /\ Link(sched, ops, events) /\ Proper(ops) /\ Dated(ops, due) /\ RoomForOne
           /\ sched.op # NoOp => sched.step \in OpKinds
           /\ Target(sched) \in Targets /\ Target(sched)[1] = sched.block
<1>1. TypeOK /\ Work
  BY DEF IInv
<1>2. /\ sched \in SchedRecord /\ store \in StoreRecord
      /\ ops \in Seq(OpRecord) /\ events \in Seq(EventRecord)
  BY <1>1, TypesUsed
<1>3. Len(ops) \in Nat /\ Len(events) \in Nat
  BY <1>2
<1>4. Link(sched, ops, events) /\ Proper(ops) /\ Dated(ops, due)
  BY <1>1 DEF Work, Linked, Link, OpsDated
<1>5. RoomForOne /\ (sched.op # NoOp => sched.step \in OpKinds)
  BY <1>1, RoomToSubmit DEF Work, SessionSteps
<1>6. sched.block \in Blocks /\ sched.frames \in Nat
  BY <1>2 DEF SchedRecord
<1>7. Target(sched) \in Targets /\ Target(sched)[1] = sched.block
  BY <1>6, TargetIs
<1>8. Owes(sched) \in {0, 1}
  BY DEF Owes
<1> QED  BY <1>1, <1>2, <1>3, <1>4, <1>5, <1>7, <1>8

\* A step that leaves the operations alone, and the session with what it waits
\* for or still without an operation.
LEMMA ServedAlone ==
    ASSUME IInv, UNCHANGED <<ops, events>>, due \subseteq due',
           \/ sched' = sched
           \/ sched.op = NoOp /\ sched'.op = NoOp /\ (sched'.active => sched.active)
    PROVE  Served(0)
<1>1. Linked'
  BY QueueUsed, LinkIdle DEF Linked
<1>2. OpsDated'
  BY QueueUsed DEF OpsDated, Dated
<1>3. Owes(sched') <= Owes(sched)
  BY DEF Owes
<1>4. Owes(sched') \in {0, 1}
  BY DEF Owes
<1> QED  BY <1>1, <1>2, <1>3, <1>4, QueueUsed DEF Served

\* The session has heard of its operation's end and submits none yet.
LEMMA ServedHeard ==
    ASSUME IInv, OwnEvent, ops' = ops, due' = due, sched'.op = NoOp
    PROVE  Served(0)
<1>1. /\ events # <<>> /\ Head(events).id = sched.op /\ sched.op # NoOp /\ events' = Tail(events)
  BY DEF OwnEvent
<1>2. Linked'
  BY <1>1, QueueUsed, LinkHeard DEF Linked
<1>3. OpsDated'
  BY QueueUsed DEF OpsDated
<1>4. Tail(events) \in Seq(EventRecord) /\ Len(Tail(events)) = Len(events) - 1
  BY <1>1, QueueUsed, TailIs
<1>5. Owes(sched) = 0 /\ Owes(sched') \in {0, 1}
  BY <1>1 DEF Owes
<1> QED  BY <1>1, <1>2, <1>3, <1>4, <1>5, QueueUsed DEF Served

\* The session submits its next operation.
LEMMA ServedSubmit ==
    ASSUME IInv, sched.op = NoOp, sched.active, sched.block \in due,
           UNCHANGED <<events, due>>, NEW kind \in OpKinds, Submit(sched, kind)
    PROVE  Served(0)
<1> DEFINE t == SetStep(sched, kind, FreeId)
<1>1. ops' = Submitted(ops, kind, Target(sched)) /\ sched' = t
  BY QueueUsed, PublishIs DEF Submit
<1>2. /\ t.op = FreeId /\ t.step = kind /\ t.op # NoOp /\ SameCourse(t, sched)
      /\ t.active = sched.active
  <2>1. kind \in Steps /\ FreeId \in OpIds \cup {NoOp} /\ FreeId # NoOp
    BY QueueUsed, FreeIdIsFree, KindIs
  <2> QED  BY <2>1, QueueUsed, SetStepIs, ZenonT(90)
<1> HIDE DEF t
<1>3. Target(t) = Target(sched)
  BY <1>2 DEF SameCourse, Target, Block
<1>4. Link(t, Submitted(ops, kind, Target(sched)), events)
  <2>1. events \in {events, Tail(events)} /\ \A k \in DOMAIN events : events[k].id # FreeId
    BY QueueUsed, FreeIdIsFree
  <2> QED  BY <1>2, <1>3, <2>1, QueueUsed, LinkSubmitted
<1>5. /\ ops' \in Seq(OpRecord) /\ Len(ops') = Len(ops) + 1
      /\ \A k \in DOMAIN ops' : \/ ops'[k].target = Target(sched)
                                \/ k \in DOMAIN ops /\ SameOp(ops'[k], ops[k])
  <2>1. /\ kind \in SlewKinds \cup CameraKinds \cup {"live-view"}
        /\ Target(sched) \in Targets \cup {NoTarget}
    BY QueueUsed DEF OpKinds
  <2> QED  BY <1>1, <2>1, QueueUsed, SubmittedIs
<1>6. OpsDated'
  BY <1>5, QueueUsed DEF OpsDated, Dated, SameOp
<1>7. Owes(sched) = 1 /\ Owes(sched') = 0
  BY <1>1, <1>2 DEF Owes
<1> QED  BY <1>1, <1>4, <1>5, <1>6, <1>7, QueueUsed DEF Served, Linked

\* It hears of the end of one and submits the next at once, for the same block.
LEMMA ServedNext ==
    ASSUME IInv, OwnEvent, due' = due,
           NEW s \in SchedRecord, s.op = NoOp, s.active, s.block = sched.block,
           NEW kind \in OpKinds, Submit(s, kind)
    PROVE  Served(0)
<1> DEFINE t == SetStep(s, kind, FreeId)
           ev == Tail(events)
<1>1. ops' = Submitted(ops, kind, Target(s)) /\ sched' = t /\ events' = ev
  BY QueueUsed, PublishIs DEF Submit, OwnEvent
<1>2. /\ t.op = FreeId /\ t.step = kind /\ t.op # NoOp /\ SameCourse(t, s)
      /\ t.active = s.active
  <2>1. kind \in Steps /\ FreeId \in OpIds \cup {NoOp} /\ FreeId # NoOp
    BY QueueUsed, FreeIdIsFree, KindIs
  <2> QED  BY <2>1, SetStepIs, ZenonT(90)
<1> HIDE DEF t
<1>3. Target(t) = Target(s) /\ Target(s) \in Targets /\ Target(s)[1] = sched.block
  BY <1>2, TargetIs DEF SameCourse, Target, Block, SchedRecord
<1>4. /\ ev \in {events, Tail(events)} /\ ev \in Seq(EventRecord) /\ Len(ev) = Len(events) - 1
      /\ \A k \in DOMAIN ev : ev[k].id # FreeId
  <2>1. events # <<>>
    BY DEF OwnEvent
  <2> QED  BY <2>1, QueueUsed, FreeIdIsFree, TailIs
<1>5. Link(s, ops, ev)
  BY QueueUsed, LinkHeard DEF OwnEvent
<1> HIDE DEF ev
<1>6. Link(t, Submitted(ops, kind, Target(s)), ev)
  BY <1>2, <1>3, <1>4, <1>5, QueueUsed, LinkSubmitted DEF ev
<1>7. /\ ops' \in Seq(OpRecord) /\ Len(ops') = Len(ops) + 1
      /\ \A k \in DOMAIN ops' : \/ ops'[k].target = Target(s)
                                \/ k \in DOMAIN ops /\ SameOp(ops'[k], ops[k])
  <2> DEFINE target == Target(s)
             r == Submitted(ops, kind, target)
             e == Len(ops) + 1
  <2>1. /\ kind \in SlewKinds \cup CameraKinds \cup {"live-view"}
        /\ target \in Targets \cup {NoTarget}
    BY <1>3 DEF OpKinds
  <2>2. ops' = r
    BY <1>1
  <2> HIDE DEF target
  <2>3. /\ r \in Seq(OpRecord) /\ Len(r) = e /\ r[e].target = target
        /\ \A k \in DOMAIN ops : k \in DOMAIN r /\ SameOp(r[k], ops[k])
        /\ \A k \in DOMAIN r : k = e \/ k \in DOMAIN ops
    BY <2>1, QueueUsed, SubmittedIs
  <2> HIDE DEF r
  <2> QED  BY <2>2, <2>3 DEF target
<1>8. OpsDated'
  BY <1>3, <1>7, QueueUsed, OwnEventIs DEF OpsDated, Dated, SameOp
<1>9. Owes(sched) = 0 /\ Owes(sched') = 0
  BY <1>1, <1>2, OwnEventIs DEF Owes
<1> QED  BY <1>1, <1>4, <1>6, <1>7, <1>8, <1>9, QueueUsed DEF Served, Linked

-----------------------------------------------------------------------------
(* What a step keeps, by the way the session goes on.                      *)

\* What drives an active session that waits for no operation.
Driven ==
    sched.active /\ sched.op = NoOp =>
        \/ sched.state = "scheduled" /\ timers.date
        \/ sched.step = "waiting-observable-sky" /\ timers.sky > 0
        \/ sched.step = "park-after-block" /\ timers.park > 0
        \/ /\ sched.step \in Submissions
                  \cup {"waiting-camera", "unpark-before-block", "prepare-block"}
           /\ timers.step > 0

\* Driven is what NoStall adds to Linked.
LEMMA DrivenIs ==
    /\ IInv => Driven
    /\ Linked' /\ Driven' => NoStall'
<1>1. IInv => Driven
  BY DEF IInv, Work, ProcessDown, NoStall, Driven
<1>2. Linked' /\ Driven' => NoStall'
  BY DEF Linked, Link, NoStall, Driven
<1> QED  BY <1>1, <1>2

Handled(n) == Served(n) /\ SessionSteps' /\ Driven' /\ PlanetaryMode' /\ Aim'

\* Steps at which the session neither waits for an operation nor relies on
\* where the mount points.
Preparing == {"waiting-block-start", "waiting-camera", "waiting-observable-sky", "prepare-block",
              "unpark-before-block", "park-after-block"}

\* Which steps wait for an operation, slew the mount or work at the target.
LEMMA KindsOfStep ==
    /\ \A p \in Preparing : p \notin OpKinds \cup PlanetarySteps \cup AtTarget
    /\ \A p \in OpKinds : p \in AtTarget \cup SlewKinds
    /\ \A p \in SlewKinds : p \notin AtTarget
    /\ \A p \in Submissions : p \notin OpKinds /\ p \notin SlewKinds /\ p \in AtTarget
    /\ \A p \in Submissions : KindOf(p) \in AtTarget /\ KindOf(p) \in OpKinds
    /\ \A p \in Submissions : KindOf(p) \in PlanetarySteps => p \in PlanetarySteps
    /\ \A p \in SkyChecked : p \in Preparing \cup Submissions
    /\ SkyChecked \subseteq Submissions \cup {"prepare-block"}
    /\ "live-view" \notin MountMovers
    /\ "waiting-block-start" \notin Submissions \cup {"waiting-camera", "unpark-before-block",
                                                      "prepare-block", "waiting-observable-sky",
                                                      "park-after-block"}
<1>1. \A p \in Preparing : p \notin OpKinds \cup PlanetarySteps \cup AtTarget
  BY DEF Preparing, OpKinds, SlewKinds, CameraKinds, PlanetarySteps, AtTarget
<1>2. \A p \in OpKinds : p \in AtTarget \cup SlewKinds
  BY DEF OpKinds, SlewKinds, CameraKinds, PlanetarySteps, AtTarget
<1>3. \A p \in SlewKinds : p \notin AtTarget
  BY DEF SlewKinds, PlanetarySteps, AtTarget
<1>4. \A p \in Submissions : p \notin OpKinds /\ p \notin SlewKinds /\ p \in AtTarget
  BY DEF Submissions, OpKinds, SlewKinds, CameraKinds, PlanetarySteps, AtTarget
<1>5. \A p \in Submissions : KindOf(p) \in AtTarget /\ KindOf(p) \in OpKinds
  BY ZenonT(90) DEF Submissions, KindOf, OpKinds, CameraKinds, PlanetarySteps, AtTarget
<1>6. \A p \in Submissions : KindOf(p) \in PlanetarySteps => p \in PlanetarySteps
  BY DEF Submissions, KindOf, PlanetarySteps
<1>7. SkyChecked \subseteq Submissions \cup {"prepare-block"}
  BY DEF SkyChecked, Submissions
<1>8. "live-view" \notin MountMovers
  BY DEF MountMovers, SlewKinds
<1>9. "waiting-block-start" \notin Submissions \cup {"waiting-camera", "unpark-before-block",
                                                     "prepare-block", "waiting-observable-sky",
                                                     "park-after-block"}
  BY DEF Submissions
<1> QED  BY <1>1, <1>2, <1>3, <1>4, <1>5, <1>6, <1>7, <1>8, <1>9 DEF Preparing

\* A session that fails is over.
LEMMA FailOver ==
    ASSUME store \in StoreRecord, NEW p \in SchedRecord, NEW r \in Reasons, Publish(Fail(p, r))
    PROVE  ~sched'.active /\ sched'.op = NoOp
BY PublishIs, EndIs

\* The session is over.
LEMMA OverHandled ==
    ASSUME NEW n \in Nat, Served(n), ~sched'.active, sched'.op = NoOp
    PROVE  Handled(n)
BY DEF Handled, SessionSteps, Driven, PlanetaryMode, Aim

\* The session prepares for its block, or waits.
LEMMA PreparingHandled ==
    ASSUME NEW n \in Nat, Served(n), sched'.op = NoOp, sched'.step \in Preparing, Driven',
           \/ sched'.state = "running" /\ sched'.block \in due'
           \/ sched'.state = "scheduled" /\ sched'.step = "waiting-block-start"
    PROVE  Handled(n)
<1>1. /\ sched'.step \notin OpKinds \cup PlanetarySteps \cup AtTarget
      /\ sched'.step \notin SlewKinds
  BY KindsOfStep DEF OpKinds
<1> QED  BY <1>1 DEF Handled, SessionSteps, PlanetaryMode, Aim

\* The session is where it was, and what it waits for as well; the mount leaves
\* the target only if the session does not rely on it.
LEMMA SameHandled ==
    ASSUME IInv, NEW n \in Nat, Served(n), sched' = sched, due \subseteq due', Driven',
           OnTarget => OnTarget',
           \A u \in EventRecord : u.id = sched.op =>
               ((\E k \in DOMAIN events : events[k] = u) <=> (\E k \in DOMAIN events' : events'[k] = u))
    PROVE  Handled(n)
<1>1. SessionSteps'
  BY DEF IInv, Work, SessionSteps
<1>2. PlanetaryMode'
  BY DEF IInv, PlanetaryMode, Block
<1>3. /\ \A k \in DOMAIN events : events[k] \in EventRecord
      /\ \A k \in DOMAIN events' : events'[k] \in EventRecord
  BY QueueUsed DEF Served
<1>4. Aim'
  BY <1>3 DEF IInv, Aim
<1> QED  BY <1>1, <1>2, <1>4 DEF Handled

\* The common case: neither the mount nor the updates change, and no operation
\* that moves the mount is new.
LEMMA StillHandled ==
    ASSUME IInv, NEW n \in Nat, Served(n), sched' = sched, due \subseteq due', Driven',
           mount' = mount, events' = events,
           \A k \in DOMAIN ops' : ops'[k].kind \in MountMovers =>
               \E j \in DOMAIN ops : ops[j].kind = ops'[k].kind /\ ops[j].id = ops'[k].id
    PROVE  Handled(n)
<1>1. OnTarget => OnTarget'
  BY DEF OnTarget, Target, Block
<1> QED  BY <1>1, SameHandled

\* No timer changes for a session that is where it was.
LEMMA DrivenStill ==
    ASSUME IInv, sched' = sched, timers' = timers
    PROVE  Driven'
BY DrivenIs DEF Driven

\* A queue that follows another one has no new operation that moves the mount.
LEMMA NoNewMover ==
    ASSUME NEW q, NEW r, Follows(r, q)
    PROVE  \A k \in DOMAIN r : r[k].kind \in MountMovers =>
               \E j \in DOMAIN q : q[j].kind = r[k].kind /\ q[j].id = r[k].id
BY DEF Follows, Later

\* The operation the session waits for has succeeded: the mount is on target,
\* and nothing moves it.
LEMMA SucceededIs ==
    ASSUME IInv, OwnEvent, Head(events).result = "succeeded"
    PROVE  /\ mount.park = "unparked" /\ mount.pointing = Target(sched)
           /\ \A k \in DOMAIN ops : ops[k].kind \notin MountMovers
<1>1. /\ sched.active /\ sched.op # NoOp /\ sched.step \in OpKinds
      /\ 1 \in DOMAIN events /\ events[1] = Head(events) /\ events[1].id = sched.op
  BY OwnEventIs, QueueUsed, TailIs
<1>2. /\ \A j, k \in DOMAIN events : events[j].id = events[k].id => j = k
      /\ \A j \in DOMAIN ops : \A k \in DOMAIN events : ops[j].id # events[k].id
  BY QueueUsed DEF Link
<1>3. \A k \in DOMAIN events : events[k].id = sched.op => events[k].result = "succeeded"
  BY <1>1, <1>2
<1>4. OnTarget
  BY <1>1, <1>3, KindsOfStep DEF IInv, Aim
<1> QED  BY <1>1, <1>2, <1>4 DEF OnTarget

\* It goes on to the next step for the same target.
LEMMA ProceedHandled ==
    ASSUME IInv, OwnEvent, Head(events).result = "succeeded",
           ops' = ops, due' = due, mount' = mount,
           sched'.op = NoOp, sched'.state = "running", sched'.block = sched.block,
           Target(sched') = Target(sched),
           sched'.step \in Submissions, timers'.step > 0,
           sched'.step \in PlanetarySteps => Block(sched).mode = "planetary"
    PROVE  Handled(0)
<1>1. Served(0)
  BY ServedHeard
<1>2. SessionSteps'
  BY OwnEventIs DEF SessionSteps
<1>3. Driven'
  BY DEF Driven
<1>4. PlanetaryMode'
  BY DEF PlanetaryMode, Block
<1>5. OnTarget'
  BY SucceededIs DEF OnTarget, Target, Block
<1>6. Aim'
  BY <1>5 DEF Aim
<1> QED  BY <1>1, <1>2, <1>3, <1>4, <1>6 DEF Handled

\* A submission starts its step; a step at the target relies on the mount.
LEMMA SubmitAims ==
    ASSUME RoomForOne, NEW s, s.active, s.state = "running", s.block \in due',
           s.step \in OpKinds, s.op = FreeId, sched' = s,
           s.step \in PlanetarySteps => Block(s).mode = "planetary",
           events' \in {events, Tail(events)}, events \in Seq(EventRecord),
           s.step \in AtTarget => OnTarget'
    PROVE  SessionSteps' /\ Driven' /\ PlanetaryMode' /\ Aim'
<1>1. FreeId # NoOp
  BY FreeIdIsFree
<1>2. SessionSteps' /\ Driven' /\ PlanetaryMode'
  BY <1>1 DEF SessionSteps, Driven, PlanetaryMode
<1>3. \A k \in DOMAIN events' : events'[k].id # FreeId
  <2>1. CASE events' = events
    BY <2>1, FreeIdIsFree
  <2>2. CASE events' = Tail(events) /\ events # <<>>
    BY <2>2, FreeIdIsFree, TailIs
  <2>3. CASE events' = Tail(events) /\ events = <<>>
    BY <2>3
  <2> QED  BY <2>1, <2>2, <2>3
<1>4. Aim'
  BY <1>3 DEF Aim
<1> QED  BY <1>2, <1>4

\* Cancelling operations, with the session waiting on or no longer.
LEMMA ServedCancel ==
    ASSUME IInv, NEW ids, ops' = Cancelled(ops, ids), events' = events, due' = due,
           \/ /\ sched' = sched
              /\ \A k \in DOMAIN ops : ops[k].id = sched.op =>
                                          ops[k].id \notin ids \/ ops[k].st # "queued"
           \/ /\ sched'.op = NoOp /\ (sched.op = NoOp \/ sched.op \in ids)
              /\ sched'.active => sched.active /\ sched.op = NoOp
    PROVE  Served(0) /\ Follows(ops', ops)
<1>1. Follows(ops', ops)
  BY QueueUsed, CancelledIs
<1>2. ops' \in Seq(OpRecord) /\ Len(ops') <= Len(ops) /\ Len(ops') \in Nat
  BY <1>1 DEF Follows
<1>3. Linked'
  BY QueueUsed, LinkCancelled DEF Linked
<1>4. OpsDated'
  BY <1>1, QueueUsed, DatedFollows DEF OpsDated
<1>5. Owes(sched') <= Owes(sched) /\ Owes(sched') \in {0, 1}
  BY DEF Owes
<1> QED  BY <1>1, <1>2, <1>3, <1>4, <1>5, QueueUsed DEF Served

\* A session begins, waiting for its date or for the camera.
LEMMA BeginHandled ==
    ASSUME IInv, ~sched.active, BeginSession, UNCHANGED <<ops, events, due>>
    PROVE  Handled(1)
<1> DEFINE first == IF store.next > Len(Plan) THEN 1 ELSE store.next
           p == Start(sched, first, due)
<1>1. first \in Blocks
  BY QueueUsed, PlanIs DEF StoreRecord, Blocks
<1>2. /\ sched' = p
      /\ timers' = IF p.state = "scheduled" THEN [timers EXCEPT !.date = TRUE]
                   ELSE [StepTimer(timers) EXCEPT !.date = FALSE]
  BY DEF BeginSession
<1> HIDE DEF first
<1>3. /\ p.active /\ p.op = NoOp /\ p.block = first
      /\ \/ p.block \in due /\ p.state = "running" /\ p.step = "waiting-camera"
         \/ p.state = "scheduled" /\ p.step = "waiting-block-start"
  BY <1>1, QueueUsed, StartIs
<1> HIDE DEF p
<1>4. Driven'
  <2>1. timers \in [step : Nat, sky : Nat, park : Nat, date : BOOLEAN]
    BY DEF IInv, TypeOK
  <2>2. CASE p.state = "scheduled"
    <3>1. timers'.date
      BY <1>2, <2>1, <2>2
    <3> QED  BY <1>2, <2>2, <3>1 DEF Driven
  <2>3. CASE p.state # "scheduled"
    <3>1. timers'.step = timers.step + 1 /\ timers.step \in Nat
      BY <1>2, <2>1, <2>3 DEF StepTimer
    <3> QED  BY <1>2, <1>3, <2>3, <3>1 DEF Driven
  <2> QED  BY <2>2, <2>3
<1>5. Served(1)
  <2>1. sched.op = NoOp
    BY DEF IInv, Work, SessionSteps
  <2>2. Linked'
    BY <1>2, <1>3, <2>1, QueueUsed, LinkIdle DEF Linked
  <2>3. OpsDated'
    BY QueueUsed DEF OpsDated
  <2>4. Owes(sched') \in {0, 1} /\ Owes(sched) = 0
    BY DEF Owes
  <2> QED  BY <2>2, <2>3, <2>4, QueueUsed DEF Served
<1> QED  BY <1>2, <1>3, <1>4, <1>5, PreparingHandled DEF Preparing

-----------------------------------------------------------------------------
(* What each step keeps.                                                   *)

\* A start takes at most one new id; a stop or a cancellation takes none.
LEMMA ClientsHandled ==
    ASSUME IInv
    PROVE  /\ StartSession \/ StartLiveView => Handled(1)
           /\ StopSession \/ CancelOperation => Handled(0)
<1>1. ASSUME StartSession PROVE Handled(1)
  <2>1. ~sched.active /\ BeginSession /\ UNCHANGED <<ops, events, due>>
    BY <1>1 DEF StartSession, sky
  <2>2. Handled(1)
    BY <2>1, BeginHandled
  <2> QED  BY <1>1, <2>2
<1>2. ASSUME StopSession PROVE Handled(0)
  <2>1. ~sched'.active /\ sched'.op = NoOp
    BY <1>2, QueueUsed, EndIs DEF StopSession, Reasons
  <2>2. Served(0)
    BY <1>2, <2>1, ServedCancel DEF StopSession, sky
  <2> QED  BY <1>2, <2>1, <2>2, OverHandled
<1>3. ASSUME CancelOperation PROVE Handled(0)
  <2>1. PICK k \in DOMAIN ops :
           /\ ~ops[k].cancel
           /\ ops' = Cancelled(ops, {ops[k].id})
           /\ Publish(IF sched.active /\ sched.op = ops[k].id /\ ops[k].st = "queued"
                      THEN Fail(sched, "cancelled") ELSE sched)
    BY <1>3 DEF CancelOperation
  <2>2. UNCHANGED <<events, due, timers, mount>>
    BY <1>3 DEF CancelOperation, sky
  <2>3. CASE sched.active /\ sched.op = ops[k].id /\ ops[k].st = "queued"
    <3>1. sched' = Fail(sched, "cancelled")
      BY <2>1, <2>3, QueueUsed, PublishIs
    <3>2. ~sched'.active /\ sched'.op = NoOp
      BY <3>1, QueueUsed, EndIs DEF Reasons
    <3>3. Served(0)
      BY <2>1, <2>2, <2>3, <3>2, ServedCancel
    <3> QED  BY <1>3, <3>2, <3>3, OverHandled
  <2>4. CASE ~(sched.active /\ sched.op = ops[k].id /\ ops[k].st = "queued")
    <3>1. sched' = sched
      BY <2>1, <2>4, QueueUsed, PublishIs
    <3>2. ops[k].id # NoOp /\ (sched.op # NoOp => sched.active)
      BY QueueUsed, IdsAre DEF IInv, Work, SessionSteps
    <3>3. \A j \in DOMAIN ops : ops[j].id = sched.op =>
                                ops[j].id \notin {ops[k].id} \/ ops[j].st # "queued"
      BY <2>4, <3>2, QueueUsed DEF Proper
    <3>4. Served(0) /\ Follows(ops', ops)
      BY <2>1, <2>2, <3>1, <3>3, ServedCancel
    <3> QED  BY <1>3, <2>2, <3>1, <3>4, NoNewMover, DrivenStill, StillHandled
  <2> QED  BY <2>3, <2>4
<1>4. ASSUME StartLiveView PROVE Handled(1)
  <2>1. /\ UNCHANGED <<sched, timers, events, mount, due>>
        /\ ops' = Submitted(ops, "live-view", NoTarget)
    BY <1>4 DEF StartLiveView, session, sky
  <2>2. /\ ops' \in Seq(OpRecord) /\ Len(ops') = Len(ops) + 1
        /\ \A k \in DOMAIN ops' : \/ ops'[k].kind = "live-view"
                                  \/ k \in DOMAIN ops /\ SameOp(ops'[k], ops[k])
    <3>1. /\ "live-view" \in SlewKinds \cup CameraKinds \cup {"live-view"}
          /\ NoTarget \in Targets \cup {NoTarget}
      OBVIOUS
    <3> DEFINE r == Submitted(ops, "live-view", NoTarget)
               e == Len(ops) + 1
    <3>2. /\ r \in Seq(OpRecord) /\ Len(r) = e /\ r[e].kind = "live-view"
          /\ \A k \in DOMAIN ops : k \in DOMAIN r /\ SameOp(r[k], ops[k])
          /\ \A k \in DOMAIN r : k = e \/ k \in DOMAIN ops
      BY <3>1, QueueUsed, SubmittedIs
    <3>3. ops' = r
      BY <2>1
    <3> HIDE DEF r
    <3> QED  BY <3>2, <3>3
  <2>3. Served(1)
    <3>1. Linked'
      BY <2>1, QueueUsed, LinkViewed DEF Linked
    <3>2. OpsDated'
      BY <2>1, <2>2, QueueUsed DEF OpsDated, Dated, SameOp
    <3> QED  BY <2>1, <2>2, <3>1, <3>2, QueueUsed DEF Served
  <2>4. \A k \in DOMAIN ops' : ops'[k].kind \in MountMovers =>
            \E j \in DOMAIN ops : ops[j].kind = ops'[k].kind /\ ops[j].id = ops'[k].id
    BY <2>2, KindsOfStep DEF SameOp
  <2>5. Driven'
    BY <2>1, DrivenStill
  <2>6. 1 \in Nat /\ due \subseteq due'
    BY <2>1
  <2>7. Handled(1)
    BY <2>1, <2>3, <2>4, <2>5, <2>6, StillHandled
  <2> QED  BY <1>4, <2>7
<1> QED  BY <1>1, <1>2, <1>3, <1>4

\* Its own timer drives the session.
LEMMA SteppingIs ==
    ASSUME IInv, NEW step, Stepping(step)
    PROVE  /\ sched.active /\ sched.state = "running" /\ sched.step = step /\ sched.block \in due
           /\ timers.step \in Nat /\ timers.step > 0
           /\ step \notin OpKinds => sched.op = NoOp
BY DEF IInv, TypeOK, Work, SessionSteps, Stepping

\* Every branch of the step handler leaves the session driven and its camera steps
\* on target.
LEMMA StepHandlerHandled ==
    ASSUME IInv, StepHandler
    PROVE  Handled(0)
<1>0. /\ TypeOK /\ sched \in SchedRecord /\ store \in StoreRecord /\ RoomForOne
      /\ timers \in [step : Nat, sky : Nat, park : Nat, date : BOOLEAN] /\ 0 \in Nat
      /\ NoOp \in OpIds \cup {NoOp}
  BY QueueUsed DEF IInv, TypeOK
<1>1. CASE StepIdle
  <2>1. /\ UNCHANGED <<sched, ops, events, mount, due>> /\ timers' = Fired
        /\ \/ ~sched.active
           \/ sched.state = "scheduled"
           \/ sched.step \notin Submissions \cup {"waiting-camera", "unpark-before-block",
                                                 "prepare-block"}
    BY <1>1 DEF StepIdle, session, sky
  <2>2. timers'.sky = timers.sky /\ timers'.park = timers.park /\ timers'.date = timers.date
    BY <1>0, <2>1 DEF Fired
  <2>3. sched.active /\ sched.state = "scheduled" => sched.step = "waiting-block-start"
    BY DEF IInv, Work, SessionSteps
  <2>4. Driven'
    BY <2>1, <2>2, <2>3, DrivenIs, KindsOfStep DEF Driven
  <2>5. Served(0)
    BY <2>1, ServedAlone
  <2> QED  BY <1>0, <2>1, <2>4, <2>5, StillHandled
<1>2. CASE DeferBlock
  <2>1. /\ sched.active /\ sched.state = "running" /\ sched.op = NoOp /\ sched.block \in due
        /\ timers.step \in Nat /\ timers.step > 0 /\ UNCHANGED <<ops, events, due, mount>>
    BY <1>2, SteppingIs, KindsOfStep DEF DeferBlock, sky
  <2> DEFINE turned(k) == DeferBlocks(sched, k, due)
             eligible == {k \in 1 .. Len(sched.order) - 1 :
                            sched.order[k + 1] \in due /\ Target(turned(k)) \in visible}
             first == CHOOSE k \in eligible : \A j \in eligible : k <= j
  <2>2. CASE eligible # {} /\ Publish(turned(first)) /\ UNCHANGED timers
    <3>1. first \in eligible
      <4> DEFINE T == eligible
      <4>1. T \subseteq Nat /\ T # {}
        BY <2>2
      <4> HIDE DEF T, eligible
      <4>2. \E x \in T : \A y \in T : x <= y
        BY <4>1, LeastNatural
      <4>3. \E k \in eligible : \A j \in eligible : k <= j
        BY <4>2 DEF T
      <4> QED  BY <4>3
    <3>2. first \in 1 .. Len(sched.order) - 1 /\ sched.order[first + 1] \in due
      BY <3>1
    <3> DEFINE k == first
               p == DeferBlocks(sched, k, due)
    <3>3. k \in 1 .. Len(sched.order) - 1 /\ sched.order[k + 1] \in due /\ sched' = p
      BY <1>0, <2>2, <3>2, PublishIs
    <3> HIDE DEF k, first, eligible
    <3>4. /\ p.active = sched.active /\ p.op = NoOp /\ p.block \in due
          /\ p.state = "running" /\ p.step = "prepare-block"
      BY <1>0, <3>3, DeferIs
    <3> HIDE DEF p
    <3>5. Driven' /\ sched'.step \in Preparing
      BY <2>1, <2>2, <3>3, <3>4 DEF Driven, Preparing
    <3>6. Served(0)
      BY <2>1, <3>3, <3>4, ServedAlone
    <3> QED  BY <1>0, <2>1, <3>3, <3>4, <3>5, <3>6, PreparingHandled
  <2>3. CASE /\ Publish(SetStep(sched, "waiting-observable-sky", NoOp))
             /\ timers' = [Fired EXCEPT !.sky = @ + 1]
    <3>1. /\ sched'.step = "waiting-observable-sky" /\ sched'.op = NoOp
          /\ sched'.state = "running" /\ sched'.active /\ sched'.block = sched.block
      BY <1>0, <2>1, <2>3, PublishIs, SetStepIs, KindIs DEF SameCourse
    <3>2. timers'.sky > 0
      BY <1>0, <2>3 DEF Fired
    <3>3. Driven' /\ sched'.step \in Preparing
      BY <3>1, <3>2 DEF Driven, Preparing
    <3>4. Served(0)
      BY <2>1, <3>1, ServedAlone
    <3> QED  BY <1>0, <2>1, <3>1, <3>3, <3>4, PreparingHandled
  <2> QED  BY <1>2, <2>2, <2>3 DEF DeferBlock
<1>3. CASE WaitCamera
  <2>1. /\ sched.active /\ sched.state = "running" /\ sched.op = NoOp /\ sched.block \in due
        /\ timers.step > 0 /\ UNCHANGED <<timers, events, due>>
        /\ ops' = Cancelled(ops, LiveViews)
    BY <1>3, SteppingIs, KindsOfStep DEF WaitCamera, sky, Preparing
  <2>2. PICK t \in {"waiting-camera", "prepare-block"} : Publish(SetStep(sched, t, NoOp))
    BY <1>3 DEF WaitCamera
  <2>3. /\ sched'.step = t /\ sched'.op = NoOp
        /\ sched'.state = "running" /\ sched'.active /\ sched'.block = sched.block
    BY <1>0, <2>1, <2>2, PublishIs, SetStepIs, KindIs DEF SameCourse
  <2>4. Driven' /\ sched'.step \in Preparing
    BY <2>1, <2>3 DEF Driven, Preparing
  <2>5. Served(0)
    BY <2>1, <2>3, ServedCancel
  <2> QED  BY <1>0, <2>1, <2>3, <2>4, <2>5, PreparingHandled
<1>4. CASE WaitUnpark
  <2>1. /\ sched.active /\ sched.state = "running" /\ sched.op = NoOp /\ sched.block \in due
        /\ timers.step > 0 /\ UNCHANGED <<ops, events, due>> /\ sched.step = "unpark-before-block"
    BY <1>4, SteppingIs, KindsOfStep DEF WaitUnpark, sky, Preparing
  <2>2. CASE Publish(Fail(sched, "mount status failed"))
    <3>1. ~sched'.active /\ sched'.op = NoOp
      <4>1. "mount status failed" \in Reasons
        BY DEF Reasons
      <4> QED  BY <1>0, <2>2, <4>1, FailOver
    <3>2. Served(0)
      BY <2>1, <3>1, ServedAlone
    <3> QED  BY <1>0, <3>1, <3>2, OverHandled
  <2>3. CASE /\ \E t \in {"unpark-before-block", "prepare-block"} : Publish(SetStep(sched, t, NoOp))
             /\ UNCHANGED timers
    <3>1. PICK t \in {"unpark-before-block", "prepare-block"} : Publish(SetStep(sched, t, NoOp))
      BY <2>3
    <3>2. /\ sched'.step = t /\ sched'.op = NoOp
          /\ sched'.state = "running" /\ sched'.active /\ sched'.block = sched.block
      BY <1>0, <2>1, <3>1, PublishIs, SetStepIs, KindIs DEF SameCourse
    <3>3. Driven' /\ sched'.step \in Preparing
      BY <2>1, <2>3, <3>2 DEF Driven, Preparing
    <3>4. Served(0)
      BY <2>1, <3>2, ServedAlone
    <3> QED  BY <1>0, <2>1, <3>2, <3>3, <3>4, PreparingHandled
  <2> QED  BY <1>4, <2>1, <2>2, <2>3 DEF WaitUnpark
<1>5. CASE PrepareBlock
  <2>1. /\ sched.active /\ sched.state = "running" /\ sched.op = NoOp /\ sched.block \in due
        /\ timers.step > 0 /\ UNCHANGED <<events, due, done>>
    BY <1>5, SteppingIs, KindsOfStep DEF PrepareBlock, sky, history, Preparing
  <2>2. CASE /\ ParkMount(sched, "unparking", "unpark-before-block") /\ UNCHANGED ops
             /\ timers' = IF sched'.active THEN timers ELSE Fired
    <3>1. /\ sched'.op = NoOp /\ sched'.block = sched.block
          /\ \/ ~sched'.active
             \/ sched'.active /\ sched'.state = "running" /\ sched'.step = "unpark-before-block"
      BY <1>0, <2>1, <2>2, ParkRests, KindIs DEF Rests, SameCourse
    <3>2. Served(0)
      BY <2>1, <2>2, <3>1, ServedAlone
    <3>3. CASE ~sched'.active
      BY <1>0, <3>1, <3>2, <3>3, OverHandled
    <3>4. CASE /\ sched'.active /\ sched'.state = "running"
               /\ sched'.step = "unpark-before-block"
      <4>1. Driven' /\ sched'.step \in Preparing
        BY <2>1, <2>2, <3>4 DEF Driven, Preparing
      <4> QED  BY <1>0, <2>1, <3>1, <3>2, <3>4, <4>1, PreparingHandled
    <3> QED  BY <3>1, <3>3, <3>4
  <2>3. CASE \E kind \in SlewKinds :
                SubmitSlew(sched, kind) /\ (kind \in PlanetarySteps => Block(sched).mode = "planetary")
    <3>1. PICK kind \in SlewKinds :
                SubmitSlew(sched, kind) /\ (kind \in PlanetarySteps => Block(sched).mode = "planetary")
      BY <2>3
    <3>2. \/ ~sched'.active /\ sched'.op = NoOp /\ ops' = ops
          \/ /\ sched'.active /\ sched'.state = "running"
             /\ sched'.step = kind /\ sched'.op = FreeId /\ Submit(sched, kind)
             /\ sched'.block = sched.block
      BY <1>0, <2>1, <3>1, SlewRests DEF Rests, SameCourse
    <3>3. CASE ~sched'.active /\ sched'.op = NoOp /\ ops' = ops
      <4>1. Served(0)
        BY <2>1, <3>3, ServedAlone
      <4> QED  BY <1>0, <3>3, <4>1, OverHandled
    <3>4. CASE /\ sched'.active /\ sched'.state = "running" /\ sched'.step = kind
               /\ sched'.op = FreeId /\ Submit(sched, kind) /\ sched'.block = sched.block
      <4>1. kind \in OpKinds /\ kind \notin AtTarget
        BY KindsOfStep DEF OpKinds
      <4>2. Served(0)
        BY <2>1, <3>4, <4>1, ServedSubmit
      <4> DEFINE s == sched'
      <4>3. /\ s.active /\ s.state = "running" /\ s.block \in due' /\ s.step \in OpKinds
            /\ s.op = FreeId /\ sched' = s
            /\ s.step \in PlanetarySteps => Block(s).mode = "planetary"
            /\ s.step \notin AtTarget /\ events' \in {events, Tail(events)}
        BY <2>1, <3>1, <3>4, <4>1 DEF Block
      <4> HIDE DEF s
      <4>4. SessionSteps' /\ Driven' /\ PlanetaryMode' /\ Aim'
        BY <1>0, <4>3, QueueUsed, SubmitAims
      <4> QED  BY <4>2, <4>4 DEF Handled
    <3> QED  BY <3>2, <3>3, <3>4
  <2>4. "slew" \in SlewKinds \ PlanetarySteps /\ "planetary-slew" \in SlewKinds
    BY DEF SlewKinds, PlanetarySteps
  <2> QED  BY <1>5, <2>2, <2>3, <2>4 DEF PrepareBlock
<1>6. CASE SubmitStep
  <2>1. /\ sched.active /\ sched.state = "running" /\ sched.op = NoOp /\ sched.block \in due
        /\ sched.step \in Submissions /\ UNCHANGED <<events, due, mount>>
    BY <1>6, SteppingIs, KindsOfStep DEF SubmitStep, sky
  <2>2. CASE Publish(Fail(sched, "not started")) /\ UNCHANGED ops
    <3>1. ~sched'.active /\ sched'.op = NoOp
      <4>1. "not started" \in Reasons
        BY DEF Reasons
      <4> QED  BY <1>0, <2>2, <4>1, FailOver
    <3>2. Served(0)
      BY <2>1, <2>2, <3>1, ServedAlone
    <3> QED  BY <1>0, <3>1, <3>2, OverHandled
  <2>3. CASE Submit(sched, KindOf(sched.step))
    <3> DEFINE kind == KindOf(sched.step)
               s == SetStep(sched, kind, FreeId)
    <3>1. /\ kind \in OpKinds /\ kind \in AtTarget /\ Submit(sched, kind)
          /\ kind \in PlanetarySteps => sched.step \in PlanetarySteps
      BY <2>1, <2>3, KindsOfStep
    <3> HIDE DEF kind
    <3>2. Served(0)
      BY <2>1, <3>1, ServedSubmit
    <3>3. /\ s.active /\ s.state = "running" /\ s.step = kind /\ s.op = FreeId
          /\ SameCourse(s, sched) /\ sched' = s
      <4>1. kind \in Steps /\ FreeId \in OpIds \cup {NoOp}
        BY <1>0, <3>1, FreeIdIsFree, KindIs
      <4>2. sched' = s
        BY <1>0, <3>1, PublishIs DEF Submit
      <4> QED  BY <1>0, <2>1, <4>1, <4>2, SetStepIs
    <3> HIDE DEF s
    <3>4. s.step \in PlanetarySteps => Block(s).mode = "planetary"
      BY <2>1, <3>1, <3>3 DEF IInv, PlanetaryMode, Block, SameCourse
    <3>5. OnTarget
      <4>1. \A k \in DOMAIN events : events[k].id # sched.op
        BY <1>0, <2>1, QueueUsed, IdsAre
      <4> QED  BY <2>1, <4>1, KindsOfStep DEF IInv, Aim
    <3>6. OnTarget'
      <4>1. ops' = Submitted(ops, kind, Target(sched))
        BY <3>1 DEF Submit
      <4>2. /\ kind \in SlewKinds \cup CameraKinds \cup {"live-view"}
            /\ Target(sched) \in Targets \cup {NoTarget}
        BY <3>1, QueueUsed DEF OpKinds
      <4>3. \A k \in DOMAIN ops' : \/ ops'[k].id = FreeId
                                   \/ k \in DOMAIN ops /\ SameOp(ops'[k], ops[k])
        <5> DEFINE target == Target(sched)
                   r == Submitted(ops, kind, target)
                   e == Len(ops) + 1
        <5>1. target \in Targets \cup {NoTarget} /\ ops' = r
          BY <4>1, <4>2
        <5> HIDE DEF target
        <5>2. /\ r[e].id = FreeId
              /\ \A k \in DOMAIN ops : SameOp(r[k], ops[k])
              /\ \A k \in DOMAIN r : k = e \/ k \in DOMAIN ops
          <6>1. RoomForOne /\ Proper(ops)
            BY QueueUsed
          <6>2. kind \in SlewKinds \cup CameraKinds \cup {"live-view"}
            BY <4>2
          <6> QED  BY <5>1, <6>1, <6>2, SubmittedIs
        <5> HIDE DEF r
        <5> QED  BY <5>1, <5>2
      <4>4. \A k \in DOMAIN ops : ops[k].kind \notin MountMovers
        BY <2>1, <3>5, QueueUsed, IdsAre DEF OnTarget
      <4>5. \A k \in DOMAIN ops' : ops'[k].kind \in MountMovers => ops'[k].id = sched'.op
        BY <3>3, <4>3, <4>4 DEF SameOp
      <4>6. Target(sched') = Target(sched)
        BY <3>3 DEF SameCourse, Target, Block
      <4> QED  BY <2>1, <3>5, <4>5, <4>6 DEF OnTarget
    <3>7. s.block \in due' /\ events' \in {events, Tail(events)} /\ s.step \in OpKinds
      BY <2>1, <3>1, <3>3 DEF SameCourse
    <3>8. SessionSteps' /\ Driven' /\ PlanetaryMode' /\ Aim'
      BY <1>0, <3>3, <3>4, <3>6, <3>7, QueueUsed, SubmitAims
    <3> QED  BY <3>2, <3>8 DEF Handled
  <2> QED  BY <1>6, <2>2, <2>3 DEF SubmitStep
<1> QED  BY <1>1, <1>2, <1>3, <1>4, <1>5, <1>6 DEF StepHandler

\* After the last block the session is over; else it prepares the next one, or
\* waits for its date.
LEMMA AdvanceHandled ==
    ASSUME IInv, NEW s \in SchedRecord, s.order # <<>>, Head(s.order) = s.block,
           NEW t \in [step : Nat, sky : Nat, park : Nat, date : BOOLEAN],
           Advance(s, t), due' = due, sched'.op = NoOp => Served(0)
    PROVE  Handled(0)
<1> DEFINE p == AdvanceBlock(s, due)
<1>1. /\ sched' = p
      /\ timers' = CASE ~p.active -> t
                     [] p.active /\ p.state = "scheduled" -> [t EXCEPT !.date = TRUE]
                     [] OTHER -> StepTimer(t)
  BY DEF Advance
<1>2. /\ p.op = NoOp
      /\ \/ ~p.active
         \/ p.block \in due /\ p.state = "running" /\ p.step = "prepare-block"
         \/ p.block \notin due /\ p.state = "scheduled" /\ p.step = "waiting-block-start"
  BY AdvanceIs
<1> HIDE DEF p
<1>3. Served(0) /\ 0 \in Nat
  BY <1>1, <1>2
<1>4. CASE ~p.active
  BY <1>1, <1>2, <1>3, <1>4, OverHandled
<1>5. CASE p.active /\ p.block \in due /\ p.state = "running" /\ p.step = "prepare-block"
  <2>1. timers' = StepTimer(t)
    BY <1>1, <1>5
  <2>2. timers'.step > 0
    BY <2>1 DEF StepTimer
  <2>3. Driven' /\ sched'.step \in Preparing
    BY <1>1, <1>5, <2>2 DEF Driven, Preparing
  <2> QED  BY <1>1, <1>2, <1>3, <1>5, <2>3, PreparingHandled
<1>6. CASE p.active /\ p.state = "scheduled" /\ p.step = "waiting-block-start"
  <2>1. timers' = [t EXCEPT !.date = TRUE]
    BY <1>1, <1>6
  <2>2. timers'.date
    BY <2>1
  <2>3. Driven' /\ sched'.step \in Preparing
    BY <1>1, <1>6, <2>2 DEF Driven, Preparing
  <2> QED  BY <1>1, <1>2, <1>3, <1>6, <2>3, PreparingHandled
<1> QED  BY <1>2, <1>4, <1>5, <1>6

\* So does every timer of the executor.
LEMMA TimersHandled ==
    ASSUME IInv, SkyTimer \/ ParkTimer \/ DateTimer
    PROVE  Handled(0)
<1>0. /\ TypeOK /\ sched \in SchedRecord /\ store \in StoreRecord
      /\ timers \in [step : Nat, sky : Nat, park : Nat, date : BOOLEAN] /\ 0 \in Nat
      /\ NoOp \in OpIds \cup {NoOp}
  BY QueueUsed DEF IInv, TypeOK
<1>1. CASE SkyTimer
  <2> DEFINE t == [timers EXCEPT !.sky = @ - 1]
             waiting == sched.active /\ sched.step = "waiting-observable-sky"
  <2>1. /\ UNCHANGED <<ops, events, mount, due>> /\ timers.sky > 0
        /\ Publish(IF waiting THEN SetStep(sched, "prepare-block", NoOp) ELSE sched)
        /\ timers' = IF waiting THEN StepTimer(t) ELSE t
    BY <1>1 DEF SkyTimer, sky
  <2>2. /\ t.step = timers.step /\ t.park = timers.park /\ t.date = timers.date
        /\ t.step \in Nat
    BY <1>0
  <2>3. CASE waiting
    <3>1. sched.op = NoOp /\ sched.state = "running" /\ sched.block \in due
      BY <2>3, KindsOfStep DEF IInv, Work, SessionSteps, Preparing
    <3>2. Publish(SetStep(sched, "prepare-block", NoOp)) /\ timers'.step = t.step + 1
      BY <1>0, <2>1, <2>3 DEF StepTimer
    <3>3. /\ sched'.step = "prepare-block" /\ sched'.op = NoOp /\ sched'.active
          /\ sched'.state = "running" /\ sched'.block = sched.block
      BY <1>0, <2>3, <3>1, <3>2, PublishIs, SetStepIs, KindIs DEF SameCourse
    <3>4. Driven' /\ sched'.step \in Preparing
      BY <2>2, <3>2, <3>3 DEF Driven, Preparing
    <3>5. Served(0)
      BY <2>1, <2>3, <3>1, <3>3, ServedAlone
    <3> QED  BY <1>0, <2>1, <3>1, <3>3, <3>4, <3>5, PreparingHandled
  <2>4. CASE ~waiting
    <3>1. sched' = sched /\ timers' = t
      BY <1>0, <2>1, <2>4, PublishIs
    <3>2. Driven'
      <4> HIDE DEF t
      <4> QED  BY <2>2, <2>4, <3>1, DrivenIs DEF Driven
    <3>3. Served(0)
      BY <2>1, <3>1, ServedAlone
    <3> QED  BY <1>0, <2>1, <3>1, <3>2, <3>3, StillHandled
  <2> QED  BY <2>3, <2>4
<1>2. CASE ParkTimer
  <2> DEFINE t == [timers EXCEPT !.park = @ - 1]
             parking == sched.active /\ sched.step = "park-after-block"
  <2>1. /\ UNCHANGED <<ops, events, mount, due>> /\ timers.park > 0
        /\ \/ ~parking /\ timers' = t /\ sched' = sched
           \/ parking /\ Advance(sched, t)
           \/ parking /\ UNCHANGED <<sched, timers>>
           \/ parking /\ Publish(Fail(sched, "mount status failed"))
    BY <1>2 DEF ParkTimer, sky
  <2>2. /\ t.step = timers.step /\ t.sky = timers.sky /\ t.date = timers.date
        /\ t \in [step : Nat, sky : Nat, park : Nat, date : BOOLEAN]
    <3>1. timers.park \in Nat /\ timers.park > 0
      BY <1>0, <2>1
    <3>2. timers.park - 1 \in Nat
      BY <3>1
    <3> QED  BY <1>0, <3>2
  <2> HIDE DEF t
  <2>3. CASE ~parking /\ timers' = t /\ sched' = sched
    <3>1. Driven'
      BY <2>2, <2>3, DrivenIs DEF Driven
    <3>2. Served(0)
      BY <2>1, <2>3, ServedAlone
    <3> QED  BY <1>0, <2>1, <2>3, <3>1, <3>2, StillHandled
  <2>4. CASE parking /\ UNCHANGED <<sched, timers>>
    <3>1. Driven'
      BY <2>4, DrivenStill
    <3>2. Served(0)
      BY <2>1, <2>4, ServedAlone
    <3> QED  BY <1>0, <2>1, <2>4, <3>1, <3>2, StillHandled
  <2>5. parking => sched.op = NoOp
    BY KindsOfStep DEF IInv, Work, SessionSteps, Preparing
  <2>6. CASE parking /\ Publish(Fail(sched, "mount status failed"))
    <3>1. ~sched'.active /\ sched'.op = NoOp
      <4>1. "mount status failed" \in Reasons
        BY DEF Reasons
      <4> QED  BY <1>0, <2>6, <4>1, FailOver
    <3>2. Served(0)
      BY <2>1, <2>5, <2>6, <3>1, ServedAlone
    <3> QED  BY <1>0, <3>1, <3>2, OverHandled
  <2>7. CASE parking /\ Advance(sched, t)
    <3>1. sched.order # <<>> /\ Head(sched.order) = sched.block
      BY <2>7 DEF IInv, Course, Calendar
    <3>2. sched'.op = NoOp => Served(0)
      BY <2>1, <2>5, <2>7, ServedAlone
    <3> QED  BY <1>0, <2>1, <2>2, <2>7, <3>1, <3>2, AdvanceHandled
  <2> QED  BY <2>1, <2>3, <2>4, <2>6, <2>7
<1>3. CASE DateTimer
  <2>1. /\ UNCHANGED <<ops, events, due>> /\ sched.active /\ sched.state = "scheduled"
        /\ sched.block \in due /\ Publish(BeginScheduled(sched))
        /\ timers' = [StepTimer(timers) EXCEPT !.date = FALSE] /\ sched.op = NoOp
    BY <1>3 DEF DateTimer, sky, IInv, Work, SessionSteps
  <2>2. timers'.step = timers.step + 1 /\ timers.step \in Nat
    BY <1>0, <2>1 DEF StepTimer
  <2> DEFINE p == BeginScheduled(sched)
  <2>3. /\ p.active /\ p.state = "running" /\ p.step = "waiting-camera" /\ p.op = NoOp
        /\ p.block = sched.block /\ sched' = p
    BY <1>0, <2>1, BeginScheduledIs, PublishIs DEF SameCourse
  <2> HIDE DEF p
  <2>4. Driven' /\ sched'.step \in Preparing
    BY <2>2, <2>3 DEF Driven, Preparing
  <2>5. Served(0)
    BY <2>1, <2>3, ServedAlone
  <2> QED  BY <1>0, <2>1, <2>3, <2>4, <2>5, PreparingHandled
<1> QED  BY <1>1, <1>2, <1>3

\* An operation that moves the mount is the only one that does, as the manager
\* never runs two operations that hold the mount.
LEMMA OneMover ==
    ASSUME NEW q \in Seq(OpRecord), Proper(q), NEW j \in Running(q), NEW k \in Running(q),
           q[j].kind \in MountMovers, q[k].kind \in MountMovers
    PROVE  j = k
<1>1. \A i \in Running(q) : q[i].kind \in MountMovers => "mount" \in Resources(q[i])
  BY DEF Resources, MountMovers, SlewKinds
<1> QED  BY <1>1 DEF Proper, ExclusiveIn

\* So does the end of any operation, and what then starts in its place.
LEMMA PoolHandled ==
    ASSUME IInv, OperationEnds \/ LiveViewEnds
    PROVE  Handled(0)
<1>0. 0 \in Nat /\ \A k \in Running(ops) : k \in DOMAIN ops
  BY DEF Running
<1>1. CASE LiveViewEnds
  <2>1. PICK k \in Running(ops) : ops[k].kind = "live-view" /\ ops' = TryStart(Without(ops, {k}))
    BY <1>1 DEF LiveViewEnds
  <2>2. UNCHANGED <<sched, timers, events, mount, due>>
    BY <1>1 DEF LiveViewEnds, session, sky
  <2>3. Follows(ops', ops) /\ Len(ops') < Len(ops)
    BY <1>0, <2>1, QueueUsed, EndedIs
  <2>4. Served(0)
    <3>1. Linked'
      BY <1>0, <2>1, <2>2, QueueUsed, LinkViewEnded DEF Linked
    <3>2. OpsDated'
      BY <2>2, <2>3, QueueUsed, DatedFollows DEF OpsDated
    <3>3. ops' \in Seq(OpRecord)
      BY <2>3 DEF Follows
    <3> QED  BY <2>2, <2>3, <3>1, <3>2, <3>3, QueueUsed DEF Served
  <2>5. Driven'
    BY <2>2, DrivenStill
  <2> QED  BY <1>0, <2>2, <2>3, <2>4, <2>5, NoNewMover, StillHandled
<1>2. CASE OperationEnds
  <2>1. PICK k \in Running(ops), result \in {"succeeded", "failed", "cancelled"} :
           /\ ops[k].kind # "live-view"
           /\ events' = Append(events, [id |-> ops[k].id, result |-> result])
           /\ mount' = IF ops[k].kind \notin MountMovers THEN mount
                       ELSE [park |-> "unparked",
                             pointing |-> IF result = "succeeded" THEN ops[k].target ELSE NoTarget]
           /\ ops' = TryStart(Without(ops, {k}))
    BY <1>2 DEF OperationEnds, MountMovers
  <2>2. UNCHANGED <<sched, timers, due>> /\ k \in DOMAIN ops
    BY <1>0, <1>2 DEF OperationEnds, session, sky
  <2> DEFINE u == [id |-> ops[k].id, result |-> result]
             e == Len(events) + 1
  <2>3. u \in EventRecord /\ u.id = ops[k].id /\ u.result = result
    <3>1. ops[k].id \in OpIds
      BY <2>2, QueueUsed, IdsAre
    <3> QED  BY <3>1 DEF EventRecord
  <2>4. /\ events' = Append(events, u) /\ events' \in Seq(EventRecord) /\ Len(events') = Len(events) + 1
        /\ e \in DOMAIN events' /\ events'[e] = u
        /\ \A i \in DOMAIN events : i \in DOMAIN events' /\ events'[i] = events[i]
        /\ \A i \in DOMAIN events' : i = e \/ i \in DOMAIN events
    BY <2>1, <2>3, QueueUsed
  <2> HIDE DEF u, e
  <2>5. /\ Follows(ops', ops) /\ Len(ops') < Len(ops)
        /\ \A i \in DOMAIN ops' : \E j \in DOMAIN ops : j # k /\ SameOp(ops'[i], ops[j])
    BY <2>1, <2>2, QueueUsed, EndedIs
  <2>6. Served(0)
    <3>1. Linked'
      BY <2>1, <2>2, <2>3, <2>4, QueueUsed, LinkEnded DEF Linked
    <3>2. OpsDated'
      BY <2>2, <2>5, QueueUsed, DatedFollows DEF OpsDated
    <3>3. ops' \in Seq(OpRecord) /\ Len(ops') \in Nat
      BY <2>5 DEF Follows
    <3> QED  BY <2>2, <2>4, <2>5, <3>1, <3>2, <3>3, QueueUsed DEF Served
  <2>7. /\ \A i \in DOMAIN ops : \A j \in DOMAIN events : ops[i].id # events[j].id
        /\ \A i \in DOMAIN ops : ops[i].id = sched.op =>
                                    ops[i].kind = sched.step /\ ops[i].target = Target(sched)
        /\ \A i \in DOMAIN ops : ops[i].kind # "live-view" /\ ~ops[i].cancel => ops[i].id = sched.op
    BY QueueUsed DEF Link
  <2>8. ASSUME ops[k].kind \in MountMovers, NEW j \in DOMAIN ops, j # k, ops[j].kind \in MountMovers
        PROVE  ops[j].id = sched.op
    <3> SUFFICES ASSUME ops[j].id # sched.op PROVE FALSE
      OBVIOUS
    <3>1. ops[j].cancel
      BY <2>7, <2>8, KindsOfStep
    <3>2. j \in Running(ops)
      BY <3>1, QueueUsed DEF Proper, Running
    <3> QED  BY <2>8, <3>2, QueueUsed, OneMover
  <2>9. SessionSteps' /\ Driven' /\ PlanetaryMode'
    BY <2>2, DrivenStill DEF IInv, Work, SessionSteps, PlanetaryMode, Block
  <2>10. Aim'
    <3>1. CASE ops[k].id = sched.op
      <4>1. /\ ops[k].kind = sched.step /\ ops[k].target = Target(sched)
            /\ \A j \in DOMAIN events : events[j].id # sched.op
        BY <2>2, <2>7, <3>1
      <4>2. CASE ops[k].kind \in MountMovers
        <5>1. result = "succeeded" => OnTarget'
          <6> SUFFICES ASSUME result = "succeeded" PROVE OnTarget'
            OBVIOUS
          <6>1. mount'.park = "unparked" /\ mount'.pointing = Target(sched')
            BY <2>1, <2>2, <4>1, <4>2
          <6>2. \A i \in DOMAIN ops' : ops'[i].kind \in MountMovers => ops'[i].id = sched'.op
            BY <2>2, <2>5, <2>8, <4>2 DEF SameOp
          <6> QED  BY <6>1, <6>2 DEF OnTarget
        <5>2. \A i \in DOMAIN events' : events'[i].id = sched.op => events'[i].result = result
          BY <2>3, <2>4, <4>1
        <5>3. events'[e].id = sched.op /\ e \in DOMAIN events' /\ events'[e].result = result
          BY <2>3, <2>4, <3>1
        <5> QED  BY <2>2, <5>1, <5>2, <5>3 DEF Aim
      <4>3. CASE ops[k].kind \notin MountMovers
        <5>1. sched.step \notin SlewKinds
          BY <4>1, <4>3 DEF MountMovers
        <5>2. sched.active /\ sched.step \in AtTarget => OnTarget
          BY <4>1 DEF IInv, Aim
        <5>3. OnTarget => OnTarget'
          BY <2>1, <2>2, <2>5, <4>3 DEF OnTarget, SameOp, Target, Block
        <5> QED  BY <2>2, <5>1, <5>2, <5>3 DEF Aim
      <4> QED  BY <4>2, <4>3
    <3>2. CASE ops[k].id # sched.op
      <4>1. /\ \A i \in DOMAIN events' : events'[i].id = sched.op =>
                                            i \in DOMAIN events /\ events'[i] = events[i]
            /\ \A i \in DOMAIN events : i \in DOMAIN events' /\ events'[i] = events[i]
        BY <2>3, <2>4, <3>2
      <4>2. OnTarget => OnTarget'
        <5> SUFFICES ASSUME OnTarget PROVE OnTarget'
          OBVIOUS
        <5>1. ops[k].kind \notin MountMovers
          BY <2>2, <3>2 DEF OnTarget
        <5> QED  BY <2>1, <2>2, <2>5, <5>1 DEF OnTarget, SameOp, Target, Block
      <4> QED  BY <2>2, <4>1, <4>2 DEF IInv, Aim
    <3> QED  BY <3>1, <3>2
  <2> QED  BY <2>6, <2>9, <2>10 DEF Handled
<1> QED  BY <1>1, <1>2

\* A step that succeeded is followed by another for the same target.
LEMMA ProceedIs ==
    ASSUME IInv, OwnEvent, Head(events).result = "succeeded",
           ops' = ops, due' = due, mount' = mount,
           NEW t \in Submissions, Proceed(Cleared, t),
           t \in PlanetarySteps => sched.step \in PlanetarySteps
    PROVE  Handled(0)
<1>1. /\ Cleared \in SchedRecord /\ SameCourse(Cleared, sched) /\ Cleared.state = sched.state
      /\ store \in StoreRecord /\ NoOp \in OpIds \cup {NoOp} /\ t \in Steps
      /\ timers \in [step : Nat, sky : Nat, park : Nat, date : BOOLEAN]
  BY TypesUsed, KindIs DEF IInv, TypeOK
<1>2. /\ sched'.op = NoOp /\ sched'.state = "running" /\ sched'.step = t
      /\ sched'.block = sched.block /\ sched'.frames = sched.frames
  BY <1>1, OwnEventIs, PublishIs, SetStepIs DEF Proceed, SameCourse
<1>3. timers'.step > 0
  BY <1>1 DEF Proceed, StepTimer
<1>4. Target(sched') = Target(sched)
  BY <1>2 DEF Target, Block
<1>5. t \in PlanetarySteps => Block(sched).mode = "planetary"
  BY OwnEventIs DEF IInv, PlanetaryMode
<1> QED  BY <1>2, <1>3, <1>4, <1>5, ProceedHandled

\* It fails.
LEMMA FailHandled ==
    ASSUME IInv, OwnEvent, ops' = ops, due' = due, NEW r \in Reasons,
           Publish(Fail(sched, r)) \/ Publish(Fail(Cleared, r))
    PROVE  Handled(0)
<1>1. ~sched'.active /\ sched'.op = NoOp
  BY QueueUsed, TypesUsed, FailOver
<1>2. Served(0) /\ 0 \in Nat
  BY <1>1, ServedHeard
<1> QED  BY <1>1, <1>2, OverHandled

\* It slews, for the same block.
LEMMA SlewHandled ==
    ASSUME IInv, OwnEvent, due' = due, NEW s \in SchedRecord, s.op = NoOp, s.active,
           s.state = "running", s.block = sched.block,
           NEW kind \in SlewKinds, kind \notin PlanetarySteps, SubmitSlew(s, kind)
    PROVE  Handled(0)
<1>0. store \in StoreRecord /\ RoomForOne /\ events \in Seq(EventRecord) /\ 0 \in Nat
  BY QueueUsed
<1>1. CASE /\ \E r \in Reasons : Publish(Fail(s, r))
           /\ ops' = ops
  <2>1. ~sched'.active /\ sched'.op = NoOp
    BY <1>0, <1>1, FailOver
  <2>2. Served(0)
    BY <1>1, <2>1, ServedHeard
  <2> QED  BY <1>0, <2>1, <2>2, OverHandled
<1>2. CASE Submit(s, kind)
  <2> DEFINE t == SetStep(s, kind, FreeId)
  <2>1. kind \in OpKinds /\ kind \notin AtTarget /\ kind \in Steps /\ FreeId \in OpIds \cup {NoOp}
    BY <1>0, KindsOfStep, KindIs, FreeIdIsFree DEF OpKinds
  <2>2. Served(0)
    BY <1>2, <2>1, ServedNext
  <2>3. /\ t.active /\ t.state = "running" /\ t.step = kind /\ t.op = FreeId
        /\ t.block = sched.block /\ sched' = t
    <3>1. sched' = t
      BY <1>0, <1>2, PublishIs DEF Submit
    <3> QED  BY <2>1, <3>1, SetStepIs DEF SameCourse
  <2> HIDE DEF t
  <2>4. t.block \in due' /\ events' \in {events, Tail(events)}
    BY <2>3, OwnEventIs
  <2>5. SessionSteps' /\ Driven' /\ PlanetaryMode' /\ Aim'
    BY <1>0, <2>1, <2>3, <2>4, SubmitAims
  <2> QED  BY <2>2, <2>5 DEF Handled
<1>3. {"no mount connected", "goto rejected", "unpark failed"} \subseteq Reasons
  BY DEF Reasons
<1> QED  BY <1>1, <1>2, <1>3 DEF SubmitSlew

\* Within a tile the next frame has the same target.
LEMMA SameTile ==
    ASSUME NEW n \in Nat \ {0}, NEW f \in Nat, (f + 1) % n # 0
    PROVE  (f + 1) \div n = f \div n
<1> DEFINE d == f \div n
           r == f % n
<1>1. d \in Nat /\ r \in 0 .. n - 1 /\ f = n * d + r
  OBVIOUS
<1> HIDE DEF d, r
<1>2. r + 1 # n
  <2> SUFFICES ASSUME r + 1 = n PROVE FALSE
    OBVIOUS
  <2>1. f + 1 = n * (d + 1)
    BY <1>1
  <2> QED  BY <1>1, <2>1
<1>3. f + 1 = n * d + (r + 1) /\ r + 1 \in 0 .. n - 1
  BY <1>1, <1>2
<1>4. (f + 1) \div n = d
  BY <1>1, <1>3
<1> QED  BY <1>4 DEF d

\* A block with all its frames is completed.
LEMMA CompleteHandled ==
    ASSUME IInv, OwnEvent, ops' = ops, due' = due, CompleteBlock(Counted)
    PROVE  Handled(0)
<1> DEFINE m == Counted
<1>0. /\ m \in SchedRecord /\ m.block = sched.block /\ m.order = sched.order /\ m.op = NoOp
      /\ m.active = sched.active /\ m.state = sched.state /\ store \in StoreRecord
      /\ timers \in [step : Nat, sky : Nat, park : Nat, date : BOOLEAN] /\ 0 \in Nat
  BY CountedIs, QueueUsed DEF IInv, TypeOK
<1>1. sched'.op = NoOp => Served(0)
  BY ServedHeard
<1>2. sched.active /\ sched.state = "running" /\ sched.block \in due
  BY OwnEventIs
<1>3. \/ /\ ParkMount(m, "parking", "park-after-block") /\ done' = done
         /\ timers' = IF sched'.active THEN [timers EXCEPT !.park = @ + 1] ELSE timers
      \/ Advance(m, timers)
  BY DEF CompleteBlock
<1> HIDE DEF m
<1>4. CASE /\ ParkMount(m, "parking", "park-after-block") /\ done' = done
           /\ timers' = IF sched'.active THEN [timers EXCEPT !.park = @ + 1] ELSE timers
  <2>1. /\ sched'.op = NoOp /\ sched'.block = sched.block
        /\ \/ ~sched'.active
           \/ sched'.active /\ sched'.state = "running" /\ sched'.step = "park-after-block"
    BY <1>0, <1>2, <1>4, ParkRests, KindIs DEF Rests, SameCourse
  <2>2. CASE ~sched'.active
    BY <1>0, <1>1, <2>1, <2>2, OverHandled
  <2>3. CASE sched'.active /\ sched'.state = "running" /\ sched'.step = "park-after-block"
    <3>1. timers'.park > 0
      BY <1>0, <1>4, <2>3
    <3>2. Driven' /\ sched'.step \in Preparing
      BY <2>3, <3>1 DEF Driven, Preparing
    <3> QED  BY <1>0, <1>1, <1>2, <2>1, <2>3, <3>2, PreparingHandled
  <2> QED  BY <2>1, <2>2, <2>3
<1>5. CASE Advance(m, timers)
  <2>1. m.order # <<>> /\ Head(m.order) = m.block
    BY <1>0, <1>2 DEF IInv, Course, Calendar
  <2> QED  BY <1>0, <1>1, <1>5, <2>1, AdvanceHandled
<1> QED  BY <1>3, <1>4, <1>5

\* Another frame of the same field follows.
LEMMA NextFrameHandled ==
    ASSUME IInv, OwnEvent, Head(events).result = "succeeded",
           ops' = ops, due' = due, mount' = mount,
           NEW t \in Submissions, Proceed(Counted, t),
           t \in PlanetarySteps => sched.step \in PlanetarySteps,
           ~(Counted.frames >= FrameTarget(Counted.block)),
           ~(Block(sched).mode = "mosaic" /\ Counted.frames % Block(Counted).frames = 0)
    PROVE  Handled(0)
<1> DEFINE m == Counted
<1>1. /\ m \in SchedRecord /\ m.block = sched.block /\ m.frames = sched.frames + 1
      /\ m.state = sched.state /\ sched.frames \in Nat /\ sched.block \in Blocks
      /\ store \in StoreRecord /\ NoOp \in OpIds \cup {NoOp} /\ t \in Steps
      /\ timers \in [step : Nat, sky : Nat, park : Nat, date : BOOLEAN]
  BY CountedIs, QueueUsed, KindIs DEF IInv, TypeOK, SchedRecord
<1>2. /\ sched'.op = NoOp /\ sched'.state = "running" /\ sched'.step = t
      /\ sched'.block = sched.block /\ sched'.frames = sched.frames + 1
  BY <1>1, OwnEventIs, PublishIs, SetStepIs DEF Proceed, SameCourse
<1>3. timers'.step > 0
  BY <1>1 DEF Proceed, StepTimer
<1>4. Target(sched') = Target(sched)
  <2>1. CASE Block(sched).mode # "mosaic"
    BY <1>2, <2>1 DEF Target, Block
  <2>2. CASE Block(sched).mode = "mosaic"
    <3> DEFINE b == sched.block
               f == sched.frames
               n == Plan[b].frames
               g == FrameTarget(b)
    <3>1. n \in Nat \ {0} /\ f \in Nat /\ g \in Nat
      <4>1. b \in Blocks
        BY <1>1
      <4> HIDE DEF b
      <4>2. Plan[b].frames \in Nat /\ Plan[b].frames > 0
        BY <4>1, PlanIs
      <4>3. FrameTarget(b) \in Nat
        BY <4>1, TilesAre
      <4> QED  BY <1>1, <4>2, <4>3
    <3>2. (f + 1) % n # 0 /\ ~(f + 1 >= g)
      BY <1>1, <2>2 DEF Block
    <3>3. (f + 1) \div n = f \div n
      <4> HIDE DEF f, n
      <4> QED  BY <3>1, <3>2, SameTile
    <3>4. ~(f >= g)
      <4> HIDE DEF f, g
      <4> QED  BY <3>1, <3>2
    <3>5. Tile(b, f + 1) = Tile(b, f)
      BY <3>2, <3>3, <3>4 DEF Tile
    <3> QED  BY <1>2, <3>5 DEF Target, Block
  <2> QED  BY <2>1, <2>2
<1>5. t \in PlanetarySteps => Block(sched).mode = "planetary"
  BY OwnEventIs DEF IInv, PlanetaryMode
<1> QED  BY <1>2, <1>3, <1>4, <1>5, ProceedHandled

\* So does every branch of the session's operation updates.
LEMMA EventsHandled ==
    ASSUME IInv, EventHandler
    PROVE  Handled(0)
<1>0. /\ TypeOK /\ 0 \in Nat
      /\ {"failed", "cancelled", "recenter did not converge", "sync failed",
          "planet not detected"} \subseteq Reasons
  BY DEF IInv, Reasons
<1>1. CASE ForeignEvent
  <2>1. /\ UNCHANGED <<sched, timers, ops, mount, due>> /\ events # <<>> /\ events' = Tail(events)
        /\ ~(sched.active /\ sched.op # NoOp /\ Head(events).id = sched.op)
    BY <1>1 DEF ForeignEvent, session, sky
  <2>2. sched.op = NoOp \/ Head(events).id # sched.op
    BY <2>1 DEF IInv, Work, SessionSteps
  <2>3. /\ Tail(events) \in Seq(EventRecord) /\ Len(Tail(events)) = Len(events) - 1
        /\ Head(events) \in EventRecord /\ events[1] = Head(events)
        /\ \A k \in DOMAIN Tail(events) : k + 1 \in DOMAIN events /\ Tail(events)[k] = events[k + 1]
        /\ \A k \in DOMAIN events : k # 1 => k - 1 \in DOMAIN Tail(events)
                                            /\ Tail(events)[k - 1] = events[k]
    BY <2>1, QueueUsed, TailIs
  <2>4. Served(0)
    <3>1. Linked'
      BY <2>1, <2>2, QueueUsed, LinkForeign DEF Linked
    <3>2. OpsDated'
      BY <2>1, QueueUsed DEF OpsDated
    <3> QED  BY <2>1, <2>3, <3>1, <3>2, QueueUsed DEF Served
  <2>5. Head(events).id # sched.op
    BY <2>1, <2>2, QueueUsed, TailIs, IdsAre
  <2>6. ASSUME NEW u \in EventRecord, u.id = sched.op
        PROVE  (\E k \in DOMAIN events : events[k] = u) <=> (\E k \in DOMAIN events' : events'[k] = u)
    <3>1. ASSUME NEW k \in DOMAIN events, events[k] = u PROVE \E j \in DOMAIN events' : events'[j] = u
      <4>1. k # 1
        BY <2>3, <2>5, <2>6, <3>1
      <4> QED  BY <2>1, <2>3, <3>1, <4>1
    <3>2. ASSUME NEW k \in DOMAIN events', events'[k] = u PROVE \E j \in DOMAIN events : events[j] = u
      BY <2>1, <2>3, <3>2
    <3> QED  BY <3>1, <3>2
  <2>7. (OnTarget => OnTarget') /\ Driven' /\ due \subseteq due'
    BY <2>1, DrivenStill DEF OnTarget, Target, Block
  <2> QED  BY <1>0, <2>1, <2>4, <2>6, <2>7, SameHandled
<1>2. CASE StepFailed
  <2>1. /\ OwnEvent /\ ops' = ops /\ due' = due /\ Publish(Fail(sched, Head(events).result))
        /\ Head(events).result # "succeeded"
    BY <1>2 DEF StepFailed, sky
  <2>2. Head(events).result \in Reasons
    <3>1. Head(events) \in EventRecord
      BY <2>1, QueueUsed, TailIs DEF OwnEvent
    <3> QED  BY <1>0, <2>1, <3>1 DEF EventRecord
  <2> QED  BY <2>1, <2>2, FailHandled
<1>3. CASE /\ OwnEvent /\ Head(events).result = "succeeded" /\ UNCHANGED <<ops, due, mount>>
           /\ \E t \in Submissions : /\ Proceed(Cleared, t)
                                     /\ t \in PlanetarySteps => sched.step \in PlanetarySteps
  BY <1>3, ProceedIs
<1>4. /\ {"solve-pending", "autofocus-pending", "capture-pending"} \subseteq Submissions \ PlanetarySteps
      /\ {"planetary-acquire-pending", "planetary-reacquire-pending",
          "planetary-postcal-acquire-pending", "planetary-autofocus-pending",
          "planetary-calibration-pending", "planetary-ser-pending"} \subseteq Submissions
      /\ {"planetary-slew", "planetary-acquire", "planetary-reacquire", "planetary-postcal-acquire",
          "planetary-autofocus", "planetary-calibration", "planetary-ser"} \subseteq PlanetarySteps
  BY DEF Submissions, PlanetarySteps
<1>5. CASE SlewDone
  BY <1>3, <1>4, <1>5 DEF SlewDone, Succeeded, AfterPointing, sky
<1>6. CASE RecenterSlewDone
  BY <1>3, <1>4, <1>6 DEF RecenterSlewDone, Succeeded, sky
<1>7. CASE AutofocusDone
  BY <1>3, <1>4, <1>7 DEF AutofocusDone, Succeeded, sky
<1>8. CASE PlanetarySlewDone
  BY <1>3, <1>4, <1>8 DEF PlanetarySlewDone, Succeeded, sky
<1>9. CASE PlanetaryAutofocusDone
  BY <1>3, <1>4, <1>9 DEF PlanetaryAutofocusDone, Succeeded, sky
<1>10. CASE PlanetaryCalibrationDone
  BY <1>3, <1>4, <1>10 DEF PlanetaryCalibrationDone, Succeeded, sky
<1>11. CASE PlanetaryAcquireDone
  <2>1. /\ OwnEvent /\ Head(events).result = "succeeded" /\ UNCHANGED <<ops, due, mount>>
        /\ sched.step \in PlanetarySteps
        /\ \/ \E t \in Submissions : Proceed(Cleared, t)
           \/ Publish(Fail(Cleared, "planet not detected"))
    BY <1>4, <1>11 DEF PlanetaryAcquireDone, Succeeded, sky
  <2>2. CASE Publish(Fail(Cleared, "planet not detected"))
    BY <1>0, <2>1, <2>2, FailHandled
  <2>3. CASE \E t \in Submissions : Proceed(Cleared, t)
    BY <1>3, <2>1, <2>3
  <2> QED  BY <2>1, <2>2, <2>3
<1>12. CASE SolveDone
  <2>1. /\ OwnEvent /\ Head(events).result = "succeeded" /\ UNCHANGED due
        /\ \/ /\ UNCHANGED <<ops, mount>>
              /\ \E t \in {"autofocus-pending", "capture-pending"} : Proceed(Cleared, t)
           \/ /\ ops' = ops
              /\ \E r \in Reasons : Publish(Fail(Cleared, r))
           \/ SubmitSlew(Cleared, "recenter-slew")
    BY <1>0, <1>12 DEF SolveDone, Succeeded, sky
  <2>2. CASE /\ UNCHANGED <<ops, mount>>
             /\ \E t \in {"autofocus-pending", "capture-pending"} : Proceed(Cleared, t)
    BY <1>3, <1>4, <2>1, <2>2
  <2>3. CASE ops' = ops /\ \E r \in Reasons : Publish(Fail(Cleared, r))
    BY <2>1, <2>3, FailHandled
  <2>4. CASE SubmitSlew(Cleared, "recenter-slew")
    <3>1. "recenter-slew" \in SlewKinds /\ "recenter-slew" \notin PlanetarySteps
      BY DEF SlewKinds, PlanetarySteps
    <3>2. /\ Cleared \in SchedRecord /\ Cleared.op = NoOp /\ Cleared.active
          /\ Cleared.state = "running" /\ Cleared.block = sched.block
      BY <1>0, <2>1, TypesUsed, OwnEventIs DEF SameCourse
    <3> QED  BY <2>1, <2>4, <3>1, <3>2, SlewHandled
  <2> QED  BY <2>1, <2>2, <2>3, <2>4
<1>13. CASE CaptureDone
  <2> DEFINE m == Counted
  <2>1. /\ OwnEvent /\ Head(events).result = "succeeded" /\ UNCHANGED due
        /\ \/ ops' = ops /\ CompleteBlock(m)
           \/ SubmitSlew(m, "slew")
           \/ /\ UNCHANGED <<ops, mount>> /\ ~(m.frames >= FrameTarget(m.block))
              /\ ~(Block(m).mode = "mosaic" /\ m.frames % Block(m).frames = 0)
              /\ \E t \in {"solve-pending", "autofocus-pending", "capture-pending"} : Proceed(m, t)
    BY <1>13 DEF CaptureDone, Succeeded, sky, Counted, AfterPointing
  <2>2. /\ m \in SchedRecord /\ m.block = sched.block /\ m.op = NoOp
        /\ m.active = sched.active /\ m.state = sched.state
    BY <1>0, CountedIs
  <2>3. CASE ops' = ops /\ CompleteBlock(m)
    BY <2>1, <2>3, CompleteHandled
  <2>4. CASE SubmitSlew(m, "slew")
    <3>1. "slew" \in SlewKinds /\ "slew" \notin PlanetarySteps
      BY DEF SlewKinds, PlanetarySteps
    <3> HIDE DEF m
    <3> QED  BY <2>1, <2>2, <2>4, <3>1, OwnEventIs, SlewHandled
  <2>5. CASE /\ UNCHANGED <<ops, mount>> /\ ~(m.frames >= FrameTarget(m.block))
             /\ ~(Block(m).mode = "mosaic" /\ m.frames % Block(m).frames = 0)
             /\ \E t \in {"solve-pending", "autofocus-pending", "capture-pending"} : Proceed(m, t)
    <3>1. Block(m).mode = Block(sched).mode
      BY <2>2 DEF Block
    <3> QED  BY <1>4, <2>1, <2>5, <3>1, NextFrameHandled
  <2> QED  BY <2>1, <2>3, <2>4, <2>5
<1>14. CASE PlanetarySerDone
  <2> DEFINE m == Counted
  <2>1. /\ OwnEvent /\ Head(events).result = "succeeded" /\ UNCHANGED <<ops, due>>
        /\ sched.step = "planetary-ser"
        /\ \/ CompleteBlock(m)
           \/ /\ mount' = mount /\ ~(m.frames >= FrameTarget(m.block))
              /\ Proceed(m, "planetary-acquire-pending")
    BY <1>14 DEF PlanetarySerDone, Succeeded, sky, Counted
  <2>2. CASE CompleteBlock(m)
    BY <2>1, <2>2, CompleteHandled
  <2>3. CASE /\ mount' = mount /\ ~(m.frames >= FrameTarget(m.block))
             /\ Proceed(m, "planetary-acquire-pending")
    <3>1. Block(sched).mode = "planetary" /\ sched.step \in PlanetarySteps
      BY <1>4, <2>1, OwnEventIs DEF IInv, PlanetaryMode
    <3> QED  BY <1>4, <2>1, <2>3, <3>1, NextFrameHandled
  <2> QED  BY <2>1, <2>2, <2>3
<1> QED  BY <1>1, <1>2, <1>5, <1>6, <1>7, <1>8, <1>9, <1>10, <1>11, <1>12, <1>13, <1>14
         DEF EventHandler

\* The process ends, and whatever it held is gone.
LEMMA ProcessHandled ==
    ASSUME IInv, Crash \/ Shutdown \/ Restart
    PROVE  Handled(0) /\ ~sched'.active
<1>1. ~sched'.active /\ sched'.op = NoOp
  <2>1. CASE sched' = Ready
    BY <2>1, ReadyIs
  <2>2. CASE Publish(IF sched.active THEN Stop(sched, "") ELSE sched)
    <3>1. "" \in Reasons
      BY Named
    <3>2. sched' = IF sched.active THEN Stop(sched, "") ELSE sched
      BY <2>2 DEF Publish
    <3>3. ~sched.active => sched.op = NoOp
      BY DEF IInv, Work, SessionSteps
    <3> QED  BY <3>1, <3>2, <3>3, QueueUsed, EndIs
  <2> QED  BY <2>1, <2>2 DEF Crash, Shutdown, Restart
<1>2. CASE ops' = <<>> /\ events' = <<>>
  <2>1. Link(sched', <<>>, <<>>)
    BY <1>1 DEF Link, Proper, ExclusiveIn, Running
  <2>2. /\ <<>> \in Seq(OpRecord) /\ <<>> \in Seq(EventRecord)
        /\ Dated(<<>>, due') /\ Len(<<>>) = 0
    BY DEF Dated
  <2>3. Owes(sched') = 0
    BY <1>1 DEF Owes
  <2>4. Served(0)
    <3>1. Linked' /\ OpsDated'
      BY <1>2, <2>1, <2>2 DEF Linked, OpsDated
    <3> QED  BY <1>2, <2>2, <2>3, <3>1, QueueUsed DEF Served
  <2>5. 0 \in Nat
    OBVIOUS
  <2> QED  BY <1>1, <2>4, <2>5, OverHandled
<1>3. CASE Restart
  <2>1. UNCHANGED <<ops, events>> /\ due \subseteq due' /\ sched.op = NoOp
    BY <1>3 DEF Restart, sky, IInv, Work, ProcessDown, SessionSteps
  <2>2. Served(0) /\ 0 \in Nat
    BY <1>1, <2>1, ServedAlone
  <2> QED  BY <1>1, <2>2, OverHandled
<1>4. Crash \/ Shutdown => ops' = <<>> /\ events' = <<>>
  BY DEF Crash, Shutdown, ProcessEnds
<1> QED  BY <1>2, <1>3, <1>4

\* So do the sky, the calendar and the mount.
LEMMA EnvironmentHandled ==
    ASSUME IInv, DevicesRestored \/ SkyChanges \/ DateComes \/ ParkMotionEnds
    PROVE  Handled(0)
<1>1. UNCHANGED <<sched, timers, ops, events>> /\ due \subseteq due' /\ 0 \in Nat
  BY DEF DevicesRestored, SkyChanges, DateComes, ParkMotionEnds, session, sky
<1>2. Served(0) /\ Driven'
  BY <1>1, ServedAlone, DrivenStill
<1>3. mount' = mount \/ ParkMotionEnds
  BY DEF DevicesRestored, SkyChanges, DateComes
<1>4. OnTarget => OnTarget'
  BY <1>1, <1>3 DEF OnTarget, ParkMotionEnds, Target, Block
<1> QED  BY <1>1, <1>2, <1>4, SameHandled

\* What is spent covers what is held.
Spent == (MaxStarts - budget.starts) + (MaxCrashes - budget.crashes) + (MaxLiveViews - budget.lives)
Bounded ==
    /\ budget.starts <= MaxStarts /\ budget.crashes <= MaxCrashes
    /\ budget.lives <= MaxLiveViews /\ budget.skies <= MaxSkyChanges
Resuming == IF resumeTimer THEN 1 ELSE 0

\* What was spent of the bounds is a number.
LEMMA SpentIs ==
    ASSUME TypeOK
    PROVE  Spent \in Int
<1> DEFINE x == budget.starts
           y == budget.crashes
           z == budget.lives
<1>1. /\ x \in Nat /\ y \in Nat /\ z \in Nat
      /\ MaxStarts \in Nat /\ MaxCrashes \in Nat /\ MaxLiveViews \in Nat
  BY BoundAssumption DEF TypeOK
<1> HIDE DEF x, y, z
<1>2. (MaxStarts - x) + (MaxCrashes - y) + (MaxLiveViews - z) \in Int
  BY <1>1
<1> QED  BY <1>2 DEF Spent, x, y, z

\* No more ids are in use than bounds were spent.
LEMMA CountKept ==
    ASSUME IInv, NEW n \in {0, 1}, Served(n), Bounded',
           Spent' \in Int, Spent' + Resuming >= Spent + n + Resuming'
    PROVE  Count'
<1> DEFINE h == Len(ops) + Len(events) + Owes(sched)
           i == Len(ops') + Len(events') + Owes(sched')
<1>1. /\ Len(ops) \in Nat /\ Len(events) \in Nat /\ Len(ops') \in Nat /\ Len(events') \in Nat
      /\ Owes(sched) \in {0, 1} /\ Owes(sched') \in {0, 1}
  BY QueueUsed DEF Served, Owes
<1>2. Resuming \in {0, 1} /\ Resuming' \in {0, 1}
  BY DEF Resuming
<1>3. Spent \in Int
  BY SpentIs DEF IInv
<1>4. h \in Int /\ i \in Int /\ i <= h + n
  BY <1>1 DEF Served
<1>5. Used = h + Resuming /\ Used' = i + Resuming'
  BY DEF Used, Owes, Resuming
<1>6. Used <= Spent
  BY DEF IInv, Work, Count, Spent
<1> HIDE DEF h, i
<1>7. Used' <= Spent'
  <2> DEFINE a == Spent
             b == Spent'
             p == Resuming
             q == Resuming'
  <2>1. a \in Int /\ b \in Int /\ p \in {0, 1} /\ q \in {0, 1} /\ b + p >= a + n + q
    BY <1>2, <1>3
  <2>2. h + p <= a
    BY <1>5, <1>6
  <2> HIDE DEF a, b, p, q
  <2>3. i + q <= b
    BY <1>4, <2>1, <2>2
  <2> QED  BY <1>5, <2>3 DEF b, q
<1> QED  BY <1>7 DEF Count, Spent, Bounded

\* Steps that spend nothing.
LEMMA CountSame ==
    ASSUME IInv, Served(0), budget' = budget, resumeTimer' = resumeTimer
    PROVE  Count'
<1>1. Bounded' /\ Spent' = Spent
  BY DEF Bounded, Spent, IInv, Work, Count
<1>2. Resuming' = Resuming /\ Resuming \in {0, 1}
  BY DEF Resuming
<1>3. Spent' \in Int /\ Spent' + Resuming >= Spent + 0 + Resuming'
  BY <1>1, <1>2, SpentIs DEF IInv
<1> QED  BY <1>1, <1>3, CountKept

\* One thing is spent, for one id.
LEMMA SpentOne ==
    ASSUME TypeOK, Bounded,
           \/ budget.starts > 0 /\ budget' = [budget EXCEPT !.starts = @ - 1]
           \/ budget.lives > 0 /\ budget' = [budget EXCEPT !.lives = @ - 1]
           \/ budget.crashes > 0 /\ budget' = [budget EXCEPT !.crashes = @ - 1]
    PROVE  Spent' = Spent + 1 /\ Bounded'
<1> DEFINE x == budget.starts
           y == budget.crashes
           z == budget.lives
           w == budget.skies
<1>1. /\ x \in Nat /\ y \in Nat /\ z \in Nat /\ w \in Nat
      /\ MaxStarts \in Nat /\ MaxCrashes \in Nat /\ MaxLiveViews \in Nat /\ MaxSkyChanges \in Nat
      /\ x <= MaxStarts /\ y <= MaxCrashes /\ z <= MaxLiveViews /\ w <= MaxSkyChanges
  BY BoundAssumption DEF TypeOK, Bounded
<1>2. /\ Spent = (MaxStarts - x) + (MaxCrashes - y) + (MaxLiveViews - z)
      /\ Spent' = (MaxStarts - x') + (MaxCrashes - y') + (MaxLiveViews - z')
      /\ Bounded' <=> x' <= MaxStarts /\ y' <= MaxCrashes /\ z' <= MaxLiveViews /\ w' <= MaxSkyChanges
  BY DEF Spent, Bounded
<1>3. /\ w' = w
      /\ \/ x' = x - 1 /\ y' = y /\ z' = z
         \/ x' = x /\ y' = y - 1 /\ z' = z
         \/ x' = x /\ y' = y /\ z' = z - 1
  BY DEF TypeOK
<1> HIDE DEF x, y, z, w
<1> QED  BY <1>1, <1>2, <1>3

-----------------------------------------------------------------------------
(* Every step keeps the session at work.                                   *)

QueuesTyped == ops \in Seq(OpRecord) /\ events \in Seq(EventRecord)

\* A running process's handler neither ends it nor spends anything.
Quiet == UNCHANGED <<up, resumeTimer, budget>>

\* A step that spends nothing keeps the count.
LEMMA WorkQuiet ==
    ASSUME IInv, up, Handled(0), Quiet
    PROVE  Work' /\ Driven' /\ PlanetaryMode' /\ Aim' /\ QueuesTyped'
BY CountSame DEF Quiet, Handled, Served, QueuesTyped, Work, ProcessDown

\* One id is taken for the one thing spent.
LEMMA WorkSpent ==
    ASSUME IInv, up, Handled(1), UNCHANGED <<up, resumeTimer>>, Bounded', Spent' = Spent + 1
    PROVE  Work' /\ Driven' /\ PlanetaryMode' /\ Aim' /\ QueuesTyped'
<1>1. Spent \in Int /\ Resuming' = Resuming /\ Resuming \in {0, 1}
  BY SpentIs DEF IInv, Resuming
<1>2. Spent' \in Int /\ Spent' + Resuming >= Spent + 1 + Resuming' /\ 1 \in {0, 1}
  BY <1>1
<1>3. Count'
  BY <1>2, CountKept DEF Handled
<1> QED  BY <1>3 DEF Handled, Served, QueuesTyped, Work, ProcessDown

\* Every step keeps what a session relies on while it works.
LEMMA WorkStep ==
    ASSUME IInv, Next
    PROVE  Work' /\ Driven' /\ PlanetaryMode' /\ Aim' /\ QueuesTyped'
<1>0. TypeOK /\ Bounded /\ Resuming \in {0, 1} /\ Spent \in Int
  BY SpentIs DEF IInv, Work, Count, Bounded, Resuming
<1>1. CASE StartSession \/ StartLiveView
  <2>1. /\ up /\ UNCHANGED <<up, resumeTimer>>
        /\ \/ budget.starts > 0 /\ budget' = [budget EXCEPT !.starts = @ - 1]
           \/ budget.lives > 0 /\ budget' = [budget EXCEPT !.lives = @ - 1]
    BY <1>1 DEF StartSession, StartLiveView, process
  <2>2. Spent' = Spent + 1 /\ Bounded'
    BY <1>0, <2>1, SpentOne
  <2> QED  BY <1>1, <2>1, <2>2, ClientsHandled, WorkSpent
<1>2. CASE StopSession \/ CancelOperation
  <2>1. up /\ Quiet
    BY <1>2 DEF StopSession, CancelOperation, process, history, Quiet
  <2> QED  BY <1>2, <2>1, ClientsHandled, WorkQuiet
<1>3. CASE StepHandler
  <2>1. up /\ Quiet
    BY <1>3 DEF StepHandler, StepIdle, DeferBlock, WaitCamera, WaitUnpark, PrepareBlock, SubmitStep,
                Stepping, process, history, Quiet
  <2> QED  BY <1>3, <2>1, StepHandlerHandled, WorkQuiet
<1>4. CASE SkyTimer \/ ParkTimer \/ DateTimer
  <2>1. up /\ Quiet
    BY <1>4 DEF SkyTimer, ParkTimer, DateTimer, process, history, Quiet
  <2> QED  BY <1>4, <2>1, TimersHandled, WorkQuiet
<1>5. CASE OperationEnds \/ LiveViewEnds
  <2>1. up /\ Quiet
    BY <1>5 DEF OperationEnds, LiveViewEnds, process, history, Quiet
  <2> QED  BY <1>5, <2>1, PoolHandled, WorkQuiet
<1>6. CASE EventHandler
  <2>1. up /\ Quiet
    BY <1>6 DEF EventHandler, ForeignEvent, StepFailed, SlewDone, RecenterSlewDone, SolveDone,
                AutofocusDone, CaptureDone, PlanetarySlewDone, PlanetaryAcquireDone,
                PlanetaryAutofocusDone, PlanetaryCalibrationDone, PlanetarySerDone,
                Succeeded, OwnEvent, process, history, Quiet
  <2> QED  BY <1>6, <2>1, EventsHandled, WorkQuiet
<1>7. CASE Crash \/ Shutdown
  <2>1. /\ ~up' /\ ~resumeTimer' /\ ops' = <<>> /\ events' = <<>>
        /\ budget.crashes > 0 /\ budget' = [budget EXCEPT !.crashes = @ - 1]
    BY <1>7 DEF Crash, Shutdown, ProcessEnds
  <2>2. Handled(0) /\ ~sched'.active
    BY <1>7, ProcessHandled
  <2>3. Spent' = Spent + 1 /\ Bounded'
    BY <1>0, <2>1, SpentOne
  <2>4. Resuming' = 0
    BY <2>1 DEF Resuming
  <2>5. Spent' \in Int /\ Spent' + Resuming >= Spent + 0 + Resuming' /\ 0 \in {0, 1}
    BY <1>0, <2>3, <2>4
  <2>6. Count'
    BY <2>2, <2>3, <2>5, CountKept DEF Handled
  <2>7. budget'.crashes < MaxCrashes
    <3> DEFINE c == budget.crashes
    <3>1. c \in Nat /\ MaxCrashes \in Nat /\ c <= MaxCrashes
      BY <1>0, BoundAssumption DEF TypeOK, Bounded
    <3>2. budget'.crashes = c - 1
      BY <1>0, <2>1 DEF TypeOK
    <3> HIDE DEF c
    <3> QED  BY <3>1, <3>2
  <2> QED  BY <2>1, <2>2, <2>6, <2>7 DEF Handled, Served, QueuesTyped, Work, ProcessDown
<1>8. CASE Restart
  <2>1. ~up /\ up' /\ UNCHANGED <<ops, events, budget>>
    BY <1>8 DEF Restart, history
  <2>2. Handled(0) /\ ~sched'.active
    BY <1>8, ProcessHandled
  <2>3. ops = <<>> /\ events = <<>> /\ budget.crashes < MaxCrashes
    BY <2>1 DEF IInv, Work, ProcessDown
  <2>4. Used' <= 1 /\ Used' \in Int
    <3>1. Used' = 0 + 0 + 0 + (IF resumeTimer' THEN 1 ELSE 0)
      BY <2>1, <2>2, <2>3 DEF Used
    <3> QED  BY <3>1
  <2>5. Spent >= 1
    <3> DEFINE x == budget.starts
               y == budget.crashes
               z == budget.lives
    <3>1. /\ x \in Nat /\ y \in Nat /\ z \in Nat
          /\ MaxStarts \in Nat /\ MaxCrashes \in Nat /\ MaxLiveViews \in Nat
          /\ x <= MaxStarts /\ y < MaxCrashes /\ z <= MaxLiveViews
      BY <1>0, <2>3, BoundAssumption DEF TypeOK, Bounded
    <3>2. Spent = (MaxStarts - x) + (MaxCrashes - y) + (MaxLiveViews - z)
      BY DEF Spent
    <3> HIDE DEF x, y, z
    <3> QED  BY <3>1, <3>2
  <2>6. Spent' = Spent /\ Bounded'
    BY <1>0, <2>1 DEF Spent, Bounded
  <2>7. Used' <= Spent'
    BY <1>0, <2>4, <2>5, <2>6
  <2>8. Count'
    BY <2>6, <2>7 DEF Count, Spent, Bounded
  <2> QED  BY <2>1, <2>2, <2>8 DEF Handled, Served, QueuesTyped, Work, ProcessDown
<1>9. CASE ResumeTimer
  <2>1. up /\ up' = up /\ UNCHANGED <<ops, events, mount, due, budget>> /\ resumeTimer /\ ~resumeTimer'
    BY <1>9 DEF ResumeTimer, sky
  <2>2. Spent' = Spent /\ Bounded' /\ Resuming = 1 /\ Resuming' = 0
    BY <1>0, <2>1 DEF Spent, Bounded, Resuming
  <2>3. PICK n \in {0, 1} : Handled(n)
    <3>1. CASE sched.active
      <4>1. sched' = sched /\ timers' = timers /\ 0 \in Nat
        BY <1>9, <3>1 DEF ResumeTimer, session
      <4>2. Served(0) /\ Driven'
        BY <2>1, <4>1, ServedAlone, DrivenStill
      <4>3. Handled(0)
        BY <2>1, <4>1, <4>2, StillHandled
      <4> QED  BY <4>3
    <3>2. CASE ~sched.active
      <4>1. BeginSession
        BY <1>9, <3>2 DEF ResumeTimer
      <4>2. Handled(1)
        BY <2>1, <3>2, <4>1, BeginHandled
      <4> QED  BY <4>2
    <3> QED  BY <3>1, <3>2
  <2>4. Spent' \in Int /\ Spent' + Resuming >= Spent + n + Resuming'
    BY <1>0, <2>2
  <2>5. Count'
    BY <2>2, <2>3, <2>4, CountKept DEF Handled
  <2> QED  BY <2>1, <2>3, <2>5 DEF Handled, Served, QueuesTyped, Work, ProcessDown
<1>10. CASE DevicesRestored \/ SkyChanges \/ DateComes \/ ParkMotionEnds
  <2>1. Handled(0)
    BY <1>10, EnvironmentHandled
  <2>2. /\ UNCHANGED <<up, resumeTimer, ops, events, sched>>
        /\ \/ budget' = budget
           \/ budget.skies > 0 /\ budget' = [budget EXCEPT !.skies = @ - 1]
    BY <1>10 DEF DevicesRestored, SkyChanges, DateComes, ParkMotionEnds, process, history, session
  <2>3. Spent' = Spent /\ Bounded' /\ budget'.crashes = budget.crashes
    <3>1. /\ budget'.starts = budget.starts /\ budget'.crashes = budget.crashes
          /\ budget'.lives = budget.lives
          /\ budget'.skies = budget.skies \/ budget'.skies = budget.skies - 1
          /\ budget.skies \in Nat
      BY <1>0, <2>2 DEF TypeOK
    <3>2. MaxSkyChanges \in Nat /\ budget.skies <= MaxSkyChanges
      BY <1>0, BoundAssumption DEF Bounded
    <3>3. budget'.skies <= MaxSkyChanges
      <4> DEFINE w == budget.skies
      <4>1. w \in Nat /\ w <= MaxSkyChanges /\ (w' = w \/ w' = w - 1)
        BY <3>1, <3>2
      <4> HIDE DEF w
      <4>2. w' <= MaxSkyChanges
        BY <3>2, <4>1
      <4> QED  BY <4>2 DEF w
    <3> QED  BY <1>0, <3>1, <3>3 DEF Spent, Bounded
  <2>4. Resuming' = Resuming
    BY <2>2 DEF Resuming
  <2>5. Spent' \in Int /\ Spent' + Resuming >= Spent + 0 + Resuming' /\ 0 \in {0, 1}
    BY <1>0, <2>3, <2>4
  <2>6. Count'
    BY <2>1, <2>3, <2>5, CountKept DEF Handled
  <2>7. ProcessDown'
    BY <2>2, <2>3 DEF IInv, Work, ProcessDown
  <2> QED  BY <2>1, <2>6, <2>7 DEF Handled, Served, QueuesTyped, Work
<1> QED  BY <1>1, <1>2, <1>3, <1>4, <1>5, <1>6, <1>7, <1>8, <1>9, <1>10 DEF Next, Clients

-----------------------------------------------------------------------------
(* Types.                                                                  *)

TimerRecord == [step : Nat, sky : Nat, park : Nat, date : BOOLEAN]
MountRecord == [park : {"parked", "parking", "unparked", "unparking"},
                pointing : Targets \cup {NoTarget}]

\* What becomes of the session and the calendar has its type.
LEMMA CourseTyped ==
    ASSUME IInv, Next
    PROVE  sched' \in SchedRecord /\ store' \in StoreRecord /\ done' \subseteq Blocks
<1>0. /\ TypeOK /\ sched \in SchedRecord /\ store \in StoreRecord /\ done \subseteq Blocks
      /\ sched.block \in Blocks
  BY QueueUsed DEF TypeOK, SchedRecord
<1>1. CASE Keeps
  BY <1>0, <1>1 DEF Keeps, Rests
<1>2. CASE Counts
  BY <1>0, <1>2 DEF Counts, Rests
<1>3. CASE Advances
  <2>1. PICK s \in SchedRecord :
           /\ sched.active /\ s.block = sched.block /\ s.order = sched.order
           /\ sched' = AdvanceBlock(s, due)
           /\ store' \in StoreRecord /\ done' = done \cup {sched.block}
    BY <1>3 DEF Advances
  <2>2. s.order # <<>> /\ Head(s.order) = s.block
    BY <2>1 DEF IInv, Course, Calendar
  <2> QED  BY <1>0, <2>1, <2>2, AdvanceIs
<1>4. CASE Turns
  BY <1>0, <1>4, DeferIs DEF Turns
<1>5. CASE Begins
  <2> DEFINE first == IF store.next > Len(Plan) THEN 1 ELSE store.next
  <2>1. first \in Blocks
    BY <1>0, PlanIs DEF StoreRecord, Blocks
  <2>2. /\ sched' = Start(sched, first, due) /\ store' = [armed |-> TRUE, next |-> first]
        /\ done' \subseteq done
    BY <1>5 DEF Begins, BeginSession
  <2> HIDE DEF first
  <2>3. store' \in StoreRecord
    BY <2>1, <2>2, PlanIs DEF StoreRecord, Blocks
  <2> QED  BY <1>0, <2>1, <2>2, <2>3, StartIs
<1>6. CASE Forgets
  BY <1>0, <1>6, ReadyIs DEF Forgets
<1> QED  BY <1>1, <1>2, <1>3, <1>4, <1>5, <1>6, CourseOfStep

\* Timers are set and fire, one at a time.
LEMMA TimersTyped ==
    ASSUME IInv, Next
    PROVE  timers' \in TimerRecord
<1>0. timers \in TimerRecord
  BY DEF IInv, TypeOK, TimerRecord
<1>1. ASSUME NEW t \in TimerRecord
      PROVE  /\ StepTimer(t) \in TimerRecord
             /\ [StepTimer(t) EXCEPT !.date = FALSE] \in TimerRecord
             /\ [t EXCEPT !.date = TRUE] \in TimerRecord
             /\ [t EXCEPT !.park = @ + 1] \in TimerRecord
             /\ [t EXCEPT !.sky = @ + 1] \in TimerRecord
             /\ t.step > 0 => [t EXCEPT !.step = @ - 1] \in TimerRecord
             /\ t.sky > 0 => [t EXCEPT !.sky = @ - 1] \in TimerRecord
             /\ t.park > 0 => [t EXCEPT !.park = @ - 1] \in TimerRecord
  <2>1. /\ t.step + 1 \in Nat /\ t.sky + 1 \in Nat /\ t.park + 1 \in Nat
        /\ t.step > 0 => t.step - 1 \in Nat
        /\ t.sky > 0 => t.sky - 1 \in Nat
        /\ t.park > 0 => t.park - 1 \in Nat
    BY DEF TimerRecord
  <2>2. StepTimer(t) \in TimerRecord
    BY <2>1 DEF TimerRecord, StepTimer
  <2> QED  BY <2>1, <2>2 DEF TimerRecord
<1>2. ASSUME NEW s, NEW t \in TimerRecord, Advance(s, t) PROVE timers' \in TimerRecord
  BY <1>1, <1>2 DEF Advance
<1>3. CASE BeginSession
  <2>1. \/ timers' = [timers EXCEPT !.date = TRUE]
        \/ timers' = [StepTimer(timers) EXCEPT !.date = FALSE]
    BY <1>3 DEF BeginSession
  <2> QED  BY <1>0, <1>1, <2>1
<1>4. CASE UNCHANGED timers
  BY <1>0, <1>4
<1>5. CASE StopSession \/ CancelOperation \/ StartLiveView
  BY <1>4, <1>5 DEF StopSession, CancelOperation, StartLiveView
<1>6. CASE StepHandler
  <2>1. timers.step > 0
    BY <1>6 DEF StepHandler, StepIdle, DeferBlock, WaitCamera, WaitUnpark, PrepareBlock, SubmitStep,
                Stepping
  <2>2. Fired \in TimerRecord
    BY <1>0, <1>1, <2>1 DEF Fired
  <2>3. timers' = timers \/ timers' = Fired \/ timers' = [Fired EXCEPT !.sky = @ + 1]
    BY <1>6 DEF StepHandler, StepIdle, DeferBlock, WaitCamera, WaitUnpark, PrepareBlock, SubmitStep
  <2> QED  BY <1>0, <1>1, <2>2, <2>3
<1>7. CASE SkyTimer
  <2> DEFINE t == [timers EXCEPT !.sky = @ - 1]
  <2>1. t \in TimerRecord /\ (timers' = t \/ timers' = StepTimer(t))
    BY <1>0, <1>1, <1>7 DEF SkyTimer
  <2> HIDE DEF t
  <2> QED  BY <1>1, <2>1
<1>8. CASE ParkTimer
  <2> DEFINE t == [timers EXCEPT !.park = @ - 1]
  <2>1. t \in TimerRecord /\ (timers' = t \/ timers' = timers \/ Advance(sched, t))
    BY <1>0, <1>1, <1>8 DEF ParkTimer
  <2> HIDE DEF t
  <2> QED  BY <1>0, <1>2, <2>1
<1>9. CASE DateTimer
  BY <1>0, <1>1, <1>9 DEF DateTimer
<1>10. CASE OperationEnds \/ LiveViewEnds
  BY <1>4, <1>10 DEF OperationEnds, LiveViewEnds
<1>11. ASSUME NEW s, CompleteBlock(s) PROVE timers' \in TimerRecord
  <2>1. timers' = timers \/ timers' = [timers EXCEPT !.park = @ + 1] \/ Advance(s, timers)
    BY <1>11 DEF CompleteBlock
  <2> QED  BY <1>0, <1>1, <1>2, <2>1
<1>12. CASE CaptureDone \/ PlanetarySerDone
  <2>1. timers' = timers \/ timers' = StepTimer(timers) \/ CompleteBlock(MarkFrameCompleted(Cleared))
    BY <1>12 DEF CaptureDone, PlanetarySerDone, AfterPointing, Proceed
  <2> QED  BY <1>0, <1>1, <1>11, <2>1
<1>13. CASE \/ ForeignEvent \/ StepFailed \/ SlewDone \/ RecenterSlewDone \/ SolveDone
            \/ AutofocusDone \/ PlanetarySlewDone \/ PlanetaryAcquireDone
            \/ PlanetaryAutofocusDone \/ PlanetaryCalibrationDone
  <2>1. timers' = timers \/ timers' = StepTimer(timers)
    BY <1>13 DEF ForeignEvent, StepFailed, SlewDone, RecenterSlewDone, SolveDone, AutofocusDone,
                 PlanetarySlewDone, PlanetaryAcquireDone, PlanetaryAutofocusDone,
                 PlanetaryCalibrationDone, AfterPointing, Proceed
  <2> QED  BY <1>0, <1>1, <2>1
<1>14. CASE Crash \/ Shutdown
  <2>1. timers' = [step |-> 0, sky |-> 0, park |-> 0, date |-> FALSE] /\ 0 \in Nat
    BY <1>14 DEF Crash, Shutdown, ProcessEnds
  <2> QED  BY <2>1 DEF TimerRecord
<1>15. CASE Restart \/ DevicesRestored \/ SkyChanges \/ DateComes \/ ParkMotionEnds
  BY <1>4, <1>15 DEF Restart, DevicesRestored, SkyChanges, DateComes, ParkMotionEnds
<1>16. CASE StartSession \/ ResumeTimer
  BY <1>3, <1>4, <1>16 DEF StartSession, ResumeTimer
<1> QED  BY <1>5, <1>6, <1>7, <1>8, <1>9, <1>10, <1>12, <1>13, <1>14, <1>15, <1>16
         DEF Next, Clients, EventHandler

\* The mount is parked, unparked, or moved to a target.
LEMMA MountTyped ==
    ASSUME IInv, Next
    PROVE  mount' \in MountRecord
<1>0. mount \in MountRecord /\ NoTarget \in Targets \cup {NoTarget}
  BY DEF IInv, TypeOK, MountRecord
<1>1. CASE mount' = mount
  BY <1>0, <1>1
<1>2. ASSUME NEW p \in {"parked", "parking", "unparked", "unparking"}, NEW x \in Targets \cup {NoTarget}
      PROVE  [park |-> p, pointing |-> x] \in MountRecord
  BY DEF MountRecord
<1>3. ASSUME NEW p \in {"parked", "parking", "unparked", "unparking"}
      PROVE  [mount EXCEPT !.park = p] \in MountRecord
  BY <1>0 DEF MountRecord
<1>4. ASSUME NEW s, NEW kind, SubmitSlew(s, kind) PROVE mount' \in MountRecord
  BY <1>0, <1>3, <1>4 DEF SubmitSlew
<1>5. ASSUME NEW s, NEW p \in {"parking", "unparking"}, NEW t, ParkMount(s, p, t)
      PROVE  mount' \in MountRecord
  BY <1>0, <1>2, <1>5 DEF ParkMount
<1>6. ASSUME NEW s, CompleteBlock(s) PROVE mount' \in MountRecord
  BY <1>0, <1>5, <1>6 DEF CompleteBlock
<1>7. CASE Clients
  BY <1>1, <1>7 DEF Clients, StartSession, StopSession, CancelOperation, StartLiveView
<1>8. CASE StepHandler
  BY <1>1, <1>4, <1>5, <1>8 DEF StepHandler, StepIdle, DeferBlock, WaitCamera, WaitUnpark, PrepareBlock,
                                SubmitStep
<1>9. CASE SkyTimer \/ ParkTimer \/ DateTimer \/ LiveViewEnds
  BY <1>1, <1>9 DEF SkyTimer, ParkTimer, DateTimer, LiveViewEnds
<1>10. CASE OperationEnds
  <2>1. PICK k \in Running(ops) :
           \/ mount' = mount
           \/ \E x \in {ops[k].target, NoTarget} : mount' = [park |-> "unparked", pointing |-> x]
    BY <1>10 DEF OperationEnds
  <2>2. ops[k].target \in Targets \cup {NoTarget}
    <3>1. ops[k] \in OpRecord
      BY QueueUsed DEF Running
    <3> QED  BY <3>1 DEF OpRecord
  <2> QED  BY <1>0, <1>2, <2>1, <2>2
<1>11. CASE EventHandler
  BY <1>1, <1>4, <1>6, <1>11
     DEF EventHandler, ForeignEvent, StepFailed, SlewDone, RecenterSlewDone, SolveDone, AutofocusDone,
         CaptureDone, PlanetarySlewDone, PlanetaryAcquireDone, PlanetaryAutofocusDone,
         PlanetaryCalibrationDone, PlanetarySerDone
<1>12. CASE Crash \/ Shutdown
  BY <1>0, <1>12 DEF Crash, Shutdown, ProcessEnds, MountRecord
<1>13. CASE Restart \/ ResumeTimer \/ DevicesRestored \/ SkyChanges \/ DateComes
  BY <1>1, <1>13 DEF Restart, ResumeTimer, DevicesRestored, SkyChanges, DateComes
<1>14. CASE ParkMotionEnds
  BY <1>3, <1>14 DEF ParkMotionEnds
<1> QED  BY <1>7, <1>8, <1>9, <1>10, <1>11, <1>12, <1>13, <1>14 DEF Next

\* The flags are flags, and the bounds are spent one by one.
LEMMA OthersTyped ==
    ASSUME IInv, Next
    PROVE  /\ attempt' \in Nat /\ calibrated' \in BOOLEAN
           /\ {up, resumeTimer, devices}' \subseteq BOOLEAN
           /\ visible' \in Skies /\ due' \subseteq Blocks
           /\ lastCommand' \in {"none", "start", "stop"} /\ resumed' \in BOOLEAN
           /\ budget' \in [starts : Nat, crashes : Nat, skies : Nat, lives : Nat]
           /\ shots' \in [Targets -> Nat]
<1>0. TypeOK
  BY DEF IInv
<1>1. attempt' = attempt \/ attempt' = attempt + 1 \/ attempt' = 0
  <2>1. Clients \/ ResumeTimer => attempt' = attempt \/ attempt' = 0
    BY DEF Clients, StartSession, StopSession, CancelOperation, StartLiveView, ResumeTimer,
           BeginSession, session
  <2>2. StepHandler => attempt' = attempt \/ attempt' = 0
    BY DEF StepHandler, StepIdle, DeferBlock, WaitCamera, WaitUnpark, PrepareBlock, SubmitStep, session
  <2>3. EventHandler => attempt' = attempt \/ attempt' = attempt + 1 \/ attempt' = 0
    BY DEF EventHandler, ForeignEvent, StepFailed, SlewDone, RecenterSlewDone, SolveDone,
           AutofocusDone, CaptureDone, PlanetarySlewDone, PlanetaryAcquireDone,
           PlanetaryAutofocusDone, PlanetaryCalibrationDone, PlanetarySerDone, session
  <2>4. SkyTimer \/ ParkTimer \/ DateTimer \/ OperationEnds \/ LiveViewEnds \/ Restart
           \/ DevicesRestored \/ SkyChanges \/ DateComes \/ ParkMotionEnds => attempt' = attempt
    BY DEF SkyTimer, ParkTimer, DateTimer, OperationEnds, LiveViewEnds, Restart, DevicesRestored,
           SkyChanges, DateComes, ParkMotionEnds, session
  <2>5. Crash \/ Shutdown => attempt' = 0
    BY DEF Crash, Shutdown, ProcessEnds
  <2> QED  BY <2>1, <2>2, <2>3, <2>4, <2>5 DEF Next
<1>2. calibrated' \in BOOLEAN
  <2>0. calibrated \in BOOLEAN
    BY <1>0 DEF TypeOK
  <2>1. Clients \/ ResumeTimer => calibrated' \in {calibrated, FALSE}
    BY DEF Clients, StartSession, StopSession, CancelOperation, StartLiveView, ResumeTimer,
           BeginSession, session
  <2>2. StepHandler => \/ calibrated' = calibrated
                       \/ calibrated' = (calibrated /\ Block(sched).mode # "planetary")
    BY DEF StepHandler, StepIdle, DeferBlock, WaitCamera, WaitUnpark, PrepareBlock, SubmitStep, session
  <2>3. EventHandler => calibrated' = calibrated \/ calibrated' = TRUE
    BY DEF EventHandler, ForeignEvent, StepFailed, SlewDone, RecenterSlewDone, SolveDone,
           AutofocusDone, CaptureDone, PlanetarySlewDone, PlanetaryAcquireDone,
           PlanetaryAutofocusDone, PlanetaryCalibrationDone, PlanetarySerDone, session
  <2>4. SkyTimer \/ ParkTimer \/ DateTimer \/ OperationEnds \/ LiveViewEnds \/ Restart
           \/ DevicesRestored \/ SkyChanges \/ DateComes \/ ParkMotionEnds => calibrated' = calibrated
    BY DEF SkyTimer, ParkTimer, DateTimer, OperationEnds, LiveViewEnds, Restart, DevicesRestored,
           SkyChanges, DateComes, ParkMotionEnds, session
  <2>5. Crash \/ Shutdown => calibrated' = FALSE
    BY DEF Crash, Shutdown, ProcessEnds
  <2> QED  BY <2>0, <2>1, <2>2, <2>3, <2>4, <2>5 DEF Next
<1>3. {up, resumeTimer, devices}' \subseteq BOOLEAN
  <2>0. {up, resumeTimer, devices} \subseteq BOOLEAN /\ store.armed \in BOOLEAN /\ NeedDiscovery \in BOOLEAN
    BY <1>0, SwitchAssumption DEF TypeOK
  <2>1. Clients \/ StepHandler => UNCHANGED process
    BY DEF Clients, StartSession, StopSession, CancelOperation, StartLiveView,
           StepHandler, StepIdle, DeferBlock, WaitCamera, WaitUnpark, PrepareBlock, SubmitStep
  <2>2. EventHandler => UNCHANGED process
    BY DEF EventHandler, ForeignEvent, StepFailed, SlewDone, RecenterSlewDone, SolveDone,
           AutofocusDone, CaptureDone, PlanetarySlewDone, PlanetaryAcquireDone,
           PlanetaryAutofocusDone, PlanetaryCalibrationDone, PlanetarySerDone
  <2>3. SkyTimer \/ ParkTimer \/ DateTimer \/ OperationEnds \/ LiveViewEnds
           \/ SkyChanges \/ DateComes \/ ParkMotionEnds => UNCHANGED process
    BY DEF SkyTimer, ParkTimer, DateTimer, OperationEnds, LiveViewEnds, SkyChanges, DateComes,
           ParkMotionEnds
  <2>4. ResumeTimer \/ DevicesRestored \/ Crash \/ Shutdown \/ Restart =>
            /\ up' \in {up, TRUE, FALSE} /\ resumeTimer' \in {resumeTimer, FALSE, store.armed}
            /\ devices' \in {devices, TRUE, FALSE, ~NeedDiscovery}
    BY DEF ResumeTimer, DevicesRestored, Crash, Shutdown, ProcessEnds, Restart
  <2>5. (~NeedDiscovery) \in BOOLEAN
    BY <2>0
  <2>6. UNCHANGED process => {up, resumeTimer, devices}' \subseteq BOOLEAN
    BY <2>0 DEF process
  <2>7. ResumeTimer \/ DevicesRestored \/ Crash \/ Shutdown \/ Restart =>
            {up, resumeTimer, devices}' \subseteq BOOLEAN
    BY <2>0, <2>4, <2>5
  <2> QED  BY <2>1, <2>2, <2>3, <2>6, <2>7 DEF Next
<1>4. visible' \in Skies /\ due' \subseteq Blocks
  <2>0. visible \in Skies /\ due \subseteq Blocks
    BY <1>0 DEF TypeOK
  <2>1. Clients \/ StepHandler => UNCHANGED sky
    BY DEF Clients, StartSession, StopSession, CancelOperation, StartLiveView,
           StepHandler, StepIdle, DeferBlock, WaitCamera, WaitUnpark, PrepareBlock, SubmitStep
  <2>2. EventHandler => UNCHANGED sky
    BY DEF EventHandler, ForeignEvent, StepFailed, SlewDone, RecenterSlewDone, SolveDone,
           AutofocusDone, CaptureDone, PlanetarySlewDone, PlanetaryAcquireDone,
           PlanetaryAutofocusDone, PlanetaryCalibrationDone, PlanetarySerDone
  <2>3. SkyTimer \/ ParkTimer \/ DateTimer \/ OperationEnds \/ LiveViewEnds \/ Crash \/ Shutdown
           \/ Restart \/ ResumeTimer \/ DevicesRestored \/ ParkMotionEnds => UNCHANGED sky
    BY DEF SkyTimer, ParkTimer, DateTimer, OperationEnds, LiveViewEnds, Crash, Shutdown, ProcessEnds,
           Restart, ResumeTimer, DevicesRestored, ParkMotionEnds
  <2>4. SkyChanges \/ DateComes => visible' \in Skies /\ due' \subseteq Blocks
    BY <2>0 DEF SkyChanges, DateComes
  <2> QED  BY <2>0, <2>1, <2>2, <2>3, <2>4 DEF Next, sky
<1>5. /\ lastCommand' \in {"none", "start", "stop"} /\ resumed' \in BOOLEAN
      /\ budget' \in [starts : Nat, crashes : Nat, skies : Nat, lives : Nat]
  <2> DEFINE B == [starts : Nat, crashes : Nat, skies : Nat, lives : Nat]
             Same == UNCHANGED <<lastCommand, resumed, budget>>
  <2>0. lastCommand \in {"none", "start", "stop"} /\ resumed \in BOOLEAN /\ budget \in B
    BY <1>0 DEF TypeOK
  <2>1. /\ budget.starts > 0 => [budget EXCEPT !.starts = @ - 1] \in B
        /\ budget.crashes > 0 => [budget EXCEPT !.crashes = @ - 1] \in B
        /\ budget.skies > 0 => [budget EXCEPT !.skies = @ - 1] \in B
        /\ budget.lives > 0 => [budget EXCEPT !.lives = @ - 1] \in B
    <3>1. /\ budget.starts > 0 => budget.starts - 1 \in Nat
          /\ budget.crashes > 0 => budget.crashes - 1 \in Nat
          /\ budget.skies > 0 => budget.skies - 1 \in Nat
          /\ budget.lives > 0 => budget.lives - 1 \in Nat
      BY <2>0
    <3> QED  BY <2>0, <3>1
  <2> HIDE DEF B
  <2>2. CASE Same
    BY <2>0, <2>2 DEF B
  <2>3. CASE StepHandler \/ SkyTimer \/ ParkTimer \/ DateTimer \/ OperationEnds \/ LiveViewEnds
    BY <2>2, <2>3 DEF StepHandler, StepIdle, DeferBlock, WaitCamera, WaitUnpark, PrepareBlock, SubmitStep,
                      SkyTimer, ParkTimer, DateTimer, OperationEnds, LiveViewEnds, history
  <2>4. CASE EventHandler
    BY <2>2, <2>4
       DEF EventHandler, ForeignEvent, StepFailed, SlewDone, RecenterSlewDone, SolveDone,
           AutofocusDone, CaptureDone, PlanetarySlewDone, PlanetaryAcquireDone,
           PlanetaryAutofocusDone, PlanetaryCalibrationDone, PlanetarySerDone, history
  <2>5. CASE Clients
    BY <2>0, <2>1, <2>5 DEF Clients, StartSession, StopSession, CancelOperation, StartLiveView, history, B
  <2>6. CASE Crash \/ Shutdown \/ Restart \/ ResumeTimer \/ DevicesRestored
    BY <2>0, <2>1, <2>6 DEF Crash, Shutdown, ProcessEnds, Restart, ResumeTimer, DevicesRestored, history, B
  <2>7. CASE SkyChanges \/ DateComes \/ ParkMotionEnds
    BY <2>0, <2>1, <2>7 DEF SkyChanges, DateComes, ParkMotionEnds, history, B
  <2> QED  BY <2>3, <2>4, <2>5, <2>6, <2>7 DEF Next, B
<1>6. shots' \in [Targets -> Nat]
  <2>0. shots \in [Targets -> Nat]
    BY <1>0 DEF TypeOK
  <2>1. Crash \/ Shutdown \/ Restart \/ DevicesRestored \/ SkyChanges \/ DateComes \/ ParkMotionEnds
           \/ SkyTimer \/ ParkTimer \/ DateTimer \/ LiveViewEnds \/ StepHandler => shots' = shots
    BY DEF Crash, Shutdown, ProcessEnds, Restart, DevicesRestored, SkyChanges, DateComes,
           ParkMotionEnds, SkyTimer, ParkTimer, DateTimer, LiveViewEnds,
           StepHandler, StepIdle, DeferBlock, WaitCamera, WaitUnpark, PrepareBlock, SubmitStep, history
  <2>2. EventHandler => shots' = shots
    BY DEF EventHandler, ForeignEvent, StepFailed, SlewDone, RecenterSlewDone, SolveDone,
           AutofocusDone, CaptureDone, PlanetarySlewDone, PlanetaryAcquireDone,
           PlanetaryAutofocusDone, PlanetaryCalibrationDone, PlanetarySerDone, history
  <2>3. BeginSession => shots' \in [Targets -> Nat]
    BY <2>0 DEF BeginSession
  <2>4. Clients \/ ResumeTimer => shots' = shots \/ BeginSession
    BY DEF Clients, StartSession, StopSession, CancelOperation, StartLiveView, ResumeTimer, history
  <2>5. ASSUME NEW t \in Targets \cup {NoTarget} PROVE [shots EXCEPT ![t] = @ + 1] \in [Targets -> Nat]
    <3>1. CASE t \in Targets
      <4>1. shots[t] + 1 \in Nat
        BY <2>0, <3>1
      <4> QED  BY <2>0, <3>1, <4>1
    <3>2. CASE t \notin Targets
      BY <2>0, <3>2
    <3> QED  BY <3>1, <3>2
  <2>6. ASSUME OperationEnds PROVE shots' \in [Targets -> Nat]
    <3>1. PICK k \in Running(ops) : shots' = shots \/ shots' = [shots EXCEPT ![ops[k].target] = @ + 1]
      BY <2>6 DEF OperationEnds
    <3>2. ops[k] \in OpRecord
      BY QueueUsed DEF Running
    <3> DEFINE t == ops[k].target
    <3>3. t \in Targets \cup {NoTarget}
      BY <3>2 DEF OpRecord
    <3>4. [shots EXCEPT ![t] = @ + 1] \in [Targets -> Nat]
      <4> HIDE DEF t
      <4> QED  BY <2>5, <3>3
    <3> QED  BY <2>0, <3>1, <3>4
  <2> DEFINE Kept == shots' \in [Targets -> Nat]
             Still == \/ Crash \/ Shutdown \/ Restart \/ DevicesRestored \/ SkyChanges \/ DateComes
                      \/ ParkMotionEnds \/ SkyTimer \/ ParkTimer \/ DateTimer \/ LiveViewEnds
                      \/ StepHandler \/ EventHandler
  <2>7. CASE Still
    BY <2>0, <2>1, <2>2, <2>7
  <2>8. CASE Clients \/ ResumeTimer
    BY <2>0, <2>3, <2>4, <2>8
  <2>9. CASE OperationEnds
    BY <2>6, <2>9
  <2> QED  BY <2>7, <2>8, <2>9 DEF Next
<1>7. attempt' \in Nat
  <2>1. attempt \in Nat
    BY <1>0 DEF TypeOK
  <2> QED  BY <2>1, <1>1
<1> QED  BY <1>2, <1>3, <1>4, <1>5, <1>6, <1>7

\* Every step keeps the types.
LEMMA TypeStep ==
    ASSUME IInv, Next
    PROVE  TypeOK'
<1>1. ops' \in Seq(OpRecord) /\ events' \in Seq(EventRecord)
  BY WorkStep DEF QueuesTyped
<1>2. /\ sched' \in SchedRecord /\ store' \in StoreRecord /\ done' \subseteq Blocks
      /\ timers' \in TimerRecord /\ mount' \in MountRecord
  BY CourseTyped, TimersTyped, MountTyped
<1> QED  BY <1>1, <1>2, OthersTyped
         DEF TypeOK, SchedRecord, StoreRecord, TimerRecord, MountRecord, OpRecord, EventRecord

-----------------------------------------------------------------------------
(* The theorems.                                                           *)

\* A new process, with nothing persisted, satisfies the invariant.
LEMMA InitInv == Init => IInv
<1> SUFFICES ASSUME Init PROVE IInv
  OBVIOUS
<1>1. Ready \in SchedRecord /\ ~Ready.active /\ Ready.op = NoOp
  BY ReadyIs
<1>2. /\ sched = Ready /\ ops = <<>> /\ events = <<>> /\ up = TRUE /\ resumeTimer = FALSE
      /\ store = [armed |-> FALSE, next |-> 1] /\ done = {} /\ attempt = 0
      /\ budget = [starts |-> MaxStarts, crashes |-> MaxCrashes,
                   skies |-> MaxSkyChanges, lives |-> MaxLiveViews]
  BY DEF Init
<1>3. TypeOK
  <2>1. store \in [armed : BOOLEAN, next : 1 .. Len(Plan) + 1]
    BY <1>2, PlanIs
  <2>2. timers \in [step : Nat, sky : Nat, park : Nat, date : BOOLEAN]
    BY DEF Init
  <2>3. mount \in MountRecord
    BY DEF Init, MountRecord
  <2>4. shots \in [Targets -> Nat]
    BY DEF Init
  <2>5. budget \in [starts : Nat, crashes : Nat, skies : Nat, lives : Nat]
    BY <1>2, BoundAssumption
  <2>6. /\ sched \in SchedRecord /\ ops \in Seq(OpRecord) /\ events \in Seq(EventRecord)
    BY <1>1, <1>2
  <2>7. /\ attempt \in Nat /\ calibrated \in BOOLEAN /\ {up, resumeTimer, devices} \subseteq BOOLEAN
        /\ visible \in Skies /\ due \subseteq Blocks /\ done \subseteq Blocks
        /\ lastCommand \in {"none", "start", "stop"} /\ resumed \in BOOLEAN
    BY DEF Init
  <2> QED  BY <2>1, <2>2, <2>3, <2>4, <2>5, <2>6, <2>7
           DEF TypeOK, SchedRecord, MountRecord, OpRecord, EventRecord
<1>4. Course
  <2>1. Straight
    BY <1>1, <1>2, PlanIs DEF Straight, Blocks
  <2>2. NeverSkips
    BY <1>2, PlanIs DEF NeverSkips, Blocks
  <2> QED  BY <1>1, <1>2, <2>1, <2>2 DEF Course, Frames, Calendar
<1>5. Work
  <2>1. Linked
    BY <1>1, <1>2 DEF Linked, Link, Proper, ExclusiveIn, Running
  <2>2. Count
    <3>1. Used = 0
      BY <1>1, <1>2 DEF Used
    <3>2. Spent = 0 /\ Bounded
      BY <1>2, BoundAssumption DEF Spent, Bounded
    <3> QED  BY <3>1, <3>2 DEF Count, Spent, Bounded
  <2> QED  BY <1>1, <1>2, <2>1, <2>2 DEF Work, ProcessDown, SessionSteps, OpsDated, Dated
<1>6. NoStall /\ PlanetaryMode /\ Aim
  BY <1>1, <1>2 DEF NoStall, PlanetaryMode, Aim
<1> QED  BY <1>3, <1>4, <1>5, <1>6 DEF IInv

\* Every step keeps it.
LEMMA StepInv == IInv /\ [Next]_vars => IInv'
<1> SUFFICES ASSUME IInv, [Next]_vars PROVE IInv'
  OBVIOUS
<1>1. CASE Next
  BY <1>1, CourseStep, WorkStep, TypeStep, DrivenIs DEF IInv, Work
<1>2. CASE UNCHANGED vars
  <2>1. TypeOK'
    BY <1>2, SMTT(60) DEF IInv, TypeOK, vars, session, process, sky, history
  <2>2. Course'
    BY <1>2 DEF IInv, Course, Frames, Calendar, Straight, NeverHidden, NeverSkips, Pending,
                vars, session, process, sky, history
  <2>3. Work'
    BY <1>2 DEF IInv, Work, ProcessDown, SessionSteps, Linked, OpsDated, Count, Used,
                vars, session, process, sky, history
  <2>4. NoStall' /\ PlanetaryMode' /\ Aim'
    BY <1>2 DEF IInv, NoStall, PlanetaryMode, Aim, OnTarget, Target, Block,
                vars, session, process, sky, history
  <2> QED  BY <2>1, <2>2, <2>3, <2>4 DEF IInv
<1> QED  BY <1>1, <1>2

\* The invariant holds, for every plan, every sky and every bound.
THEOREM InvHolds == Spec => []IInv
BY InitInv, StepInv, PTL DEF Spec

\* An operation that was not asked to end is the active session's own, for the
\* target of its current block.
LEMMA OwnOperation ==
    ASSUME IInv, NEW k \in SessionOps, ~ops[k].cancel
    PROVE  /\ sched.active /\ sched.op = ops[k].id /\ sched.op # NoOp
           /\ ops[k].kind = sched.step /\ ops[k].target = Target(sched)
           /\ ops[k].target[1] = sched.block
           /\ \A j \in DOMAIN events : events[j].id # sched.op
<1>1. k \in DOMAIN ops /\ ops[k].kind # "live-view"
  BY DEF SessionOps
<1>2. /\ ops[k].id = sched.op
      /\ ops[k].id = sched.op => ops[k].kind = sched.step /\ ops[k].target = Target(sched)
      /\ \A j \in DOMAIN events : ops[k].id # events[j].id
  BY <1>1, QueueUsed DEF Link
<1>3. sched.op # NoOp
  BY <1>1, <1>2, QueueUsed, IdsAre
<1> QED  BY <1>2, <1>3, QueueUsed DEF IInv, Work, SessionSteps

\* The persisted calendar skips no block, and while nothing was ever hidden it
\* takes none up again, over stops, crashes and restarts.
THEOREM CalendarKept == Spec => []CalendarInv
<1>1. IInv => CalendarInv
  <2> SUFFICES ASSUME IInv PROVE CalendarInv
    OBVIOUS
  <2>1. NoReplay
    <3> SUFFICES ASSUME NeverHidden, NEW k \in SessionOps, ~ops[k].cancel
                 PROVE  ops[k].target[1] \notin done
      BY DEF NoReplay, NeverHidden
    <3>1. sched.active /\ ops[k].target[1] = sched.block
      BY OwnOperation
    <3>2. done = {b \in Blocks : b < store.next} /\ sched.block = store.next
      BY <3>1 DEF IInv, Course, Straight
    <3>3. sched.block \in Nat
      BY PlanIs DEF IInv, TypeOK
    <3> QED  BY <3>1, <3>2, <3>3
  <2> QED  BY <2>1 DEF IInv, Course, CalendarInv
<1> QED  BY <1>1, InvHolds, PTL

\* No session is left with nothing pending that would drive it on.
THEOREM SessionDriven == Spec => []NoStall
<1>1. IInv => NoStall
  BY DEF IInv
<1> QED  BY <1>1, InvHolds, PTL

\* No operation of a session outlives it unasked.
THEOREM NoneOrphaned == Spec => []NoOrphanOperation
<1>1. IInv => NoOrphanOperation
  BY OwnOperation DEF NoOrphanOperation
<1> QED  BY <1>1, InvHolds, PTL

\* The camera works only while the mount rests on the operation's target.
THEOREM CameraOnTarget == Spec => []PointedAtTarget
<1>1. IInv => PointedAtTarget
  <2> SUFFICES ASSUME IInv, NEW k \in SessionOps, ops[k].st = "running", ~ops[k].cancel,
                      ops[k].kind \in CameraKinds
               PROVE  /\ mount.park = "unparked" /\ mount.pointing = ops[k].target
                      /\ \A j \in Running(ops) : ops[j].kind \notin SlewKinds
    BY DEF PointedAtTarget
  <2>1. /\ sched.active /\ sched.op = ops[k].id
        /\ ops[k].kind = sched.step /\ ops[k].target = Target(sched)
        /\ \A j \in DOMAIN events : events[j].id # sched.op
    BY OwnOperation
  <2>2. sched.step \in AtTarget /\ sched.step \notin SlewKinds
    BY <2>1 DEF CameraKinds, SlewKinds, AtTarget, PlanetarySteps
  <2>3. OnTarget
    BY <2>1, <2>2 DEF IInv, Aim
  <2>4. ASSUME NEW j \in Running(ops), ops[j].kind \in SlewKinds PROVE FALSE
    <3>1. j \in DOMAIN ops /\ k \in DOMAIN ops /\ ops[j].kind \in MountMovers
      BY <2>4 DEF Running, SessionOps, MountMovers
    <3>2. ops[j].id = ops[k].id
      BY <2>1, <2>3, <3>1 DEF OnTarget
    <3>3. j = k
      BY <3>1, <3>2, QueueUsed DEF Proper
    <3> QED  BY <2>1, <2>2, <2>4, <3>3
  <2> QED  BY <2>1, <2>3, <2>4 DEF OnTarget
<1> QED  BY <1>1, InvHolds, PTL

\* No block is worked on before its date.
THEOREM NoneEarly == Spec => []NeverEarly
<1>1. IInv => NeverEarly
  BY DEF IInv, Work, OpsDated, Dated, NeverEarly, SessionOps
<1> QED  BY <1>1, InvHolds, PTL

-----------------------------------------------------------------------------
(* Frames and targets.                                                     *)

\* How many of the first n frames of block b are of its tile j.
Shot(b, j, n) ==
    LET rest == n - (j - 1) * Plan[b].frames
    IN  IF rest <= 0 THEN 0 ELSE IF rest >= Plan[b].frames THEN Plan[b].frames ELSE rest

\* The science frame the session waits for is taken, its update not delivered.
Exposed ==
    /\ sched.op # NoOp /\ sched.step \in ScienceKinds
    /\ \E k \in DOMAIN events : events[k].id = sched.op /\ events[k].result = "succeeded"

\* The frames taken of block b.
TakenOf(b) == sched.progress[b] + (IF b = sched.block /\ Exposed THEN 1 ELSE 0)

\* The frames of a block that is not done were taken of its tiles in turn, and a
\* block is parked after with all of them.
ShotsKept ==
    sched.active =>
       /\ \A b \in Blocks \ done : \A j \in Tiles(b) : shots[<<b, j>>] = Shot(b, j, TakenOf(b))
       /\ sched.step = "park-after-block" => sched.frames = FrameTarget(sched.block)

\* No frame is none of any tile, and all frames are all of each.
LEMMA ShotEnds ==
    ASSUME NEW b \in Blocks, NEW j \in Tiles(b)
    PROVE  Shot(b, j, 0) = 0 /\ Shot(b, j, FrameTarget(b)) = Plan[b].frames
<1> DEFINE f == Plan[b].frames
           c == Cardinality(Tiles(b))
<1>1. /\ f \in Nat /\ f > 0 /\ c \in Nat /\ c > 0 /\ j \in 1 .. c /\ FrameTarget(b) = f * c
  BY PlanIs, TilesAre DEF FrameTarget
<1>2. Shot(b, j, 0) = IF 0 - (j - 1) * f <= 0 THEN 0 ELSE IF 0 - (j - 1) * f >= f THEN f ELSE 0 - (j - 1) * f
  BY DEF Shot
<1>3. /\ Shot(b, j, FrameTarget(b)) = IF f * c - (j - 1) * f <= 0 THEN 0
                                     ELSE IF f * c - (j - 1) * f >= f THEN f ELSE f * c - (j - 1) * f
  BY <1>1 DEF Shot
<1> HIDE DEF f, c
<1>4. (j - 1) * f >= 0
  BY <1>1
<1>5. PICK r \in Nat : c = j + r
  <2>1. c - j \in Nat /\ c = j + (c - j)
    BY <1>1
  <2> QED  BY <2>1
<1>6. f * c - (j - 1) * f = f + r * f /\ r * f >= 0
  BY <1>1, <1>5
<1>7. r * f \in Nat
  BY <1>1, <1>5
<1>8. Shot(b, j, FrameTarget(b)) = f
  BY <1>1, <1>3, <1>6, <1>7
<1>9. Shot(b, j, 0) = 0
  BY <1>1, <1>2, <1>4
<1> QED  BY <1>8, <1>9 DEF f

\* The next frame of an unfinished block is one of the tile it points at, and of
\* no other.
LEMMA ShotNext ==
    ASSUME sched \in SchedRecord, sched.frames < FrameTarget(sched.block)
    PROVE  LET b == sched.block IN
           /\ Target(sched) \in Targets
           /\ \E i \in Tiles(b) :
                 /\ Target(sched) = <<b, i>>
                 /\ \A j \in Tiles(b) :
                       Shot(b, j, sched.frames + 1)
                          = IF j = i THEN Shot(b, j, sched.frames) + 1 ELSE Shot(b, j, sched.frames)
<1> DEFINE b == sched.block
           n == sched.frames
           f == Plan[b].frames
           c == Cardinality(Tiles(b))
           i == n \div f + 1
<1>1. b \in Blocks /\ n \in Nat
  BY DEF SchedRecord
<1>2. /\ f \in Nat /\ f > 0 /\ c \in Nat /\ c > 0 /\ Tiles(b) = 1 .. c /\ FrameTarget(b) = f * c
      /\ Plan[b].mode # "mosaic" => Tiles(b) = {1}
  BY <1>1, PlanIs, TilesAre DEF FrameTarget
<1>3. Target(sched) = <<b, IF Plan[b].mode = "mosaic" THEN i ELSE 1>>
  <2>1. n < f * c
    BY <1>2
  <2>2. ~(n >= f * c)
    <3> HIDE DEF n, f, c
    <3> QED  BY <1>1, <1>2, <2>1
  <2> QED  BY <1>2, <2>2 DEF Target, Block, Tile
<1>4. n < f * c
  BY <1>2
<1>5. \A j \in 1 .. c, m \in Nat :
         Shot(b, j, m) = IF m - (j - 1) * f <= 0 THEN 0
                         ELSE IF m - (j - 1) * f >= f THEN f ELSE m - (j - 1) * f
  BY DEF Shot
<1>6. c = 1 \/ Plan[b].mode = "mosaic"
  <2>1. CASE Tiles(b) = {1}
    <3>1. c = 1
      BY <2>1, FS_Singleton
    <3> QED  BY <3>1
  <2> QED  BY <1>2, <2>1
<1>7. i \in 1 .. c /\ (c = 1 => i = 1) /\ i - 1 \in Nat /\ n - (i - 1) * f \in 0 .. f - 1
  <2> DEFINE q == n \div f
             r == n % f
  <2> HIDE DEF n, f, c
  <2>1. q \in Nat /\ r \in 0 .. f - 1 /\ n = f * q + r
    BY <1>1, <1>2
  <2> HIDE DEF q, r
  <2>2. q < c
    <3> SUFFICES ASSUME q >= c PROVE FALSE
      BY <1>2, <2>1
    <3>1. f * q >= f * c
      BY <1>2, <2>1
    <3>2. f * q \in Nat /\ f * c \in Nat
      BY <1>2, <2>1
    <3> QED  BY <1>4, <2>1, <3>1, <3>2
  <2>3. i = q + 1
    BY DEF q
  <2>4. (i - 1) * f = f * q
    BY <1>2, <2>1, <2>3
  <2>5. f * q \in Nat
    BY <1>2, <2>1
  <2> HIDE DEF i
  <2>6. n - (i - 1) * f = r
    BY <2>1, <2>4, <2>5
  <2> QED  BY <1>2, <2>1, <2>2, <2>3, <2>6
<1>8. Target(sched) = <<b, i>> /\ i \in Tiles(b)
  BY <1>2, <1>3, <1>6, <1>7
<1>9. ASSUME NEW j \in 1 .. c
      PROVE  Shot(b, j, n + 1) = IF j = i THEN Shot(b, j, n) + 1 ELSE Shot(b, j, n)
  <2> DEFINE s == n - (i - 1) * f
             d == n - (j - 1) * f
  <2>1. /\ Shot(b, j, n) = IF d <= 0 THEN 0 ELSE IF d >= f THEN f ELSE d
        /\ Shot(b, j, n + 1) = IF (n + 1) - (j - 1) * f <= 0 THEN 0
                               ELSE IF (n + 1) - (j - 1) * f >= f THEN f ELSE (n + 1) - (j - 1) * f
    <3>1. Shot(b, j, n) = IF n - (j - 1) * f <= 0 THEN 0
                          ELSE IF n - (j - 1) * f >= f THEN f ELSE n - (j - 1) * f
      BY DEF Shot
    <3>2. Shot(b, j, n + 1) = IF (n + 1) - (j - 1) * f <= 0 THEN 0
                              ELSE IF (n + 1) - (j - 1) * f >= f THEN f ELSE (n + 1) - (j - 1) * f
      BY DEF Shot
    <3> QED  BY <3>1, <3>2
  <2> HIDE DEF n, f, c, i
  <2>2. (j - 1) * f \in Nat /\ (i - 1) * f \in Nat
    BY <1>2, <1>7
  <2>3. (n + 1) - (j - 1) * f = d + 1 /\ d \in Int /\ s \in 0 .. f - 1
    BY <1>1, <1>7, <2>2
  <2>4. d = s + (i - j) * f
    <3>1. (i - 1) * f - (j - 1) * f = (i - j) * f
      BY <1>2, <1>7
    <3>2. (i - j) * f \in Int
      BY <1>2, <1>7
    <3> QED  BY <1>1, <2>2, <3>1, <3>2
  <2>5. /\ j = i => d = s
        /\ j < i => d >= f
        /\ j > i => d <= -1
    <3>1. j = i => (i - j) * f = 0
      BY <1>2, <1>7
    <3>2. j < i => (i - j) * f >= f
      <4> SUFFICES ASSUME j < i PROVE (i - j) * f >= f
        OBVIOUS
      <4>1. PICK k \in Nat : i - j = k + 1
        <5>1. i - j - 1 \in Nat /\ i - j = (i - j - 1) + 1
          BY <1>7
        <5> QED  BY <5>1
      <4>2. (i - j) * f = k * f + f /\ k * f \in Nat
        BY <1>2, <4>1
      <4> QED  BY <1>2, <4>2
    <3>3. j > i => (i - j) * f <= 0 - f
      <4> SUFFICES ASSUME j > i PROVE (i - j) * f <= 0 - f
        OBVIOUS
      <4>1. PICK k \in Nat : i - j = 0 - (k + 1)
        <5>1. j - i - 1 \in Nat /\ i - j = 0 - ((j - i - 1) + 1)
          BY <1>7
        <5> QED  BY <5>1
      <4>2. (i - j) * f = 0 - (k * f + f) /\ k * f \in Nat
        BY <1>2, <4>1
      <4> QED  BY <1>2, <4>2
    <3>4. (i - j) * f \in Int
      BY <1>2, <1>7
    <3> HIDE DEF s, d
    <3> QED  BY <1>2, <1>7, <2>3, <2>4, <3>1, <3>2, <3>3, <3>4
  <2> HIDE DEF s, d
  <2> QED  BY <1>2, <1>7, <2>1, <2>3, <2>5
<1>10. Target(sched) \in Targets
  BY <1>1, TargetIs
<1> HIDE DEF i
<1>11. \A j \in Tiles(b) : Shot(b, j, n + 1) = IF j = i THEN Shot(b, j, n) + 1 ELSE Shot(b, j, n)
  BY <1>2, <1>9
<1> QED  BY <1>8, <1>10, <1>11

-----------------------------------------------------------------------------
(* What a step does to the frames taken.                                   *)

\* No frame is taken, and those that were are counted once.
Steady ==
    /\ shots' = shots /\ done' = done
    /\ sched'.active =>
          /\ sched.active
          /\ \A b \in Blocks : TakenOf(b)' = TakenOf(b)
          /\ sched'.step = "park-after-block" => sched'.frames = FrameTarget(sched'.block)

\* The session's operation ends with one more frame of its target.
Exposes ==
    /\ sched' = sched /\ done' = done /\ sched.active /\ sched.step \in ScienceKinds
    /\ \A b \in Blocks : TakenOf(b) = sched.progress[b]
    /\ \A b \in Blocks : TakenOf(b)' = sched.progress[b] + (IF b = sched.block THEN 1 ELSE 0)
    /\ shots' = [shots EXCEPT ![Target(sched)] = @ + 1]

\* The current block is done with all its frames.
Finishes ==
    /\ shots' = shots /\ done' = done \cup {sched.block}
    /\ sched.active /\ TakenOf(sched.block) = FrameTarget(sched.block)
    /\ sched'.active =>
          /\ \A b \in Blocks \ {sched.block} : TakenOf(b)' = TakenOf(b)
          /\ sched'.step # "park-after-block"

\* The updates still to be delivered are some of those there were.
OldNews == \A k \in DOMAIN events' : \E j \in DOMAIN events : events'[k] = events[j]

\* In p every frame that was taken is counted.
Settled(p) ==
    /\ p \in SchedRecord /\ p.active = sched.active /\ p.block = sched.block
    /\ \A b \in Blocks : p.progress[b] = TakenOf(b)

\* A session without an operation waits for no frame.
LEMMA Unexposed ==
    ASSUME IInv, sched.op = NoOp \/ sched.step \notin ScienceKinds
    PROVE  ~Exposed /\ Settled(sched) /\ Settled(Cleared)
<1>1. ~Exposed
  BY DEF Exposed
<1>2. \A b \in Blocks : TakenOf(b) = sched.progress[b]
  <2>1. \A b \in Blocks : sched.progress[b] \in Nat
    BY QueueUsed DEF SchedRecord
  <2> QED  BY <1>1, <2>1 DEF TakenOf
<1>3. Cleared \in SchedRecord /\ SameCourse(Cleared, sched) /\ Cleared.active = sched.active
  BY QueueUsed, TypesUsed
<1> QED  BY <1>1, <1>2, <1>3, QueueUsed DEF Settled, SameCourse

\* The update that is delivered tells whether it was.
LEMMA OwnFrame ==
    ASSUME IInv, OwnEvent
    PROVE  /\ Exposed <=> sched.step \in ScienceKinds /\ Head(events).result = "succeeded"
           /\ Exposed => Settled(Counted)
           /\ OldNews
<1>1. /\ events # <<>> /\ Head(events).id = sched.op /\ sched.op # NoOp /\ events' = Tail(events)
  BY DEF OwnEvent
<1>2. /\ 1 \in DOMAIN events /\ events[1] = Head(events)
      /\ \A k \in DOMAIN Tail(events) : k + 1 \in DOMAIN events /\ Tail(events)[k] = events[k + 1]
  BY <1>1, QueueUsed, TailIs
<1>3. \A k \in DOMAIN events : events[k].id = sched.op => k = 1
  BY <1>1, <1>2, QueueUsed DEF Link
<1>4. Exposed <=> sched.step \in ScienceKinds /\ Head(events).result = "succeeded"
  BY <1>1, <1>2, <1>3 DEF Exposed
<1>5. ASSUME Exposed PROVE Settled(Counted)
  <2>1. /\ Counted \in SchedRecord /\ Counted.block = sched.block /\ Counted.active = sched.active
        /\ Counted.progress = [sched.progress EXCEPT ![sched.block] = sched.frames + 1]
    BY QueueUsed, CountedIs
  <2>2. sched.progress \in [Blocks -> Nat] /\ sched.block \in Blocks
    BY QueueUsed DEF SchedRecord
  <2>3. sched.progress[sched.block] = sched.frames
    BY OwnEventIs DEF IInv, Course, Frames
  <2>4. ASSUME NEW b \in Blocks PROVE Counted.progress[b] = TakenOf(b)
    BY <1>5, <2>1, <2>2, <2>3 DEF TakenOf
  <2> QED  BY <2>1, <2>4 DEF Settled
<1>6. OldNews
  BY <1>1, <1>2 DEF OldNews
<1> QED  BY <1>4, <1>5, <1>6

\* A new operation has no update yet.
LEMMA FreshFrame ==
    ASSUME IInv, OldNews, sched'.op \in {NoOp, FreeId}
    PROVE  ~Exposed'
<1>1. \A k \in DOMAIN events : events[k].id # FreeId
  BY QueueUsed, FreeIdIsFree
<1> QED  BY <1>1 DEF OldNews, Exposed

\* The session goes on in its block, or in another one, with every frame counted.
LEMMA GoesOn ==
    ASSUME IInv, OldNews, NEW p, Settled(p), sched'.progress = p.progress,
           sched'.op \in {NoOp, FreeId}, sched'.active => sched.active,
           sched'.active => sched'.step # "park-after-block",
           shots' = shots, done' = done
    PROVE  Steady
<1>1. ~Exposed'
  BY FreshFrame
<1>2. \A b \in Blocks : p.progress[b] \in Nat
  BY DEF Settled, SchedRecord
<1>3. \A b \in Blocks : TakenOf(b)' = TakenOf(b)
  BY <1>1, <1>2 DEF TakenOf, Settled
<1> QED  BY <1>3 DEF Steady

\* It is where it was.
LEMMA StaysSteady ==
    ASSUME IInv, ShotsKept, sched' = sched, events' = events, shots' = shots, done' = done
    PROVE  Steady
<1>1. \A b \in Blocks : TakenOf(b)' = TakenOf(b)
  BY DEF TakenOf, Exposed
<1> QED  BY <1>1 DEF Steady, ShotsKept

\* It is over.
LEMMA OverSteady ==
    ASSUME ~sched'.active, shots' = shots, done' = done
    PROVE  Steady
BY DEF Steady

\* It fails.
LEMMA FailSteady ==
    ASSUME IInv, NEW p \in SchedRecord, NEW r \in Reasons, Publish(Fail(p, r)),
           shots' = shots, done' = done
    PROVE  Steady
BY QueueUsed, FailOver, OverSteady

\* It takes another step.
LEMMA StepSteady ==
    ASSUME IInv, OldNews, NEW p, Settled(p), NEW t \in Steps \ {"park-after-block"},
           Publish(SetStep(p, t, NoOp)), shots' = shots, done' = done
    PROVE  Steady
<1>1. p \in SchedRecord /\ store \in StoreRecord /\ NoOp \in OpIds \cup {NoOp} /\ p.active = sched.active
  BY QueueUsed DEF Settled
<1>2. Rests(p) /\ sched'.active = p.active /\ sched'.step = t /\ sched'.op = NoOp
  BY <1>1, StepRests
<1> QED  BY <1>1, <1>2, GoesOn DEF Rests, SameCourse

\* It submits an operation.
LEMMA SubmitSteady ==
    ASSUME IInv, OldNews, NEW p, Settled(p), NEW kind \in OpKinds, Submit(p, kind),
           shots' = shots, done' = done
    PROVE  Steady
<1>1. p \in SchedRecord /\ store \in StoreRecord /\ RoomForOne /\ p.active = sched.active
      /\ kind # "park-after-block"
  BY QueueUsed, KindIs DEF Settled
<1>2. Rests(p) /\ sched'.active = p.active /\ sched'.step = kind /\ sched'.op = FreeId
  BY <1>1, SubmitRests
<1> QED  BY <1>1, <1>2, GoesOn DEF Rests, SameCourse

\* It slews, or fails.
LEMMA SlewSteady ==
    ASSUME IInv, OldNews, NEW p, Settled(p), NEW kind \in SlewKinds, SubmitSlew(p, kind),
           shots' = shots, done' = done
    PROVE  Steady
<1>1. p \in SchedRecord /\ kind \in OpKinds
  BY DEF Settled, OpKinds
<1>2. {"no mount connected", "goto rejected", "unpark failed"} \subseteq Reasons
  BY DEF Reasons
<1>3. \/ Submit(p, kind)
      \/ \E r \in Reasons : Publish(Fail(p, r))
  BY <1>2 DEF SubmitSlew
<1> QED  BY <1>1, <1>3, SubmitSteady, FailSteady

\* A client begins a session, or takes no frame.
LEMMA ShotsOfClients ==
    ASSUME IInv, ShotsKept, Clients
    PROVE  Steady \/ Begins
<1>1. CASE StartSession
  BY <1>1 DEF StartSession, Begins
<1>2. CASE StopSession
  <2>1. "Stopped by operator" \in Reasons /\ UNCHANGED <<shots, done>>
    BY <1>2 DEF StopSession, Reasons
  <2>2. ~Stop(sched, "Stopped by operator").active
    BY <2>1, QueueUsed, EndIs
  <2> QED  BY <1>2, <2>1, <2>2, OverSteady DEF StopSession
<1>3. CASE CancelOperation
  <2>1. /\ "cancelled" \in Reasons /\ UNCHANGED <<events, shots, done>>
        /\ Publish(Fail(sched, "cancelled")) \/ Publish(sched)
    BY <1>3 DEF CancelOperation, history, Reasons
  <2>2. CASE Publish(Fail(sched, "cancelled"))
    BY <2>1, <2>2, QueueUsed, FailSteady
  <2>3. CASE Publish(sched)
    BY <2>1, <2>3, StaysSteady DEF Publish
  <2> QED  BY <2>1, <2>2, <2>3
<1>4. CASE StartLiveView
  BY <1>4, StaysSteady DEF StartLiveView, session
<1> QED  BY <1>1, <1>2, <1>3, <1>4 DEF Clients

\* A step that is run takes none.
LEMMA ShotsOfStepHandler ==
    ASSUME IInv, ShotsKept, StepHandler
    PROVE  Steady
<1>0. /\ OldNews /\ UNCHANGED <<shots, done>>
      /\ {"mount status failed", "park failed", "not started"} \subseteq Reasons
      /\ sched \in SchedRecord /\ NoOp \in OpIds \cup {NoOp}
  <2>1. UNCHANGED <<events, shots, done>>
    BY DEF StepHandler, StepIdle, DeferBlock, WaitCamera, WaitUnpark, PrepareBlock, SubmitStep, history
  <2> QED  BY <2>1, QueueUsed DEF OldNews, Reasons
<1>1. CASE StepIdle
  BY <1>1, StaysSteady DEF StepIdle, session, history
<1>2. ASSUME NEW t \in Submissions \cup {"waiting-camera", "unpark-before-block", "prepare-block"},
             Stepping(t)
      PROVE  Settled(sched) /\ sched.step = t /\ t # "park-after-block" /\ sched.active
             /\ t \in Steps \ {"park-after-block"}
  <2>1. sched.step = t /\ sched.active
    BY <1>2 DEF Stepping
  <2>2. t \notin OpKinds
    BY KindsOfStep DEF Preparing
  <2>3. sched.op = NoOp
    BY <2>1, <2>2, QueueUsed
  <2> QED  BY <2>1, <2>3, Unexposed, KindIs
<1>3. CASE DeferBlock
  <2>1. Settled(sched)
    BY <1>2, <1>3, KindsOfStep DEF DeferBlock
  <2>3. CASE Turns
    <3>1. PICK k \in 1 .. Len(sched.order) - 1 : sched' = DeferBlocks(sched, k, due)
      BY <2>3 DEF Turns
    <3> DEFINE p == DeferBlocks(sched, k, due)
    <3>2. /\ p.op = NoOp /\ p.progress = sched.progress /\ p.active = sched.active
          /\ p.block \in due => p.step = "prepare-block"
          /\ p.block \notin due => p.step = "waiting-block-start"
      BY <1>0, DeferIs, ZenonT(60)
    <3> HIDE DEF p
    <3>3. sched' = p
      BY <3>1 DEF p
    <3> QED  BY <1>0, <2>1, <3>2, <3>3, GoesOn
  <2>4. CASE Publish(SetStep(sched, "waiting-observable-sky", NoOp))
    BY <1>0, <2>1, <2>4, StepSteady, KindIs
  <2> QED  BY <1>3, <2>3, <2>4, DeferTurns
<1>4. CASE WaitCamera
  <2>1. \E t \in {"waiting-camera", "prepare-block"} : Publish(SetStep(sched, t, NoOp))
    BY <1>4 DEF WaitCamera
  <2>2. Settled(sched)
    BY <1>2, <1>4 DEF WaitCamera
  <2> QED  BY <1>0, <2>1, <2>2, StepSteady, KindIs
<1>5. CASE WaitUnpark
  <2>1. \/ \E t \in {"unpark-before-block", "prepare-block"} : Publish(SetStep(sched, t, NoOp))
        \/ Publish(Fail(sched, "mount status failed"))
    BY <1>2, <1>5 DEF WaitUnpark
  <2>2. Settled(sched)
    BY <1>2, <1>5 DEF WaitUnpark
  <2> QED  BY <1>0, <2>1, <2>2, StepSteady, FailSteady, KindIs
<1>6. CASE PrepareBlock
  <2>1. Settled(sched)
    BY <1>2, <1>6 DEF PrepareBlock
  <2>2. \/ Publish(SetStep(sched, "unpark-before-block", NoOp))
        \/ Publish(Fail(sched, "park failed"))
        \/ \E kind \in SlewKinds : SubmitSlew(sched, kind)
    BY <1>6 DEF PrepareBlock, ParkMount, SlewKinds
  <2> QED  BY <1>0, <2>1, <2>2, StepSteady, FailSteady, SlewSteady, KindIs
<1>7. CASE SubmitStep
  <2>1. PICK t \in Submissions : Stepping(t)
    BY <1>7 DEF SubmitStep
  <2>2. Settled(sched) /\ sched.step = t
    BY <1>2, <2>1
  <2>3. \/ Submit(sched, KindOf(t))
        \/ Publish(Fail(sched, "not started"))
    BY <1>7, <2>2 DEF SubmitStep
  <2>4. KindOf(t) \in OpKinds
    BY KindsOfStep
  <2>5. CASE Submit(sched, KindOf(t))
    BY <1>0, <2>2, <2>4, <2>5, SubmitSteady
  <2> QED  BY <1>0, <2>3, <2>5, FailSteady
<1> QED  BY <1>1, <1>3, <1>4, <1>5, <1>6, <1>7 DEF StepHandler

\* A block whose frames are all counted is left.
LEMMA AdvanceFinishes ==
    ASSUME IInv, OldNews, sched.active, NEW p, Settled(p), p.order = sched.order,
           p.progress[sched.block] = FrameTarget(sched.block), NEW t, Advance(p, t), shots' = shots
    PROVE  Finishes
<1>1. /\ p \in SchedRecord /\ p.active /\ p.block = sched.block
      /\ \A b \in Blocks : p.progress[b] = TakenOf(b)
      /\ p.progress \in [Blocks -> Nat] /\ p.block \in Blocks
  BY DEF Settled, SchedRecord
<1>2. p.order # <<>> /\ Head(p.order) = p.block
  BY <1>1 DEF IInv, Course, Calendar
<1> DEFINE q == AdvanceBlock(p, due)
<1>3. /\ q.op = NoOp
      /\ q.progress = [p.progress EXCEPT ![p.block] = 0]
      /\ Tail(p.order) = <<>> => ~q.active
      /\ Tail(p.order) # <<>> =>
            /\ q.block \in due => q.step = "prepare-block"
            /\ q.block \notin due => q.step = "waiting-block-start"
  BY <1>1, <1>2, AdvanceIs
<1> HIDE DEF q
<1>4. sched' = q /\ done' = done \cup {sched.block}
  BY <1>1 DEF Advance, q
<1>5. ~Exposed'
  BY <1>3, <1>4, FreshFrame
<1>6. ASSUME NEW b \in Blocks \ {sched.block} PROVE TakenOf(b)' = TakenOf(b)
  <2>1. sched'.progress[b] = p.progress[b] /\ p.progress[b] \in Nat
    BY <1>1, <1>3, <1>4
  <2>2. TakenOf(b)' = sched'.progress[b] + 0
    BY <1>5 DEF TakenOf
  <2> QED  BY <1>1, <2>1, <2>2
<1>7. sched'.active => sched'.step # "park-after-block"
  BY <1>3, <1>4
<1> QED  BY <1>1, <1>4, <1>6, <1>7 DEF Finishes

\* The timers take no frame, and leave a block with all of its own.
LEMMA ShotsOfTimers ==
    ASSUME IInv, ShotsKept, SkyTimer \/ ParkTimer \/ DateTimer
    PROVE  Steady \/ Finishes
<1>0. OldNews /\ UNCHANGED <<events, shots>> /\ sched \in SchedRecord
  BY QueueUsed DEF SkyTimer, ParkTimer, DateTimer, history, OldNews
<1>1. CASE SkyTimer
  <2>1. /\ done' = done
        /\ \/ /\ sched.step = "waiting-observable-sky"
              /\ Publish(SetStep(sched, "prepare-block", NoOp))
           \/ Publish(sched)
    BY <1>1 DEF SkyTimer, history
  <2>2. CASE Publish(sched)
    BY <1>0, <2>1, <2>2, StaysSteady DEF Publish
  <2>3. CASE /\ sched.step = "waiting-observable-sky"
             /\ Publish(SetStep(sched, "prepare-block", NoOp))
    <3>1. sched.step \notin OpKinds
      BY <2>3, KindsOfStep DEF Preparing
    <3>2. Settled(sched)
      BY <3>1, QueueUsed, Unexposed
    <3> QED  BY <1>0, <2>1, <2>3, <3>2, StepSteady, KindIs
  <2> QED  BY <2>1, <2>2, <2>3
<1>2. CASE ParkTimer
  <2> DEFINE t == [timers EXCEPT !.park = @ - 1]
  <2>1. \/ UNCHANGED <<sched, done>>
        \/ Publish(Fail(sched, "mount status failed")) /\ done' = done
        \/ sched.active /\ sched.step = "park-after-block" /\ Advance(sched, t)
    BY <1>2 DEF ParkTimer
  <2>2. CASE UNCHANGED <<sched, done>>
    BY <1>0, <2>2, StaysSteady
  <2>3. CASE Publish(Fail(sched, "mount status failed")) /\ done' = done
    <3>1. "mount status failed" \in Reasons
      BY DEF Reasons
    <3> QED  BY <1>0, <2>3, <3>1, FailSteady
  <2>4. CASE sched.active /\ sched.step = "park-after-block" /\ Advance(sched, t)
    <3>1. sched.step \notin OpKinds
      BY <2>4, KindsOfStep DEF Preparing
    <3>2. Settled(sched)
      BY <3>1, QueueUsed, Unexposed
    <3>3. sched.progress[sched.block] = FrameTarget(sched.block)
      BY <2>4 DEF ShotsKept, IInv, Course, Frames
    <3> QED  BY <1>0, <2>4, <3>2, <3>3, AdvanceFinishes
  <2> QED  BY <2>1, <2>2, <2>3, <2>4
<1>3. CASE DateTimer
  <2> DEFINE p == BeginScheduled(sched)
  <2>1. /\ sched.active /\ sched.state = "scheduled" /\ sched' = p /\ done' = done
        /\ sched.op = NoOp
    BY <1>3 DEF DateTimer, history, Publish, IInv, Work, SessionSteps
  <2>2. SameCourse(p, sched) /\ p.step = "waiting-camera" /\ p.op = sched.op
    BY <1>0, <2>1, BeginScheduledIs
  <2> HIDE DEF p
  <2>3. Settled(sched)
    BY <2>1, Unexposed
  <2> QED  BY <1>0, <2>1, <2>2, <2>3, GoesOn DEF SameCourse
<1> QED  BY <1>1, <1>2, <1>3

\* Nor does an update; that of a frame counts it, and the last one leaves the
\* block, or parks the mount before.
LEMMA ShotsOfEvents ==
    ASSUME IInv, ShotsKept, EventHandler
    PROVE  Steady \/ Finishes
<1>0. /\ sched \in SchedRecord /\ Cleared \in SchedRecord /\ NoOp \in OpIds \cup {NoOp}
      /\ {"recenter did not converge", "sync failed", "planet not detected", "park failed",
          "failed", "cancelled"} \subseteq Reasons
      /\ Submissions \subseteq Steps \ {"park-after-block"}
      /\ {"slew", "recenter-slew"} \subseteq SlewKinds
  BY QueueUsed, TypesUsed, KindIs DEF Reasons, SlewKinds
<1>1. CASE ForeignEvent
  <2>1. /\ UNCHANGED <<sched, done, shots>> /\ events # <<>> /\ events' = Tail(events)
        /\ ~(sched.active /\ sched.op # NoOp /\ Head(events).id = sched.op)
    BY <1>1 DEF ForeignEvent, session, history
  <2>2. sched.op = NoOp \/ Head(events).id # sched.op
    BY <2>1 DEF IInv, Work, SessionSteps
  <2>3. /\ 1 \in DOMAIN events /\ events[1] = Head(events)
        /\ \A k \in DOMAIN Tail(events) : k + 1 \in DOMAIN events /\ Tail(events)[k] = events[k + 1]
        /\ \A k \in DOMAIN events : k # 1 => k - 1 \in DOMAIN Tail(events)
                                            /\ Tail(events)[k - 1] = events[k]
    BY <2>1, QueueUsed, TailIs
  <2>4. Exposed' <=> Exposed
    BY <2>1, <2>2, <2>3 DEF Exposed
  <2>5. \A b \in Blocks : TakenOf(b)' = TakenOf(b)
    BY <2>1, <2>4 DEF TakenOf
  <2> QED  BY <2>1, <2>5 DEF Steady, ShotsKept
<1>2. CASE StepFailed
  <2>1. Head(events) \in EventRecord /\ Head(events).result # "succeeded"
    BY <1>2, QueueUsed, TailIs DEF StepFailed, OwnEvent
  <2>2. Head(events).result \in Reasons
    BY <1>0, <2>1 DEF EventRecord
  <2>3. Publish(Fail(sched, Head(events).result)) /\ UNCHANGED <<done, shots>>
    BY <1>2 DEF StepFailed, history
  <2> QED  BY <1>0, <2>2, <2>3, FailSteady
<1>3. CASE \/ SlewDone \/ RecenterSlewDone \/ SolveDone \/ AutofocusDone \/ PlanetarySlewDone
           \/ PlanetaryAcquireDone \/ PlanetaryAutofocusDone \/ PlanetaryCalibrationDone
  <2>1. OwnEvent /\ sched.step \notin ScienceKinds /\ UNCHANGED <<done, shots>>
    BY <1>3 DEF SlewDone, RecenterSlewDone, SolveDone, AutofocusDone, PlanetarySlewDone,
                PlanetaryAcquireDone, PlanetaryAutofocusDone, PlanetaryCalibrationDone,
                Succeeded, ScienceKinds, history
  <2>2. Settled(Cleared) /\ OldNews
    BY <2>1, Unexposed, OwnFrame
  <2>3. \/ \E t \in Submissions : Publish(SetStep(Cleared, t, NoOp))
        \/ \E r \in Reasons : Publish(Fail(Cleared, r))
        \/ SubmitSlew(Cleared, "recenter-slew")
    <3>1. CASE SlewDone
      BY <3>1, KindIs DEF SlewDone, AfterPointing, Proceed
    <3>2. CASE SolveDone
      BY <1>0, <3>2, KindIs DEF SolveDone, Proceed
    <3>3. CASE RecenterSlewDone \/ AutofocusDone \/ PlanetarySlewDone
      BY <3>3, KindIs DEF RecenterSlewDone, AutofocusDone, PlanetarySlewDone, Proceed
    <3>4. CASE PlanetaryAutofocusDone \/ PlanetaryCalibrationDone
      BY <3>4, KindIs DEF PlanetaryAutofocusDone, PlanetaryCalibrationDone, Proceed
    <3>5. CASE PlanetaryAcquireDone
      BY <1>0, <3>5, KindIs DEF PlanetaryAcquireDone, Proceed
    <3> QED  BY <1>3, <3>1, <3>2, <3>3, <3>4, <3>5
  <2> QED  BY <1>0, <2>1, <2>2, <2>3, StepSteady, FailSteady, SlewSteady
<1>4. CASE CaptureDone \/ PlanetarySerDone
  <2> DEFINE m == Counted
             full == m.frames >= FrameTarget(m.block)
  <2>1. OwnEvent /\ sched.step \in ScienceKinds /\ Head(events).result = "succeeded" /\ shots' = shots
    BY <1>4 DEF CaptureDone, PlanetarySerDone, Succeeded, ScienceKinds
  <2>2. Settled(m) /\ OldNews
    BY <2>1, OwnFrame
  <2>3. /\ m \in SchedRecord /\ m.block = sched.block /\ m.frames = sched.frames + 1
        /\ m.order = sched.order /\ m.progress[m.block] = m.frames /\ m.active
    <3>1. /\ m \in SchedRecord /\ m.block = sched.block /\ m.frames = sched.frames + 1
          /\ m.order = sched.order /\ m.active = sched.active
          /\ m.progress = [sched.progress EXCEPT ![sched.block] = sched.frames + 1]
      BY QueueUsed, CountedIs
    <3>2. sched.progress \in [Blocks -> Nat] /\ sched.block \in Blocks
      BY QueueUsed DEF SchedRecord
    <3> QED  BY <2>1, <3>1, <3>2, OwnEventIs
  <2>4. full => m.frames = FrameTarget(m.block)
    <3>1. sched.frames < FrameTarget(sched.block)
      <4>1. sched.block \in Blocks
        BY <1>0 DEF SchedRecord
      <4> QED  BY <2>1, <4>1, OwnEventIs DEF IInv, Course, Frames
    <3>2. sched.frames \in Nat /\ FrameTarget(sched.block) \in Nat
      BY <1>0, TilesAre DEF SchedRecord
    <3> HIDE DEF m
    <3> QED  BY <2>3, <3>1, <3>2
  <2>5. \/ full /\ CompleteBlock(m)
        \/ done' = done /\ \E t \in Submissions : Publish(SetStep(m, t, NoOp))
        \/ done' = done /\ SubmitSlew(m, "slew")
    BY <1>4, KindIs DEF CaptureDone, PlanetarySerDone, AfterPointing, Proceed, Counted
  <2> HIDE DEF m, full
  <2>6. CASE full /\ CompleteBlock(m)
    <3>1. \/ Publish(SetStep(m, "park-after-block", NoOp)) /\ done' = done
          \/ Publish(Fail(m, "park failed")) /\ done' = done
          \/ Advance(m, timers)
      BY <2>6 DEF CompleteBlock, ParkMount
    <3>2. CASE Publish(SetStep(m, "park-after-block", NoOp)) /\ done' = done
      <4>1. /\ Rests(m) /\ sched'.active = m.active /\ sched'.op = NoOp
        BY <1>0, <2>3, <3>2, QueueUsed, StepRests, KindIs
      <4>2. ~Exposed'
        BY <2>2, <4>1, FreshFrame
      <4>3. ASSUME NEW b \in Blocks PROVE TakenOf(b)' = TakenOf(b)
        <5>1. TakenOf(b)' = sched'.progress[b] + 0 /\ sched'.progress[b] = m.progress[b]
          BY <4>1, <4>2 DEF TakenOf, Rests, SameCourse
        <5>2. m.progress[b] \in Nat /\ m.progress[b] = TakenOf(b)
          BY <2>2, <2>3 DEF SchedRecord, Settled
        <5> QED  BY <5>1, <5>2
      <4>4. sched'.frames = FrameTarget(sched'.block)
        BY <2>4, <2>6, <4>1 DEF Rests, SameCourse
      <4> QED  BY <2>1, <3>2, <4>3, <4>4, OwnEventIs DEF Steady
    <3>3. CASE Publish(Fail(m, "park failed")) /\ done' = done
      BY <1>0, <2>1, <2>3, <3>3, FailSteady
    <3>4. CASE Advance(m, timers)
      <4>1. m.progress[sched.block] = FrameTarget(sched.block)
        BY <2>3, <2>4, <2>6
      <4> QED  BY <2>1, <2>2, <2>3, <3>4, <4>1, OwnEventIs, AdvanceFinishes
    <3> QED  BY <3>1, <3>2, <3>3, <3>4
  <2>7. CASE done' = done /\ \E t \in Submissions : Publish(SetStep(m, t, NoOp))
    BY <1>0, <2>1, <2>2, <2>7, StepSteady
  <2>8. CASE done' = done /\ SubmitSlew(m, "slew")
    BY <1>0, <2>1, <2>2, <2>8, SlewSteady
  <2> QED  BY <2>5, <2>6, <2>7, <2>8
<1> QED  BY <1>1, <1>2, <1>3, <1>4 DEF EventHandler

\* On the pool the session's own operation takes its frame, and no other does.
LEMMA ShotsOfPool ==
    ASSUME IInv, ShotsKept, OperationEnds \/ LiveViewEnds
    PROVE  Steady \/ Exposes
<1>1. CASE LiveViewEnds
  BY <1>1, StaysSteady DEF LiveViewEnds, session, history
<1>2. CASE OperationEnds
  <2>1. PICK k \in Running(ops), result \in {"succeeded", "failed", "cancelled"} :
           /\ ops[k].kind # "live-view"
           /\ events' = Append(events, [id |-> ops[k].id, result |-> result])
           /\ shots' = IF /\ ops[k].kind \in ScienceKinds
                          /\ result = "succeeded"
                          /\ sched.op = ops[k].id
                       THEN [shots EXCEPT ![ops[k].target] = @ + 1]
                       ELSE shots
    BY <1>2 DEF OperationEnds
  <2>2. sched' = sched /\ done' = done /\ k \in DOMAIN ops
    BY <1>2 DEF OperationEnds, session, Running
  <2> DEFINE u == [id |-> ops[k].id, result |-> result]
             e == Len(events) + 1
  <2>3. u.id = ops[k].id /\ u.result = result
    OBVIOUS
  <2>4. /\ e \in DOMAIN events' /\ events'[e] = u
        /\ \A i \in DOMAIN events : i \in DOMAIN events' /\ events'[i] = events[i]
        /\ \A i \in DOMAIN events' : i = e \/ i \in DOMAIN events
    <3>1. ops[k].id \in OpIds
      BY <2>2, QueueUsed, IdsAre
    <3>2. u \in EventRecord
      BY <3>1 DEF EventRecord
    <3> HIDE DEF u
    <3> QED  BY <2>1, <3>2, QueueUsed DEF u
  <2> HIDE DEF u, e
  <2>5. /\ \A i \in DOMAIN events : events[i].id # ops[k].id
        /\ ops[k].id = sched.op => ops[k].kind = sched.step /\ ops[k].target = Target(sched)
    BY <2>2, QueueUsed DEF Link
  <2>6. ops[k].id # NoOp /\ (sched.op # NoOp => sched.active)
    BY <2>2, QueueUsed, IdsAre DEF IInv, Work, SessionSteps
  <2>7. \A b \in Blocks : sched.progress[b] \in Nat
    BY QueueUsed DEF SchedRecord
  <2>8. CASE ops[k].kind \in ScienceKinds /\ result = "succeeded" /\ sched.op = ops[k].id
    <3>1. Exposed' /\ ~Exposed
      BY <2>2, <2>3, <2>4, <2>5, <2>6, <2>8 DEF Exposed
    <3>2. \A b \in Blocks : TakenOf(b)' = sched.progress[b] + (IF b = sched.block THEN 1 ELSE 0)
      BY <2>2, <3>1 DEF TakenOf
    <3>3. \A b \in Blocks : TakenOf(b) = sched.progress[b]
      BY <2>7, <3>1 DEF TakenOf
    <3> QED  BY <2>1, <2>2, <2>5, <2>6, <2>8, <3>2, <3>3 DEF Exposes
  <2>9. CASE ~(ops[k].kind \in ScienceKinds /\ result = "succeeded" /\ sched.op = ops[k].id)
    <3>1. Exposed' <=> Exposed
      <4>1. CASE sched.op = ops[k].id
        BY <2>2, <2>3, <2>4, <2>5, <2>9, <4>1 DEF Exposed
      <4>2. CASE sched.op # ops[k].id
        BY <2>2, <2>3, <2>4, <4>2 DEF Exposed
      <4> QED  BY <4>1, <4>2
    <3>2. \A b \in Blocks : TakenOf(b)' = TakenOf(b)
      BY <2>2, <3>1 DEF TakenOf
    <3> QED  BY <2>1, <2>2, <2>9, <3>2 DEF Steady, ShotsKept
  <2> QED  BY <2>8, <2>9
<1> QED  BY <1>1, <1>2

\* The life of the process and the environment take none.
LEMMA ShotsOfOthers ==
    ASSUME IInv, ShotsKept,
           \/ Crash \/ Shutdown \/ Restart \/ ResumeTimer
           \/ DevicesRestored \/ SkyChanges \/ DateComes \/ ParkMotionEnds
    PROVE  Steady \/ Begins
<1>1. CASE Crash \/ Shutdown \/ Restart
  <2>1. ~sched'.active
    BY <1>1, ProcessHandled
  <2>2. UNCHANGED <<shots, done>>
    BY <1>1 DEF Crash, Shutdown, Restart, ProcessEnds, history
  <2> QED  BY <2>1, <2>2, OverSteady
<1>2. CASE ResumeTimer
  <2>1. CASE sched.active
    BY <1>2, <2>1, StaysSteady DEF ResumeTimer, session
  <2>2. CASE ~sched.active
    BY <1>2, <2>2 DEF ResumeTimer, Begins
  <2> QED  BY <2>1, <2>2
<1>3. CASE DevicesRestored \/ SkyChanges \/ DateComes \/ ParkMotionEnds
  BY <1>3, StaysSteady DEF DevicesRestored, SkyChanges, DateComes, ParkMotionEnds, session, history
<1> QED  BY <1>1, <1>2, <1>3

-----------------------------------------------------------------------------
(* The frames are kept.                                                    *)

\* A frame more is one of the tile that was pointed at.
LEMMA ShotsExposed ==
    ASSUME IInv, ShotsKept, Exposes
    PROVE  ShotsKept'
<1> DEFINE b == sched.block
           n == sched.frames
<1>1. /\ sched \in SchedRecord /\ b \in Blocks /\ n \in Nat /\ sched.progress \in [Blocks -> Nat]
      /\ shots \in [Targets -> Nat]
  BY QueueUsed DEF SchedRecord, TypeOK
<1>2. sched.step # "park-after-block"
  BY DEF Exposes, ScienceKinds
<1>3. n < FrameTarget(b) /\ sched.progress[b] = n
  BY <1>1, <1>2 DEF Exposes, IInv, Course, Frames
<1>4. PICK i \in Tiles(b) :
         /\ Target(sched) = <<b, i>>
         /\ \A j \in Tiles(b) : Shot(b, j, n + 1) = IF j = i THEN Shot(b, j, n) + 1 ELSE Shot(b, j, n)
  BY <1>1, <1>3, ShotNext
<1>5. shots' = [shots EXCEPT ![<<b, i>>] = @ + 1] /\ sched' = sched /\ done' = done
  BY <1>4 DEF Exposes
<1>6. \A c \in Blocks : \A j \in Tiles(c) : <<c, j>> \in Targets
  BY DEF Targets
<1>7. ASSUME NEW c \in Blocks \ done, NEW j \in Tiles(c)
      PROVE  shots'[<<c, j>>] = Shot(c, j, TakenOf(c)')
  <2>1. shots[<<c, j>>] = Shot(c, j, TakenOf(c)) /\ TakenOf(c) = sched.progress[c]
        /\ <<c, j>> \in Targets
    BY <1>6, <1>7 DEF ShotsKept, Exposes
  <2>2. CASE c = b
    <3>1. TakenOf(c)' = n + 1 /\ TakenOf(c) = n
      BY <1>3, <2>1, <2>2 DEF Exposes
    <3>2. shots'[<<c, j>>] = IF j = i THEN shots[<<c, j>>] + 1 ELSE shots[<<c, j>>]
      BY <1>1, <1>5, <2>1, <2>2
    <3> HIDE DEF b, n
    <3> QED  BY <1>4, <1>7, <2>1, <2>2, <3>1, <3>2
  <2>3. CASE c # b
    <3>1. TakenOf(c)' = TakenOf(c)
      <4>1. TakenOf(c)' = sched.progress[c] + 0 /\ sched.progress[c] \in Nat
        BY <1>1, <2>3 DEF Exposes
      <4> QED  BY <2>1, <4>1
    <3>2. shots'[<<c, j>>] = shots[<<c, j>>]
      BY <1>1, <1>5, <2>1, <2>3
    <3> QED  BY <2>1, <3>1, <3>2
  <2> QED  BY <2>2, <2>3
<1> QED  BY <1>2, <1>5, <1>7 DEF ShotsKept

\* A session begins with none of the blocks that are not done.
LEMMA ShotsBegun ==
    ASSUME IInv, Begins
    PROVE  /\ ShotsKept' /\ done' \subseteq done
<1> DEFINE wrap == store.next > Len(Plan)
           first == IF wrap THEN 1 ELSE store.next
           s == Start(sched, first, due)
<1>1. /\ sched' = s /\ done' = IF wrap THEN {} ELSE done
      /\ shots' = [t \in Targets |-> IF t[1] \in done' THEN shots[t] ELSE 0]
  BY DEF Begins, BeginSession
<1>2. first \in Blocks
  <2>1. store.next \in 1 .. Len(Plan) + 1 /\ Len(Plan) \in Nat /\ Len(Plan) >= 1
    BY QueueUsed, PlanIs DEF StoreRecord
  <2> DEFINE n == store.next
  <2> HIDE DEF n
  <2>2. n \in 1 .. Len(Plan) + 1 /\ (~(n > Len(Plan)) => n \in 1 .. Len(Plan)) /\ 1 \in 1 .. Len(Plan)
    BY <2>1 DEF n
  <2> QED  BY <2>2 DEF Blocks, n
<1> HIDE DEF first
<1>3. /\ s.op = NoOp /\ \A c \in Blocks : s.progress[c] = 0
      /\ s.step \in {"waiting-camera", "waiting-block-start"}
  <2>1. /\ s.op = NoOp /\ \A c \in Blocks : s.progress[c] = 0
        /\ first \in due => s.step = "waiting-camera"
        /\ first \notin due => s.step = "waiting-block-start"
    BY <1>2, QueueUsed, StartIs
  <2> QED  BY <2>1
<1> HIDE DEF s
<1>4. ~Exposed'
  BY <1>1, <1>3 DEF Exposed
<1>5. \A b \in Blocks : TakenOf(b)' = 0
  BY <1>1, <1>3, <1>4 DEF TakenOf
<1>6. ASSUME NEW b \in Blocks \ done', NEW j \in Tiles(b)
      PROVE  shots'[<<b, j>>] = Shot(b, j, TakenOf(b)')
  <2>1. <<b, j>> \in Targets /\ <<b, j>>[1] = b
    BY DEF Targets
  <2>2. shots'[<<b, j>>] = 0
    BY <1>1, <2>1
  <2> QED  BY <1>5, <2>2, ShotEnds
<1>7. sched'.step # "park-after-block"
  BY <1>1, <1>3
<1> QED  BY <1>1, <1>6, <1>7 DEF ShotsKept

\* What a step of the property says.
CompleteExactly ==
    \A b \in done' \ done : \A t \in Targets : t[1] = b => shots'[t] = Plan[b].frames

\* Every step takes the frames it should.
LEMMA ShotsStep ==
    ASSUME IInv, ShotsKept, Next
    PROVE  ShotsKept' /\ CompleteExactly
<1>1. Steady \/ Exposes \/ Finishes \/ Begins
  BY ShotsOfClients, ShotsOfStepHandler, ShotsOfTimers, ShotsOfEvents, ShotsOfPool, ShotsOfOthers
     DEF Next
<1>2. CASE Steady
  BY <1>2 DEF Steady, ShotsKept, CompleteExactly
<1>3. CASE Exposes
  BY <1>3, ShotsExposed DEF Exposes, CompleteExactly
<1>4. CASE Begins
  BY <1>4, ShotsBegun DEF CompleteExactly
<1>5. CASE Finishes
  <2>1. ShotsKept'
    BY <1>5 DEF Finishes, ShotsKept
  <2>2. ASSUME NEW b \in done' \ done, NEW t \in Targets, t[1] = b PROVE shots'[t] = Plan[b].frames
    <3>1. b = sched.block /\ b \in Blocks \ done /\ shots' = shots /\ sched.active
          /\ TakenOf(b) = FrameTarget(b)
      BY <1>5, <2>2, QueueUsed DEF Finishes, SchedRecord
    <3>2. PICK c \in Blocks : t \in {c} \X Tiles(c)
      BY DEF Targets
    <3>3. t = <<b, t[2]>> /\ t[2] \in Tiles(b)
      BY <2>2, <3>2
    <3>4. shots[t] = Shot(b, t[2], FrameTarget(b))
      BY <3>1, <3>3 DEF ShotsKept
    <3> QED  BY <3>1, <3>3, <3>4, ShotEnds
  <2> QED  BY <2>1, <2>2 DEF CompleteExactly
<1> QED  BY <1>1, <1>2, <1>3, <1>4, <1>5

\* A block is completed with exactly the frames its plan asks for of every tile,
\* for every plan and over deferrals, recentres, stops, crashes and restarts.
THEOREM FramesTaken == Spec => FramesExact
<1>1. Init => ShotsKept
  BY ReadyIs DEF Init, ShotsKept
<1>2. IInv /\ ShotsKept /\ [Next]_vars => ShotsKept' /\ [CompleteExactly]_vars
  <2> SUFFICES ASSUME IInv, ShotsKept, [Next]_vars PROVE ShotsKept' /\ [CompleteExactly]_vars
    OBVIOUS
  <2>1. CASE Next
    BY <2>1, ShotsStep
  <2>2. CASE UNCHANGED vars
    <3>1. /\ sched' = sched /\ done' = done /\ shots' = shots /\ events' = events
      BY <2>2 DEF vars, session, history
    <3>2. \A b \in Blocks : TakenOf(b)' = TakenOf(b)
      BY <3>1 DEF TakenOf, Exposed
    <3> QED  BY <2>2, <3>1, <3>2 DEF ShotsKept
  <2> QED  BY <2>1, <2>2
<1>3. FramesExact <=> [][CompleteExactly]_vars
  BY PTL DEF FramesExact, CompleteExactly
<1> QED  BY <1>1, <1>2, <1>3, InitInv, StepInv, PTL DEF Spec
================================================================================
