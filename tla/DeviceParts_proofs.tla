------------------------- MODULE DeviceParts_proofs -------------------------
(***************************************************************************)
(* Proofs about the parts that command devices, as MCParts composes them,  *)
(* for every value of their bounds.  Each part has an inductive invariant  *)
(* of its own; the steps of the others leave it alone.                     *)
(***************************************************************************)
EXTENDS MCParts, FiniteSetTheorems, SequenceTheorems, WellFoundedInduction, TLAPS

-----------------------------------------------------------------------------
(* Autofocus: the focuser is at rest where the search says it left it.     *)

AfFields == {"scene", "pc", "stage", "from", "todo", "seen", "best", "samples", "probes"}
HasReturned(r) == r.kind \in {"success", "restored"}
AtRest(f, p) == f.at = p /\ f.goal = p

\* The look at the new position: it was graded there, after the motion to it.
Verifies(s, f) ==
    /\ s.todo \in {<<>>, <<s.best>>} /\ (s.todo # <<>> => s.seen = {})
    /\ s.pc \in {"wait", "grade"} => s.todo = <<s.best>>
    /\ s.pc = "wait" => f.goal = s.best
    /\ s.pc = "grade" \/ s.seen # {} => AtRest(f, s.best)

\* Where the search waits for the focuser, that is where it goes.
Goes(s, f, r) ==
    /\ s.pc = "settling" => f.goal = s.best
    /\ s.pc = "restoring" => f.goal = s.from
    /\ s.stage = "verify" /\ s.pc \in {"scan", "wait", "grade"} => Verifies(s, f)
    /\ HasReturned(r) => s.pc \in {"end", "idle"} /\ AtRest(f, r.best)

FocusIInv ==
    /\ DOMAIN af = AfFields /\ focus = [at |-> focus.at, goal |-> focus.goal]
    /\ ~halted => Goes(af, focus, report)

\* Nothing has been searched.
LEMMA FocusInitInv == Focus!AfInit => FocusIInv
BY DEF Focus!AfInit, Focus!None, FocusIInv, AfFields, Goes, HasReturned

\* A scan that begins.
LEMMA ScanIs ==
    ASSUME FocusIInv, NEW t, NEW st
    PROVE  LET s == Focus!Scan(t, st) IN
           DOMAIN s = AfFields /\ s.pc = "scan" /\ s.stage = st /\ s.todo = t /\ s.best = af.best
BY SMTT(60) DEF FocusIInv, Focus!Scan, AfFields

\* The search turns to something it does not wait for.
Turning(s) ==
    /\ DOMAIN s = AfFields
    /\ \/ s.pc \in {"meter", "begin", "halt", "restore", "settle", "climb"}
       \/ s.pc \in {"scan", "wait", "grade"} /\ s.stage # "verify"

\* What it may turn to.
LEMMA TurnsAre ==
    ASSUME FocusIInv
    PROVE  /\ Turning(Focus!Restore) /\ Turning(Focus!Cancelled) /\ Turning([af EXCEPT !.pc = "begin"])
           /\ \A p : /\ Turning([af EXCEPT !.pc = "settle", !.best = p])
                    /\ Turning([af EXCEPT !.pc = "climb", !.best = p])
           /\ \A t, st : st # "verify" =>
                 /\ Turning(Focus!Scan(t, st))
                 /\ \A n : Turning([Focus!Scan(t, st) EXCEPT !.probes = n])
                 /\ \A p : Turning([Focus!Scan(t, st) EXCEPT !.best = p, !.seen = {}])
<1>1. DOMAIN af = AfFields
  BY DEF FocusIInv
<1>2. /\ Turning(Focus!Restore) /\ Turning(Focus!Cancelled) /\ Turning([af EXCEPT !.pc = "begin"])
      /\ \A p : /\ Turning([af EXCEPT !.pc = "settle", !.best = p])
               /\ Turning([af EXCEPT !.pc = "climb", !.best = p])
  BY <1>1 DEF Turning, Focus!Restore, Focus!Cancelled, AfFields
<1>3. ASSUME NEW t, NEW st, st # "verify"
      PROVE  /\ Turning(Focus!Scan(t, st))
             /\ \A n : Turning([Focus!Scan(t, st) EXCEPT !.probes = n])
             /\ \A p : Turning([Focus!Scan(t, st) EXCEPT !.best = p, !.seen = {}])
  <2> DEFINE s == Focus!Scan(t, st)
  <2>1. DOMAIN s = AfFields /\ s.pc = "scan" /\ s.stage = st
    BY ScanIs
  <2> HIDE DEF s
  <2>2. Turning(s)
    BY <1>3, <2>1 DEF Turning
  <2>3. \A n : Turning([s EXCEPT !.probes = n])
    BY <1>3, <2>1 DEF Turning, AfFields
  <2>4. \A p : Turning([s EXCEPT !.best = p, !.seen = {}])
    BY <1>3, <2>1 DEF Turning, AfFields
  <2> QED  BY <2>2, <2>3, <2>4 DEF s
<1> QED  BY <1>2, <1>3

\* It waits for nothing there.
LEMMA TurnsTo ==
    ASSUME FocusIInv, ~HasReturned(report) \/ halted, UNCHANGED <<halted, report>>,
           focus' = [at |-> focus'.at, goal |-> focus'.goal], Turning(af')
    PROVE  FocusIInv'
BY DEF FocusIInv, Goes, Turning

\* It has not returned before its end.
LEMMA StillSearches ==
    ASSUME FocusIInv, af.pc \notin {"end", "idle"}
    PROVE  ~HasReturned(report) \/ halted
BY DEF FocusIInv, Goes

\* The focuser turns, and clients cancel and halt.
LEMMA FocuserStep ==
    ASSUME FocusIInv, Focus!Turn \/ Focus!Cancel \/ Focus!HaltFocuser
    PROVE  FocusIInv'
<1>1. CASE Focus!Turn
  <2>1. /\ UNCHANGED <<af, halted, report>> /\ focus.at # focus.goal
        /\ focus'.goal = focus.goal /\ focus' = [at |-> focus'.at, goal |-> focus'.goal]
    BY <1>1 DEF Focus!Turn, Focus!Moving, FocusIInv
  <2> QED  BY <2>1 DEF FocusIInv, Goes, Verifies, AtRest
<1>2. CASE Focus!Cancel
  BY <1>2 DEF Focus!Cancel, FocusIInv
<1>3. CASE Focus!HaltFocuser
  <2>1. /\ UNCHANGED <<af, report>> /\ (~halted' => ~halted)
        /\ focus' = focus \/ focus' = [focus EXCEPT !.goal = focus.at]
        /\ focus'.goal = focus.at => halted' \/ focus.goal = focus.at
    BY <1>3 DEF Focus!HaltFocuser, Focus!Halt, Focus!Moving
  <2>2. focus' = [at |-> focus'.at, goal |-> focus'.goal] /\ (~halted' => focus' = focus)
    BY <2>1 DEF FocusIInv
  <2> QED  BY <2>1, <2>2 DEF FocusIInv
<1> QED  BY <1>1, <1>2, <1>3

\* A scan goes through its positions.
LEMMA ScanStep ==
    ASSUME FocusIInv, Focus!ScanMove \/ Focus!ScanWait \/ Focus!Grade
    PROVE  FocusIInv'
<1>1. /\ af.pc \in {"scan", "wait", "grade"} /\ UNCHANGED <<halted, report>>
      /\ DOMAIN af = AfFields /\ focus = [at |-> focus.at, goal |-> focus.goal]
  BY DEF FocusIInv, Focus!ScanMove, Focus!ScanWait, Focus!Grade
<1>2. ~HasReturned(report) \/ halted
  BY <1>1, StillSearches
<1>5. af.stage = "verify" /\ ~halted => Verifies(af, focus)
  BY <1>1 DEF FocusIInv, Goes
<1>6. ASSUME DOMAIN af' = AfFields, af'.stage = af.stage, af'.pc \in {"scan", "wait", "grade"},
             focus' = [at |-> focus'.at, goal |-> focus'.goal],
             af.stage = "verify" /\ ~halted => Verifies(af', focus')
      PROVE  FocusIInv'
  <2>1. CASE af.stage # "verify"
    BY <1>1, <1>2, <1>6, <2>1, TurnsTo DEF Turning
  <2>2. CASE af.stage = "verify"
    BY <1>1, <1>2, <1>6, <2>2 DEF FocusIInv, Goes
  <2> QED  BY <2>1, <2>2
<1>7. CASE Focus!ScanMove
  <2>1. /\ af.pc = "scan" /\ af.todo # <<>>
        /\ \/ focus' = focus /\ \E t \in {<<>>, Tail(af.todo)} : af' = [af EXCEPT !.pc = "scan", !.todo = t]
           \/ /\ focus' = [focus EXCEPT !.goal = Head(af.todo)] \/ focus' = focus
              /\ af' = [af EXCEPT !.pc = "scan", !.todo = Tail(af.todo)]
           \/ focus' = [focus EXCEPT !.goal = Head(af.todo)] /\ af' = [af EXCEPT !.pc = "wait"]
    BY <1>7 DEF Focus!ScanMove, Focus!Skip, Focus!Rest, Focus!Moved, Focus!MoveFails
  <2> DEFINE head == Head(af.todo)
             tail == Tail(af.todo)
             f == [focus EXCEPT !.goal = head]
  <2>2. f = [at |-> f.at, goal |-> f.goal] /\ f.goal = head
    BY <1>1
  <2>3. af.todo = <<af.best>> => head = af.best /\ tail = <<>>
    OBVIOUS
  <2> HIDE DEF head, tail, f
  <2>4. /\ DOMAIN af' = AfFields /\ af'.stage = af.stage /\ af'.best = af.best /\ af'.seen = af.seen
        /\ \/ af'.pc = "scan" /\ af'.todo \in {<<>>, tail} /\ focus' \in {focus, f}
           \/ af'.pc = "wait" /\ af'.todo = af.todo /\ focus' = f
    BY <1>1, <2>1 DEF AfFields, head, tail, f
  <2>5. af.stage = "verify" /\ ~halted => Verifies(af', focus')
    BY <1>5, <2>1, <2>2, <2>3, <2>4 DEF Verifies
  <2> QED  BY <1>1, <1>6, <2>2, <2>4, <2>5
<1>8. CASE Focus!ScanWait
  <2>1. /\ af.pc = "wait" /\ focus' = focus
        /\ \/ \E t \in {<<>>, Tail(af.todo)} : af' = [af EXCEPT !.pc = "scan", !.todo = t]
           \/ focus.at = focus.goal /\ af' = [af EXCEPT !.pc = "grade"]
    BY <1>8 DEF Focus!ScanWait, Focus!Skip, Focus!Rest, Focus!Waited, Focus!Moving
  <2> DEFINE tail == Tail(af.todo)
  <2>2. af.todo = <<af.best>> => tail = <<>>
    OBVIOUS
  <2> HIDE DEF tail
  <2>3. /\ DOMAIN af' = AfFields /\ af'.stage = af.stage /\ af'.best = af.best /\ af'.seen = af.seen
        /\ \/ af'.pc = "scan" /\ af'.todo \in {<<>>, tail}
           \/ af'.pc = "grade" /\ af'.todo = af.todo /\ focus.at = focus.goal
    BY <1>1, <2>1 DEF AfFields, tail
  <2>4. af.stage = "verify" /\ ~halted => Verifies(af', focus')
    BY <1>5, <2>1, <2>2, <2>3 DEF Verifies, AtRest
  <2> QED  BY <1>1, <1>6, <2>1, <2>3, <2>4
<1>9. CASE Focus!Grade
  <2>1. /\ af.pc = "grade" /\ focus' = focus
        /\ \/ \E t \in {<<>>, Tail(af.todo)} : af' = [af EXCEPT !.pc = "scan", !.todo = t]
           \/ \E n, s : af' = [af EXCEPT !.pc = "scan", !.todo = Tail(af.todo), !.samples = n, !.seen = s]
    BY <1>9 DEF Focus!Grade, Focus!Skip, Focus!Rest
  <2> DEFINE tail == Tail(af.todo)
  <2>2. af.todo = <<af.best>> => tail = <<>>
    OBVIOUS
  <2> HIDE DEF tail
  <2>3. /\ DOMAIN af' = AfFields /\ af'.stage = af.stage /\ af'.best = af.best
        /\ af'.pc = "scan" /\ af'.todo \in {<<>>, tail}
    BY <1>1, <2>1 DEF AfFields, tail
  <2>4. af.stage = "verify" /\ ~halted => Verifies(af', focus')
    BY <1>5, <2>1, <2>2, <2>3 DEF Verifies, AtRest
  <2> QED  BY <1>1, <1>6, <2>1, <2>3, <2>4
<1> QED  BY <1>7, <1>8, <1>9

\* The search begins, and goes from scan to scan.
LEMMA SearchStep ==
    ASSUME FocusIInv,
           \/ \E scene \in BOOLEAN : Focus!Run(scene)
           \/ Focus!Meter \/ Focus!Begin \/ Focus!Climb
    PROVE  FocusIInv'
<1>1. /\ DOMAIN af = AfFields /\ focus = [at |-> focus.at, goal |-> focus.goal]
      /\ af.pc \in {"idle", "meter", "begin", "climb"}
  BY DEF FocusIInv, Focus!Run, Focus!Meter, Focus!Begin, Focus!Climb
<1>2. CASE \E scene \in BOOLEAN : Focus!Run(scene)
  <2>1. PICK scene \in BOOLEAN : Focus!Run(scene)
    BY <1>2
  <2>2. PICK p \in Starts :
          \/ /\ UNCHANGED report /\ focus' = [at |-> p, goal |-> p]
             /\ \E pc \in {"meter", "begin"} :
                   af' = [af EXCEPT !.scene = scene, !.from = p, !.best = p, !.pc = pc]
          \/ report' = [Focus!None EXCEPT !.kind = "failed"] /\ UNCHANGED <<af, focus>>
    BY <2>1 DEF Focus!Run
  <2>3. UNCHANGED halted /\ report = Focus!None /\ af.pc = "idle"
    BY <2>1 DEF Focus!Run
  <2>4. ~HasReturned(report)
    BY <2>3 DEF HasReturned, Focus!None
  <2>5. CASE /\ UNCHANGED report /\ focus' = [at |-> p, goal |-> p]
             /\ \E pc \in {"meter", "begin"} :
                   af' = [af EXCEPT !.scene = scene, !.from = p, !.best = p, !.pc = pc]
    <3>1. DOMAIN af' = AfFields /\ af'.pc \in {"meter", "begin"}
      BY <1>1, <2>5 DEF AfFields
    <3>2. focus' = [at |-> focus'.at, goal |-> focus'.goal]
      BY <2>5
    <3> QED  BY <2>3, <2>4, <2>5, <3>1, <3>2, TurnsTo DEF Turning
  <2>6. CASE report' = [Focus!None EXCEPT !.kind = "failed"] /\ UNCHANGED <<af, focus>>
    <3>1. ~HasReturned(report')
      BY <2>6 DEF HasReturned, Focus!None
    <3> QED  BY <1>1, <2>3, <2>6, <3>1 DEF FocusIInv, Goes
  <2> QED  BY <2>2, <2>5, <2>6
<1>3. CASE Focus!Meter \/ Focus!Begin \/ Focus!Climb
  <2>1. UNCHANGED <<focus, halted, report>> /\ af.pc \notin {"end", "idle"}
    BY <1>3 DEF Focus!Meter, Focus!Begin, Focus!Climb
  <2>2. Turning(af')
    <3>1. CASE Focus!Meter
      BY <3>1, TurnsAre, ZenonT(90) DEF Focus!Meter
    <3>2. CASE Focus!Begin
      BY <3>2, TurnsAre, ZenonT(90) DEF Focus!Begin
    <3>3. CASE Focus!Climb
      <4> DEFINE s == Focus!Scan(<<af.best + Focus!Up>>, "probe")
      <4>1. af' = Focus!Restore \/ af' = [s EXCEPT !.probes = s.probes + 1]
        BY <3>3, SMTT(60) DEF Focus!Climb
      <4>2. \A n : Turning([s EXCEPT !.probes = n])
        BY TurnsAre
      <4> HIDE DEF s
      <4> QED  BY <4>1, <4>2, TurnsAre
    <3> QED  BY <1>3, <3>1, <3>2, <3>3
  <2> QED  BY <1>1, <2>1, <2>2, StillSearches, TurnsTo
<1> QED  BY <1>2, <1>3

\* A scan is over.
LEMMA AfterStep ==
    ASSUME FocusIInv,
           \/ Focus!CoarseDone \/ Focus!FineDone \/ Focus!CenterDone \/ Focus!SidesDone \/ Focus!ProbeDone
           \/ Focus!RefineDone \/ Focus!After("verify", {[af EXCEPT !.pc = "settle", !.best = af.from]})
    PROVE  FocusIInv'
<1>1. /\ UNCHANGED <<focus, halted, report>> /\ af.pc = "scan"
      /\ focus = [at |-> focus.at, goal |-> focus.goal]
  BY DEF FocusIInv, Focus!CoarseDone, Focus!FineDone, Focus!CenterDone, Focus!SidesDone, Focus!ProbeDone,
         Focus!RefineDone, Focus!After
<1>2. Turning(af')
  <2>1. CASE stopped
    BY <2>1, TurnsAre DEF Focus!CoarseDone, Focus!FineDone, Focus!CenterDone, Focus!SidesDone, Focus!ProbeDone,
         Focus!RefineDone, Focus!After
  <2>2. CASE ~stopped
    <3>1. CASE Focus!CoarseDone
      <4> DEFINE reach == IF Coarse > 4 * Fine THEN Coarse ELSE 4 * Fine
                 t(p) == Focus!Steps(Focus!Above0(p - reach), p + reach, Fine)
                 fine(p) == [Focus!Scan(t(p), "fine") EXCEPT !.best = p, !.seen = {}]
      <4>1. af' = Focus!Restore \/ \E p : af' = fine(p)
        <5>1. af' \in {Focus!Restore} \cup {fine(p) : p \in IF af.samples = 3 THEN af.seen ELSE {}}
          BY <2>2, <3>1 DEF Focus!CoarseDone, Focus!After
        <5> HIDE DEF fine
        <5> QED  BY <5>1
      <4> HIDE DEF t
      <4>2. ASSUME NEW p PROVE Turning(fine(p))
        BY TurnsAre
      <4>3. Turning(Focus!Restore)
        BY TurnsAre
      <4> HIDE DEF fine
      <4> QED  BY <4>1, <4>2, <4>3
    <3>2. CASE Focus!FineDone \/ Focus!RefineDone
      <4>1. \E p : af' = [af EXCEPT !.pc = "settle", !.best = p]
        BY <2>2, <3>2 DEF Focus!FineDone, Focus!RefineDone, Focus!After
      <4> QED  BY <4>1, TurnsAre
    <3>3. CASE Focus!CenterDone
      <4> DEFINE t == Focus!Around(af.from, <<-Coarse, Coarse>>)
      <4>1. af' = Focus!Restore \/ af' = Focus!Scan(t, "sides")
        BY <2>2, <3>3, SMTT(60) DEF Focus!CenterDone, Focus!After
      <4> HIDE DEF t
      <4>2. Turning(Focus!Scan(t, "sides")) /\ Turning(Focus!Restore)
        BY TurnsAre
      <4> QED  BY <4>1, <4>2
    <3>4. CASE Focus!SidesDone \/ Focus!ProbeDone
      <4> DEFINE t(p) == Focus!Around(p, <<-2 * Fine, -Fine, Fine, 2 * Fine>>)
                 refine(p) == Focus!Scan(t(p), "refine")
                 climb(p) == [af EXCEPT !.pc = "climb", !.best = p]
      <4>1. (\E p : af' = refine(p)) \/ (\E p : af' = climb(p))
        <5>1. \/ af' \in {refine(af.from)} \cup {climb(p) : p \in af.seen \ {af.from}}
              \/ af' \in {refine(af.best)} \cup {climb(p) : p \in {af.best + Focus!Up} \cap af.seen}
          BY <2>2, <3>4, ZenonT(90) DEF Focus!SidesDone, Focus!ProbeDone, Focus!After
        <5> HIDE DEF refine, climb
        <5> QED  BY <5>1, SMTT(60)
      <4> HIDE DEF t
      <4>2. ASSUME NEW p PROVE Turning(refine(p)) /\ Turning(climb(p))
        BY TurnsAre
      <4> HIDE DEF refine, climb
      <4> QED  BY <4>1, <4>2
    <3>5. CASE Focus!After("verify", {[af EXCEPT !.pc = "settle", !.best = af.from]})
      BY <2>2, <3>5, TurnsAre DEF Focus!After
    <3> QED  BY <3>1, <3>2, <3>3, <3>4, <3>5
  <2> QED  BY <2>1, <2>2, SMTT(60)
<1> QED  BY <1>1, <1>2, StillSearches, TurnsTo, SMTT(60)

\* The search returns to its start, or settles on the best position.
LEMMA SettleStep ==
    ASSUME FocusIInv,
           Focus!SettleMove \/ Focus!HaltFirst \/ Focus!RestoreMove
    PROVE  FocusIInv'
<1>1. /\ UNCHANGED halted /\ DOMAIN af = AfFields /\ focus = [at |-> focus.at, goal |-> focus.goal]
      /\ af.pc \in {"settle", "halt", "restore"}
  BY DEF FocusIInv, Focus!SettleMove, Focus!HaltFirst, Focus!RestoreMove
<1>2. ~HasReturned(report) \/ halted
  BY <1>1, StillSearches
<1>3. CASE Focus!SettleMove
  <2>1. PICK p : \/ focus' = [focus EXCEPT !.goal = p] /\ af' = [af EXCEPT !.pc = "settling", !.best = p]
                 \/ focus' \in {focus, [focus EXCEPT !.goal = p]} /\ af' = Focus!Restore
    BY <1>3 DEF Focus!SettleMove, Focus!Moved, Focus!MoveFails
  <2>2. UNCHANGED report
    BY <1>3 DEF Focus!SettleMove
  <2>3. focus' = [at |-> focus'.at, goal |-> focus'.goal]
    BY <1>1, <2>1
  <2>4. CASE focus' = [focus EXCEPT !.goal = p] /\ af' = [af EXCEPT !.pc = "settling", !.best = p]
    <3>1. focus'.goal = p /\ DOMAIN af' = AfFields /\ af'.pc = "settling" /\ af'.best = p
      BY <1>1, <2>4, SMTT(60) DEF AfFields
    <3> QED  BY <1>1, <1>2, <2>2, <2>3, <3>1 DEF FocusIInv, Goes
  <2>5. CASE af' = Focus!Restore
    BY <1>1, <1>2, <2>2, <2>3, <2>5, TurnsAre, TurnsTo, ZenonT(90)
  <2> QED  BY <2>1, <2>4, <2>5
<1>4. CASE Focus!HaltFirst
  <2>1. UNCHANGED report /\ af' = Focus!Restore /\ focus' = [at |-> focus'.at, goal |-> focus'.goal]
    BY <1>1, <1>4 DEF Focus!HaltFirst, Focus!Halt
  <2> QED  BY <1>1, <1>2, <2>1, TurnsAre, TurnsTo
<1>5. CASE Focus!RestoreMove
  <2>1. \/ /\ focus' = [focus EXCEPT !.goal = af.from] /\ af' = [af EXCEPT !.pc = "restoring"]
           /\ report' = report
        \/ /\ focus' \in {focus, [focus EXCEPT !.goal = af.from]} /\ af' = [af EXCEPT !.pc = "end"]
           /\ report' = [Focus!None EXCEPT !.kind = "warning"]
    BY <1>5 DEF Focus!RestoreMove, Focus!Moved, Focus!MoveFails
  <2>2. focus' = [at |-> focus'.at, goal |-> focus'.goal]
    BY <1>1, <2>1
  <2>3. DOMAIN af' = AfFields /\ af'.from = af.from
        /\ \/ af'.pc = "restoring" /\ focus'.goal = af.from /\ report' = report
           \/ af'.pc = "end" /\ ~HasReturned(report')
    BY <1>1, <2>1 DEF AfFields, HasReturned, Focus!None
  <2> QED  BY <1>1, <1>2, <2>2, <2>3 DEF FocusIInv, Goes
<1> QED  BY <1>3, <1>4, <1>5

\* It waits, and returns where it is.
LEMMA ReturnStep ==
    ASSUME FocusIInv,
           Focus!SettleWait \/ Focus!VerifyDone \/ Focus!RestoreWait \/ Focus!End
    PROVE  FocusIInv'
<1>1. /\ UNCHANGED halted /\ DOMAIN af = AfFields /\ focus = [at |-> focus.at, goal |-> focus.goal]
      /\ af.pc \in {"settling", "scan", "restoring", "end"}
  BY DEF FocusIInv, Focus!SettleWait, Focus!VerifyDone, Focus!RestoreWait, Focus!End, Focus!After
<1>2. af.pc # "end" => ~HasReturned(report) \/ halted
  BY <1>1, StillSearches
<1>3. ASSUME UNCHANGED focus, af' = [af EXCEPT !.pc = "end"], ~HasReturned(report') \/ AtRest(focus, report'.best) \/ halted
      PROVE  FocusIInv'
  <2>1. DOMAIN af' = AfFields /\ af'.pc = "end"
    BY <1>1, <1>3 DEF AfFields
  <2> QED  BY <1>1, <1>3, <2>1 DEF FocusIInv, Goes
<1>4. CASE Focus!SettleWait
  <2>1. af.pc = "settling" /\ UNCHANGED focus
    BY <1>4 DEF Focus!SettleWait, Focus!Waited
  <2>2. ~halted => focus.goal = af.best
    BY <2>1, SMTT(60) DEF FocusIInv, Goes
  <2>3. CASE UNCHANGED report /\ (af' = Focus!Restore \/ af' = Focus!Cancelled)
    BY <1>1, <1>2, <2>1, <2>3, TurnsAre, TurnsTo
  <2>4. CASE af' = [Focus!Scan(<<af.best>>, "verify") EXCEPT !.seen = {}] /\ UNCHANGED report
    <3> DEFINE t == <<af.best>>
               s == Focus!Scan(t, "verify")
    <3>1. DOMAIN s = AfFields /\ s.pc = "scan" /\ s.stage = "verify" /\ s.todo = t /\ s.best = af.best
      BY ScanIs
    <3>2. af' = [s EXCEPT !.seen = {}]
      BY <2>4
    <3> HIDE DEF s, t
    <3>3. DOMAIN af' = AfFields /\ af'.pc = "scan" /\ af'.stage = "verify" /\ af'.todo = t /\ af'.best = af.best
          /\ af'.seen = {}
      BY <3>1, <3>2 DEF AfFields
    <3>4. Verifies(af', focus)
      BY <3>3 DEF Verifies, t
    <3> QED  BY <1>1, <1>2, <2>1, <2>4, <3>3, <3>4 DEF FocusIInv, Goes
  <2>5. CASE Focus!Success /\ focus.at = focus.goal
    <3>1. af' = [af EXCEPT !.pc = "end"] /\ report'.best = af.best
      BY <2>5 DEF Focus!Success
    <3> QED  BY <1>3, <2>1, <2>2, <2>5, <3>1 DEF AtRest
  <2>6. <2>3!1 \/ <2>4!1 \/ <2>5!1
    BY <1>4 DEF Focus!SettleWait, Focus!Waited, Focus!Moving
  <2> QED  BY <2>3, <2>4, <2>5, <2>6
<1>5. CASE Focus!VerifyDone
  <2>1. CASE Focus!After("verify", {[af EXCEPT !.pc = "settle", !.best = af.from]})
    BY <2>1, AfterStep
  <2>2. CASE /\ af.pc = "scan" /\ af.todo = <<>> /\ af.stage = "verify" /\ af.best \in af.seen
             /\ Focus!Success /\ UNCHANGED focus
    <3>1. ~halted => AtRest(focus, af.best)
      BY <2>2 DEF FocusIInv, Goes, Verifies
    <3>2. af' = [af EXCEPT !.pc = "end"] /\ report'.best = af.best
      BY <2>2 DEF Focus!Success
    <3> QED  BY <1>3, <2>2, <3>1, <3>2
  <2> QED  BY <1>5, <2>1, <2>2 DEF Focus!VerifyDone
<1>6. CASE Focus!RestoreWait
  <2>1. /\ af.pc = "restoring" /\ UNCHANGED focus /\ af' = [af EXCEPT !.pc = "end"]
        /\ \/ focus.at = focus.goal /\ report'.best = af.from
           \/ ~HasReturned(report')
    BY <1>6 DEF Focus!RestoreWait, Focus!Waited, Focus!Moving, HasReturned, Focus!None
  <2>2. ~halted => focus.goal = af.from
    BY <2>1 DEF FocusIInv, Goes
  <2> QED  BY <1>3, <2>1, <2>2 DEF AtRest
<1>7. CASE Focus!End
  <2>1. /\ af.pc = "end" /\ af' = [af EXCEPT !.pc = "idle"] /\ UNCHANGED report
        /\ focus' \in {focus, [focus EXCEPT !.goal = focus.at]}
    BY <1>7 DEF Focus!End, Focus!Halt
  <2>2. DOMAIN af' = AfFields /\ af'.pc = "idle" /\ focus' = [at |-> focus'.at, goal |-> focus'.goal]
        /\ (focus.at = focus.goal => focus' = focus)
    BY <1>1, <2>1 DEF AfFields
  <2> QED  BY <1>1, <2>1, <2>2 DEF FocusIInv, Goes, AtRest
<1> QED  BY <1>4, <1>5, <1>6, <1>7

\* Every step of the composition keeps the invariant.
LEMMA FocusStep == FocusIInv /\ [Next]_vars => FocusIInv'
<1> SUFFICES ASSUME FocusIInv, [Next]_vars PROVE FocusIInv'
  OBVIOUS
<1>1. CASE FocusNext
  BY <1>1, FocuserStep, ScanStep, SearchStep, AfterStep, SettleStep, ReturnStep DEF FocusNext, Focus!AfNext
<1>2. CASE UNCHANGED focusVars
  BY <1>2 DEF focusVars, FocusIInv
<1> QED  BY <1>1, <1>2 DEF Next, vars, MountNext, TableNext, SessionNext, LoaderNext, CanonNext, SdkNext,
         IndiNext, RecNext, SolveNext, NetNext, HandNext, VideoNext, LinksNext

\* Wherever the search starts, whatever its steps, and whatever fails, the focuser is at
\* rest where the search says it left it, unless a client halted it on the way.
THEOREM LeftAsReported == Spec => []FocusAsReported
<1>1. Init => FocusIInv
  BY FocusInitInv DEF Init
<1>2. FocusIInv => FocusAsReported
  BY DEF FocusIInv, Goes, HasReturned, AtRest, FocusAsReported, Focus!FocusAsReported
<1> QED  BY <1>1, <1>2, FocusStep, PTL DEF Spec

-----------------------------------------------------------------------------
(* IndiDevices: a vector is taken in the mode its call set.                *)

IndiProps == {"link", "mode", "coord", "track", "park", "guide", "abs", "rel", "stop", "none"}
IndiTos == {"none", "on", "off", "track", "sync", "in", "out"}
IndiMessages == [prop : IndiProps, to : IndiTos]
IndiExchanges == [do : {"say", "ask", "define", "await", "read", "fail"}, prop : IndiProps, to : IndiTos]

\* A vector that means what the mode says, and the mode it needs before it.
Moving(m) == m.prop \in {"coord", "rel"}
Directs(m, v) == m.prop = "mode" /\ m.to = v.to

\* On the wire, and in a call that has begun, a vector follows its mode.
WireFollows(w) == \A k \in 1 .. Len(w) : k > 1 /\ Moving(w[k]) => Directs(w[k - 1], w[k])
TodoFollows(s) ==
    \A k \in 1 .. Len(s) : k > 1 /\ s[k].do = "say" /\ Moving(s[k]) =>
                           s[k - 1].do = "say" /\ Directs(s[k - 1], s[k])

\* The driver is in the mode of the vector it takes next, or the mode is the last message
\* on the wire to it.
InMode(d, v) == d.link = "on" => d.mode = v.to
WireInMode(w, d) == w # <<>> /\ Moving(w[1]) => InMode(d, w[1])
SetFor(w, d, v) == IF w = <<>> THEN InMode(d, v) ELSE Directs(w[Len(w)], v)
TodoInMode(s, w, d) == s # <<>> /\ s[1].do = "say" /\ Moving(s[1]) => SetFor(w, d, s[1])

IndiOps == {"none", "slewTo", "syncTo", "abort", "ready", "setTracking", "park", "unpark", "pulseGuide",
            "moveAbsolute", "inward", "outward", "halt", "connect", "disconnect", "close", "failed"}
IndiTypes ==
    /\ drv \in [kind : {"none", "mount", "focuser"}, has : SUBSET IndiProps, link : IndiTos \cup {"alert"},
                mode : IndiTos, parked : BOOLEAN, moving : BOOLEAN]
    /\ wire \in Seq(IndiMessages) /\ icall \in [op : IndiOps, todo : Seq(IndiExchanges)]

InOrder == odd \cap {"overtaken", "restart"} = {}
IndiIInv ==
    /\ IndiTypes /\ TodoFollows(icall.todo)
    /\ InOrder => /\ taken.meant = taken.mode
                  /\ WireFollows(wire) /\ WireInMode(wire, drv) /\ TodoInMode(icall.todo, wire, drv)

\* Nothing that can be done to a call makes it begin with a vector.
Program(s) == s \in Seq(IndiExchanges) /\ TodoFollows(s) /\ (s # <<>> => ~(s[1].do = "say" /\ Moving(s[1])))

\* What goes wrong stays.
LEMMA OddStays == (\E w : odd' = odd \cup {w}) \/ odd' = odd => (InOrder' => InOrder)
BY DEF InOrder

\* The programs of the calls, one by one.
LEMMA MountPrograms ==
    \A op \in DOMAIN Indi!MountCalls : Program(Indi!MountCalls[op])
<1> USE DEF Indi!Say, Indi!Ask, Indi!Step, Program, TodoFollows, Moving, Directs, IndiExchanges, IndiProps, IndiTos
<1>1. Program(Indi!MountCalls.slewTo) /\ Program(Indi!MountCalls.syncTo)
  BY DEF Indi!MountCalls, Indi!Directed
<1>2. Program(Indi!MountCalls.abort) /\ Program(Indi!MountCalls.ready)
  BY DEF Indi!MountCalls
<1>3. Program(Indi!MountCalls.setTracking) /\ Program(Indi!MountCalls.park)
  BY DEF Indi!MountCalls
<1>4. Program(Indi!MountCalls.unpark) /\ Program(Indi!MountCalls.pulseGuide)
  BY DEF Indi!MountCalls
<1>5. DOMAIN Indi!MountCalls = {"slewTo", "syncTo", "abort", "ready", "setTracking", "park", "unpark", "pulseGuide"}
  BY DEF Indi!MountCalls
<1> HIDE DEF Program
<1> QED  BY <1>1, <1>2, <1>3, <1>4, <1>5

\* A relative move asks for two properties and sets its mode.
LEMMA FocuserPrograms ==
    \A op \in DOMAIN Indi!FocuserCalls : Program(Indi!FocuserCalls[op])
<1> USE DEF Indi!Say, Indi!Ask, Indi!Step, Program, TodoFollows, Moving, Directs, IndiExchanges, IndiProps, IndiTos
<1>1. ASSUME NEW way \in {"in", "out"} PROVE Program(Indi!MoveRelative(way))
  <2> DEFINE s == Indi!MoveRelative(way)
  <2> HIDE DEF Program
  <2>1. /\ s \in Seq(IndiExchanges) /\ Len(s) = 4 /\ s[1].do = "ask" /\ s[2].do = "ask"
        /\ s[3] = Indi!Say("mode", way) /\ s[4] = Indi!Say("rel", way)
    BY DEF Indi!MoveRelative, Indi!Directed
  <2> HIDE DEF s
  <2>2. TodoFollows(s)
    <3> SUFFICES ASSUME NEW k \in {1, 2, 3, 4}, k > 1, s[k].do = "say", Moving(s[k])
                 PROVE  s[k - 1].do = "say" /\ Directs(s[k - 1], s[k])
      BY <2>1 DEF TodoFollows
    <3>1. k = 4
      BY <2>1
    <3>2. s[k] = s[4] /\ s[k - 1] = s[3]
      BY <3>1
    <3> QED  BY <2>1, <3>2
  <2>3. s[1].do # "say"
    BY <2>1
  <2> QED  BY ONLY <2>1, <2>2, <2>3 DEF Program, s
<1>2. Program(Indi!FocuserCalls.moveAbsolute) /\ Program(Indi!FocuserCalls.halt)
  BY DEF Indi!FocuserCalls, Indi!MoveAbsolute
<1> HIDE DEF Program
<1>3. Program(Indi!FocuserCalls.inward) /\ Program(Indi!FocuserCalls.outward)
  BY <1>1 DEF Indi!FocuserCalls
<1>4. DOMAIN Indi!FocuserCalls = {"moveAbsolute", "inward", "outward", "halt"}
  BY DEF Indi!FocuserCalls
<1> QED  BY <1>2, <1>3, <1>4

\* Connecting, closing and reading a status are programs too.
LEMMA OtherPrograms ==
    /\ Program(<<>>) /\ Program(Indi!Closing) /\ Program(<<Indi!Step("read")>>) /\ Program(<<Indi!Step("fail")>>)
    /\ Program(<<Indi!SetConnection("off")>>) /\ Program(Indi!MoveAbsolute)
    /\ \A p \in {"coord", "abs"} : Program(Indi!ConnectServer \o <<Indi!Ask(p)>>)
<1> USE DEF Indi!Say, Indi!Ask, Indi!Step, Program, TodoFollows, Moving, Directs, IndiExchanges, IndiProps, IndiTos,
            Indi!SetConnection
<1>1. Program(<<>>) /\ Program(Indi!Closing) /\ Program(<<Indi!Step("read")>>) /\ Program(<<Indi!Step("fail")>>)
  BY DEF Indi!Closing
<1>2. Program(<<Indi!SetConnection("off")>>) /\ Program(Indi!MoveAbsolute)
  BY DEF Indi!MoveAbsolute
<1>3. ASSUME NEW p \in {"coord", "abs"} PROVE Program(Indi!ConnectServer \o <<Indi!Ask(p)>>)
  <2> DEFINE s == Indi!ConnectServer \o <<Indi!Ask(p)>>
  <2> HIDE DEF Program
  <2>1. /\ s \in Seq(IndiExchanges) /\ Len(s) = 4 /\ s[1].do = "define"
        /\ s[2] = Indi!Say("link", "on") /\ s[3].do = "await" /\ s[4].do = "ask"
    BY DEF Indi!ConnectServer
  <2> HIDE DEF s
  <2>2. TodoFollows(s)
    <3> SUFFICES ASSUME NEW k \in {1, 2, 3, 4}, k > 1, s[k].do = "say", Moving(s[k])
                 PROVE  s[k - 1].do = "say" /\ Directs(s[k - 1], s[k])
      BY <2>1 DEF TodoFollows
    <3>1. k = 4
      BY <2>1
    <3>2. s[k] = s[4] /\ s[k - 1] = s[3]
      BY <3>1
    <3> QED  BY <2>1, <3>2
  <2>3. s[1].do # "say"
    BY <2>1
  <2> QED  BY ONLY <2>1, <2>2, <2>3 DEF Program, s
<1> HIDE DEF Program
<1> QED  BY <1>1, <1>2, <1>3

\* No device is plugged in and nothing is on the wire.
LEMMA IndiInitInv == Indi!IndiInit => IndiIInv
<1> SUFFICES ASSUME Indi!IndiInit PROVE IndiIInv
  OBVIOUS
<1>1. /\ drv = [kind |-> "none", has |-> {}, link |-> "off", mode |-> "none", parked |-> FALSE, moving |-> FALSE]
      /\ wire = <<>> /\ icall = Indi!Idle /\ taken.meant = taken.mode
  BY DEF Indi!IndiInit
<1> QED  BY <1>1 DEF IndiIInv, IndiTypes, IndiTos, IndiOps, Indi!Idle, TodoFollows, WireFollows, WireInMode, TodoInMode

\* What is left of a call.
LEMMA RestFollows ==
    ASSUME NEW s \in Seq(IndiExchanges), s # <<>>, TodoFollows(s)
    PROVE  /\ Tail(s) \in Seq(IndiExchanges) /\ TodoFollows(Tail(s))
           /\ Tail(s) # <<>> /\ Tail(s)[1].do = "say" /\ Moving(Tail(s)[1]) =>
                 s[1].do = "say" /\ Directs(s[1], Tail(s)[1])
<1> DEFINE t == Tail(s)
<1>1. /\ t \in Seq(IndiExchanges) /\ Len(s) = Len(t) + 1 /\ Len(t) \in Nat /\ (t # <<>> => Len(t) > 0)
      /\ \A k \in 1 .. Len(t) : t[k] = s[k + 1]
  OBVIOUS
<1> HIDE DEF t
<1>2. ASSUME NEW k \in 1 .. Len(t), t[k].do = "say", Moving(t[k])
      PROVE  s[k].do = "say" /\ Directs(s[k], t[k])
  <2>1. k + 1 \in 1 .. Len(s) /\ k + 1 > 1 /\ (k + 1) - 1 = k /\ t[k] = s[k + 1]
    BY <1>1
  <2> QED  BY <1>2, <2>1 DEF TodoFollows
<1>3. TodoFollows(t)
  <2> SUFFICES ASSUME NEW k \in 1 .. Len(t), k > 1, t[k].do = "say", Moving(t[k])
               PROVE  t[k - 1].do = "say" /\ Directs(t[k - 1], t[k])
    BY DEF TodoFollows
  <2>1. t[k - 1] = s[k]
    <3>1. k - 1 \in 1 .. Len(t) /\ (k - 1) + 1 = k
      BY <1>1
    <3> QED  BY <1>1, <3>1
  <2> QED  BY <1>2, <2>1
<1>4. t # <<>> => 1 \in 1 .. Len(t)
  BY <1>1
<1> QED  BY <1>1, <1>2, <1>3, <1>4 DEF t

\* A call begins, turns to another program or ends.
LEMMA TurnStep ==
    ASSUME IndiIInv, icall' \in [op : IndiOps, todo : Seq(IndiExchanges)],
           Program(icall'.todo), UNCHANGED <<drv, wire, taken>>,
           (\E w : odd' = odd \cup {w}) \/ odd' = odd
    PROVE  IndiIInv'
<1>1. IndiTypes' /\ TodoFollows(icall'.todo)
  BY DEF IndiIInv, IndiTypes, Program
<1>2. InOrder' => InOrder
  BY OddStays
<1>3. TodoInMode(icall'.todo, wire, drv)
  BY DEF TodoInMode, Program
<1> QED  BY <1>1, <1>2, <1>3 DEF IndiIInv

\* The next exchange of a call comes when one that says nothing is over.
LEMMA NextStep ==
    ASSUME IndiIInv, icall.todo # <<>>, icall.todo[1].do # "say", icall' = [icall EXCEPT !.todo = Tail(icall.todo)],
           UNCHANGED <<drv, wire, taken>>, odd' = odd
    PROVE  IndiIInv'
<1>1. icall.todo \in Seq(IndiExchanges) /\ TodoFollows(icall.todo)
  BY DEF IndiIInv, IndiTypes
<1> DEFINE rest == Tail(icall.todo)
<1>2. Program(rest)
  BY <1>1, RestFollows DEF Program
<1>3. rest \in Seq(IndiExchanges)
  BY <1>2 DEF Program
<1> HIDE DEF rest
<1>4. icall' \in [op : IndiOps, todo : Seq(IndiExchanges)] /\ icall'.todo = rest
  BY <1>3 DEF IndiIInv, IndiTypes, rest
<1> QED  BY <1>2, <1>4, TurnStep

\* A vector is written after its mode.
LEMMA WriteFollows ==
    ASSUME IndiIInv, InOrder, icall.todo # <<>>, icall.todo[1].do = "say"
    PROVE  LET m == [prop |-> icall.todo[1].prop, to |-> icall.todo[1].to] IN
           /\ WireFollows(Append(wire, m))
           /\ Moving(Append(wire, m)[1]) => InMode(drv, Append(wire, m)[1])
<1> DEFINE e == icall.todo[1]
           m == [prop |-> e.prop, to |-> e.to]
<1>1. wire \in Seq(IndiMessages) /\ icall.todo \in Seq(IndiExchanges)
  BY DEF IndiIInv, IndiTypes
<1>2. e \in IndiExchanges /\ e.do = "say"
  BY <1>1
<1>3. m \in IndiMessages /\ m.prop = e.prop /\ m.to = e.to
  BY <1>2 DEF IndiMessages, IndiExchanges
<1>4. WireFollows(wire) /\ WireInMode(wire, drv) /\ TodoInMode(icall.todo, wire, drv)
  BY DEF IndiIInv
<1>5. Moving(m) => SetFor(wire, drv, e)
  BY <1>2, <1>3, <1>4 DEF TodoInMode, Moving
<1> HIDE DEF e, m
<1>6. Len(Append(wire, m)) = Len(wire) + 1 /\ Append(wire, m)[Len(wire) + 1] = m
      /\ \A k \in 1 .. Len(wire) : Append(wire, m)[k] = wire[k]
  BY <1>1, <1>3
<1>7. Len(wire) \in Nat /\ (Len(wire) = 0 <=> wire = <<>>)
  BY <1>1
<1>8. WireFollows(Append(wire, m))
  <2> SUFFICES ASSUME NEW k \in 1 .. Len(Append(wire, m)), k > 1, Moving(Append(wire, m)[k])
               PROVE  Directs(Append(wire, m)[k - 1], Append(wire, m)[k])
    BY DEF WireFollows
  <2>1. CASE k <= Len(wire)
    <3>1. k \in 1 .. Len(wire) /\ k - 1 \in 1 .. Len(wire)
      BY <1>7, <2>1
    <3> QED  BY <1>4, <1>6, <3>1 DEF WireFollows
  <2>2. CASE k = Len(wire) + 1
    <3>1. Len(wire) \in 1 .. Len(wire) /\ k - 1 = Len(wire)
      BY <1>7, <2>2
    <3>2. Append(wire, m)[k] = m /\ Append(wire, m)[k - 1] = wire[Len(wire)]
      BY <1>6, <2>2, <3>1
    <3>3. Directs(wire[Len(wire)], m)
      BY <1>3, <1>5, <1>7, <3>1, <3>2 DEF SetFor, Directs
    <3> QED  BY <3>2, <3>3
  <2> QED  BY <1>6, <1>7, <2>1, <2>2
<1>9. Moving(Append(wire, m)[1]) => InMode(drv, Append(wire, m)[1])
  <2>1. CASE wire = <<>>
    <3>1. Append(wire, m)[1] = m
      BY <1>6, <1>7, <2>1
    <3> QED  BY <1>3, <1>5, <2>1, <3>1 DEF SetFor, InMode
  <2>2. CASE wire # <<>>
    <3>1. 1 \in 1 .. Len(wire)
      BY <1>7, <2>2
    <3> QED  BY <1>4, <1>6, <2>2, <3>1 DEF WireInMode
  <2> QED  BY <2>1, <2>2
<1> QED  BY <1>8, <1>9 DEF m, e

\* A call that is refused something turns to another program.
LEMMA RefusedTurns ==
    ASSUME IndiTypes, Indi!Refused
    PROVE  icall' \in [op : IndiOps, todo : Seq(IndiExchanges)] /\ Program(icall'.todo)
<1>1. icall \in [op : IndiOps, todo : Seq(IndiExchanges)]
  BY DEF IndiTypes
<1> DEFINE op == IF icall.op \in {"connect", "close", "disconnect"} THEN icall.op ELSE "failed"
           rest == IF icall.op = "connect" THEN <<Indi!Step("fail")>> ELSE <<>>
<1>2. \/ icall' = [op |-> "close", todo |-> Indi!Closing]
      \/ icall' = [icall EXCEPT !.todo = <<Indi!Step("read")>>]
      \/ icall' = [icall EXCEPT !.op = op, !.todo = rest]
  BY DEF Indi!Refused
<1>3. op \in IndiOps /\ "close" \in IndiOps
  BY <1>1 DEF IndiOps
<1>4. Program(rest) /\ Program(Indi!Closing) /\ Program(<<Indi!Step("read")>>)
  BY OtherPrograms
<1>5. \A s : Program(s) => s \in Seq(IndiExchanges)
  BY DEF Program
<1> HIDE DEF op, rest
<1>6. CASE icall' = [op |-> "close", todo |-> Indi!Closing]
  BY <1>3, <1>4, <1>5, <1>6
<1>7. CASE icall' = [icall EXCEPT !.todo = <<Indi!Step("read")>>]
  BY <1>1, <1>4, <1>5, <1>7
<1>8. CASE icall' = [icall EXCEPT !.op = op, !.todo = rest]
  BY <1>1, <1>3, <1>4, <1>5, <1>8
<1> QED  BY <1>2, <1>6, <1>7, <1>8

\* A message is written, or is not; the call goes on or turns.
LEMMA SendStep ==
    ASSUME IndiIInv, Indi!Send
    PROVE  IndiIInv'
<1> DEFINE m == [prop |-> icall.todo[1].prop, to |-> icall.todo[1].to]
<1>1. /\ icall.todo # <<>> /\ icall.todo[1].do = "say" /\ UNCHANGED <<drv, taken>>
      /\ \/ icall' = [icall EXCEPT !.todo = Tail(icall.todo)] /\ odd' = odd /\ wire' = Append(wire, m)
         \/ Indi!Refused /\ Indi!Fault("write") /\ wire' \in {wire, Append(wire, m)}
  BY DEF Indi!Send, Indi!At, Indi!Prop, Indi!Done, Indi!Sound
<1>2. wire \in Seq(IndiMessages) /\ icall.todo \in Seq(IndiExchanges) /\ TodoFollows(icall.todo)
  BY DEF IndiIInv, IndiTypes
<1>3. icall.todo[1] \in IndiExchanges
  BY <1>1, <1>2
<1>4. m \in IndiMessages /\ m.prop = icall.todo[1].prop /\ m.to = icall.todo[1].to
  BY <1>3 DEF IndiMessages, IndiExchanges
<1> HIDE DEF m
<1>5. Append(wire, m) \in Seq(IndiMessages) /\ Append(wire, m) # <<>>
      /\ Append(wire, m)[Len(Append(wire, m))] = m
  BY <1>2, <1>4
<1>6. InOrder => WireFollows(Append(wire, m)) /\ (Moving(Append(wire, m)[1]) => InMode(drv, Append(wire, m)[1]))
  BY <1>1, WriteFollows DEF m
<1>7. CASE icall' = [icall EXCEPT !.todo = Tail(icall.todo)] /\ odd' = odd /\ wire' = Append(wire, m)
  <2> DEFINE rest == Tail(icall.todo)
  <2>1. rest \in Seq(IndiExchanges) /\ TodoFollows(rest)
    BY <1>1, <1>2, RestFollows
  <2>2. rest # <<>> /\ rest[1].do = "say" /\ Moving(rest[1]) => Directs(icall.todo[1], rest[1])
    BY <1>1, <1>2 DEF TodoFollows
  <2> HIDE DEF rest
  <2>3. icall' \in [op : IndiOps, todo : Seq(IndiExchanges)] /\ icall'.todo = rest
    BY <1>7, <2>1 DEF IndiIInv, IndiTypes, rest
  <2>4. IndiTypes'
    BY <1>1, <1>5, <1>7, <2>3 DEF IndiIInv, IndiTypes
  <2>5. InOrder' => InOrder
    BY <1>7 DEF InOrder
  <2>6. InOrder => WireInMode(Append(wire, m), drv)
    BY <1>6 DEF WireInMode
  <2>7. TodoInMode(rest, Append(wire, m), drv)
    BY <1>4, <1>5, <2>2 DEF Directs, SetFor, TodoInMode
  <2> QED  BY <1>1, <1>6, <1>7, <2>1, <2>3, <2>4, <2>5, <2>6, <2>7 DEF IndiIInv
<1>8. CASE Indi!Refused /\ Indi!Fault("write") /\ wire' \in {wire, Append(wire, m)}
  <2>1. icall' \in [op : IndiOps, todo : Seq(IndiExchanges)] /\ Program(icall'.todo)
    BY <1>8, RefusedTurns DEF IndiIInv
  <2>2. InOrder' => InOrder
    BY <1>8, OddStays DEF Indi!Fault
  <2>3. IndiTypes'
    BY <1>1, <1>2, <1>5, <1>8, <2>1 DEF IndiIInv, IndiTypes
  <2>4. InOrder => WireInMode(wire', drv) /\ WireFollows(wire')
    BY <1>6, <1>8 DEF IndiIInv, WireInMode
  <2>5. TodoInMode(icall'.todo, wire', drv) /\ TodoFollows(icall'.todo)
    BY <2>1 DEF TodoInMode, Program
  <2>6. InOrder => taken'.meant = taken'.mode
    BY <1>1 DEF IndiIInv
  <2> QED  BY <1>1, <2>2, <2>3, <2>4, <2>5, <2>6 DEF IndiIInv
<1> QED  BY <1>1, <1>7, <1>8

\* The driver obeys a message, or cannot connect.
LEMMA Obeys ==
    ASSUME IndiTypes, NEW msg \in IndiMessages,
           \/ drv' = Indi!Obeyed(msg)
           \/ msg.prop = "link" /\ drv' = [drv EXCEPT !.link = "alert"]
    PROVE  /\ drv' \in [kind : {"none", "mount", "focuser"}, has : SUBSET IndiProps, link : IndiTos \cup {"alert"},
                         mode : IndiTos, parked : BOOLEAN, moving : BOOLEAN]
           /\ \A v : Directs(msg, v) => InMode(drv', v)
<1>1. /\ drv \in [kind : {"none", "mount", "focuser"}, has : SUBSET IndiProps, link : IndiTos \cup {"alert"},
                  mode : IndiTos, parked : BOOLEAN, moving : BOOLEAN]
      /\ msg.to \in IndiTos
  BY DEF IndiTypes, IndiMessages
<1>2. CASE msg.prop = "mode" /\ drv' = Indi!Obeyed(msg)
  <2>1. drv' = IF drv.link # "on" THEN drv ELSE [drv EXCEPT !.mode = msg.to]
    BY <1>2 DEF Indi!Obeyed
  <2> QED  BY <1>1, <2>1 DEF Directs, InMode
<1>3. CASE msg.prop # "mode" /\ drv' = Indi!Obeyed(msg)
  <2> DEFINE going == ~drv.parked /\ drv.mode = "track"
             on == msg.to = "on"
  <2>1. \/ drv' = drv \/ drv' = [drv EXCEPT !.link = msg.to] \/ drv' = [drv EXCEPT !.moving = going]
        \/ drv' = [drv EXCEPT !.moving = TRUE] \/ drv' = [drv EXCEPT !.moving = FALSE]
        \/ drv' = [drv EXCEPT !.parked = on, !.moving = on]
    BY <1>3 DEF Indi!Obeyed
  <2>2. going \in BOOLEAN /\ on \in BOOLEAN
    OBVIOUS
  <2> HIDE DEF going, on
  <2> QED  BY <1>1, <1>3, <2>1, <2>2 DEF Directs
<1>4. CASE msg.prop = "link" /\ drv' = [drv EXCEPT !.link = "alert"]
  BY <1>1, <1>4 DEF Directs
<1> QED  BY <1>2, <1>3, <1>4

\* The first message leaves the wire.
LEMMA RemovesFirst ==
    ASSUME NEW w \in Seq(IndiMessages), w # <<>>
    PROVE  /\ Len(Indi!RemoveAt(w, 1)) = Len(w) - 1
           /\ \A k \in 1 .. Len(Indi!RemoveAt(w, 1)) : Indi!RemoveAt(w, 1)[k] = w[k + 1]
<1> DEFINE rest == Tail(w)
<1>1. /\ rest \in Seq(IndiMessages) /\ Len(rest) = Len(w) - 1
      /\ \A k \in 1 .. Len(rest) : rest[k] = w[k + 1]
  OBVIOUS
<1>2. SubSeq(w, 1, 1 - 1) = <<>>
  OBVIOUS
<1> HIDE DEF rest
<1>3. <<>> \o rest = rest
  BY <1>1, ConcatEmptySeq
<1>4. Indi!RemoveAt(w, 1) = rest
  <2>1. SubSeq(w, 1 + 1, Len(w)) = rest
    BY TailIsSubSeq DEF rest
  <2> QED  BY <1>2, <1>3, <2>1 DEF Indi!RemoveAt
<1> QED  BY <1>1, <1>4

\* The driver takes the first message, or one that overtook it.
LEMMA TakeStep ==
    ASSUME IndiIInv, NEW i \in DOMAIN wire, Indi!Take(i)
    PROVE  IndiIInv'
<1>0. IndiTypes /\ TodoFollows(icall.todo) /\ wire \in Seq(IndiMessages) /\ Len(wire) \in Nat
      /\ icall' = icall
  BY DEF IndiIInv, IndiTypes, Indi!Take
<1>1. i \in 1 .. Len(wire) /\ wire[i] \in IndiMessages /\ wire # <<>>
  BY <1>0
<1>2. /\ \/ drv' = Indi!Obeyed(wire[i])
         \/ i = 1 /\ wire[i].prop = "link" /\ drv' = [drv EXCEPT !.link = "alert"]
      /\ (\E w : odd' = odd \cup {w}) \/ odd' = odd
      /\ i # 1 => odd' = odd \cup {"overtaken"}
  BY DEF Indi!Take, Indi!Sound, Indi!Fault
<1>3. /\ drv' \in [kind : {"none", "mount", "focuser"}, has : SUBSET IndiProps, link : IndiTos \cup {"alert"},
                   mode : IndiTos, parked : BOOLEAN, moving : BOOLEAN]
      /\ \A v : Directs(wire[i], v) => InMode(drv', v)
  BY <1>0, <1>1, <1>2, Obeys
<1>4. wire' \in Seq(IndiMessages)
  BY <1>0, <1>1 DEF Indi!Take, Indi!RemoveAt
<1>5. IndiTypes'
  BY <1>0, <1>3, <1>4 DEF IndiTypes
<1>6. CASE i # 1
  BY <1>0, <1>2, <1>5, <1>6 DEF IndiIInv, InOrder
<1>7. CASE i = 1
  <2>1. /\ Len(wire') = Len(wire) - 1 /\ \A k \in 1 .. Len(wire') : wire'[k] = wire[k + 1]
    BY <1>0, <1>1, <1>7, RemovesFirst DEF Indi!Take
  <2>2. InOrder' => InOrder
    BY <1>2, OddStays
  <2> SUFFICES ASSUME InOrder
               PROVE  /\ taken'.meant = taken'.mode
                      /\ WireFollows(wire') /\ WireInMode(wire', drv') /\ TodoInMode(icall.todo, wire', drv')
    BY <1>0, <1>5, <2>2 DEF IndiIInv
  <2>3. /\ taken.meant = taken.mode
        /\ WireFollows(wire) /\ WireInMode(wire, drv) /\ TodoInMode(icall.todo, wire, drv)
    BY DEF IndiIInv
  <2>4. taken'.meant = taken'.mode
    <3>1. CASE wire[1].prop \in {"coord", "rel"} /\ drv.link = "on"
      <4>1. taken' = [meant |-> wire[1].to, mode |-> drv.mode]
        BY <1>7, <3>1 DEF Indi!Take
      <4>2. drv.mode = wire[1].to
        BY <1>1, <2>3, <3>1 DEF WireInMode, Moving, InMode
      <4> QED  BY <4>1, <4>2
    <3>2. CASE ~(wire[1].prop \in {"coord", "rel"} /\ drv.link = "on")
      BY <1>7, <2>3, <3>2 DEF Indi!Take
    <3> QED  BY <3>1, <3>2
  <2>5. ASSUME NEW k \in 1 .. Len(wire'), Moving(wire'[k])
        PROVE  Directs(wire[k], wire'[k])
    <3>1. k + 1 \in 1 .. Len(wire) /\ k + 1 > 1 /\ (k + 1) - 1 = k /\ wire'[k] = wire[k + 1]
      BY <1>0, <2>1
    <3> QED  BY <2>3, <2>5, <3>1 DEF WireFollows
  <2>6. WireFollows(wire')
    <3> SUFFICES ASSUME NEW k \in 1 .. Len(wire'), k > 1, Moving(wire'[k])
                 PROVE  Directs(wire'[k - 1], wire'[k])
      BY DEF WireFollows
    <3>1. k - 1 \in 1 .. Len(wire') /\ (k - 1) + 1 = k
      BY <1>0, <2>1
    <3> QED  BY <2>1, <2>5, <3>1
  <2>7. WireInMode(wire', drv')
    <3> SUFFICES ASSUME wire' # <<>>, Moving(wire'[1]) PROVE InMode(drv', wire'[1])
      BY DEF WireInMode
    <3>1. 1 \in 1 .. Len(wire')
      BY <1>4
    <3> QED  BY <1>3, <1>7, <2>5, <3>1
  <2>8. TodoInMode(icall.todo, wire', drv')
    <3> SUFFICES ASSUME icall.todo # <<>>, icall.todo[1].do = "say", Moving(icall.todo[1])
                 PROVE  SetFor(wire', drv', icall.todo[1])
      BY DEF TodoInMode
    <3>1. Directs(wire[Len(wire)], icall.todo[1])
      BY <1>1, <2>3 DEF TodoInMode, SetFor
    <3>2. CASE wire' = <<>>
      <4>1. Len(wire) = 1
        BY <1>0, <2>1, <3>2
      <4> QED  BY <1>3, <1>7, <3>1, <3>2, <4>1 DEF SetFor
    <3>3. CASE wire' # <<>>
      <4>1. Len(wire') \in 1 .. Len(wire') /\ Len(wire') + 1 = Len(wire)
        BY <1>0, <1>4, <2>1, <3>3
      <4>2. wire'[Len(wire')] = wire[Len(wire)]
        BY <2>1, <4>1
      <4> QED  BY <3>1, <3>3, <4>2 DEF SetFor
    <3> QED  BY <3>2, <3>3
  <2> QED  BY <2>4, <2>6, <2>7, <2>8
<1> QED  BY <1>6, <1>7

\* The rest of the driver and its server.
LEMMA ServerStep ==
    ASSUME IndiIInv, Indi!Plug \/ Indi!Rests \/ Indi!Restart
    PROVE  IndiIInv'
<1>0. IndiTypes /\ TodoFollows(icall.todo)
  BY DEF IndiIInv
<1> DEFINE Drivers == [kind : {"none", "mount", "focuser"}, has : SUBSET IndiProps, link : IndiTos \cup {"alert"},
                       mode : IndiTos, parked : BOOLEAN, moving : BOOLEAN]
<1>1. drv \in Drivers
  BY <1>0 DEF IndiTypes
<1>2. CASE Indi!Plug \/ Indi!Rests
  <2>1. UNCHANGED <<wire, icall, taken, odd>>
    BY <1>2 DEF Indi!Plug, Indi!Rests
  <2>2. drv' \in Drivers /\ drv'.link = drv.link /\ drv'.mode = drv.mode
    <3>1. CASE Indi!Plug
      <4>1. PICK k \in {"mount", "focuser"} : \E h \in Indi!Properties(k) : drv' = [drv EXCEPT !.kind = k, !.has = h]
        BY <3>1 DEF Indi!Plug
      <4>2. PICK h \in Indi!Properties(k) : drv' = [drv EXCEPT !.kind = k, !.has = h]
        BY <4>1
      <4>3. h \in SUBSET IndiProps
        BY DEF Indi!Properties, IndiProps
      <4> QED  BY <1>1, <4>2, <4>3
    <3>2. CASE Indi!Rests
      BY <1>1, <3>2 DEF Indi!Rests
    <3> QED  BY <1>2, <3>1, <3>2
  <2>3. IndiTypes'
    BY <1>0, <2>1, <2>2 DEF IndiTypes
  <2>4. InOrder => WireInMode(wire, drv') /\ TodoInMode(icall.todo, wire, drv')
    BY <2>2 DEF IndiIInv, WireInMode, TodoInMode, SetFor, InMode
  <2> QED  BY <2>1, <2>3, <2>4 DEF IndiIInv, InOrder
<1>3. CASE Indi!Restart
  <2>1. /\ drv' = [drv EXCEPT !.link = "off", !.moving = FALSE] /\ wire' = <<>> /\ icall' = icall
        /\ odd' = odd \cup {"restart"}
    BY <1>3 DEF Indi!Restart, Indi!Fault
  <2>2. IndiTypes'
    <3>1. "off" \in IndiTos
      BY DEF IndiTos
    <3>2. drv' \in Drivers
      BY <1>1, <2>1, <3>1
    <3> QED  BY <1>0, <2>1, <3>2 DEF IndiTypes
  <2> QED  BY <1>0, <2>1, <2>2 DEF IndiIInv, InOrder
<1> QED  BY <1>2, <1>3

\* Calls begin with their programs, go on, turn and end.
LEMMA CallStep ==
    ASSUME IndiIInv,
           \/ Indi!Call \/ Indi!Connect \/ Indi!Disconnect \/ Indi!Exists \/ Indi!Define \/ Indi!Await
           \/ Indi!MountStatus \/ Indi!FocuserStatus \/ Indi!Return
    PROVE  IndiIInv'
<1>0. /\ UNCHANGED <<drv, wire, taken>> 
      /\ (\E w : odd' = odd \cup {w}) \/ odd' = odd
      /\ IndiTypes /\ icall \in [op : IndiOps, todo : Seq(IndiExchanges)]
  BY DEF IndiIInv, IndiTypes, Indi!Call, Indi!Connect, Indi!Disconnect, Indi!Exists, Indi!Define, Indi!Await,
         Indi!MountStatus, Indi!FocuserStatus, Indi!Status, Indi!Return, Indi!Fault, Indi!Sound
<1> DEFINE Turned == icall' \in [op : IndiOps, todo : Seq(IndiExchanges)] /\ Program(icall'.todo)
<1>1. ASSUME NEW op \in IndiOps, NEW s, Program(s), icall' = [op |-> op, todo |-> s]
      PROVE  Turned
  BY <1>1 DEF Program
<1>2. ASSUME NEW s, Program(s), icall' = [icall EXCEPT !.todo = s]
      PROVE  Turned
  BY <1>0, <1>2 DEF Program
<1>3. CASE Indi!Call
  <2>1. PICK op \in DOMAIN Indi!Calls : icall' = [op |-> op, todo |-> Indi!Calls[op]]
    BY <1>3 DEF Indi!Call
  <2>2. Program(Indi!Calls[op])
    BY MountPrograms, FocuserPrograms DEF Indi!Calls
  <2>3. op \in IndiOps
    BY DEF Indi!Calls, Indi!MountCalls, Indi!FocuserCalls, IndiOps
  <2>4. Turned
    BY <1>1, <2>1, <2>2, <2>3
  <2> QED  BY <1>0, <2>4, TurnStep
<1>4. CASE Indi!Connect \/ Indi!Disconnect
  <2>1. \/ \E p \in {"coord", "abs"} : icall' = [op |-> "connect", todo |-> Indi!ConnectServer \o <<Indi!Ask(p)>>]
        \/ icall' = [op |-> "disconnect", todo |-> <<Indi!SetConnection("off")>>]
    BY <1>4 DEF Indi!Connect, Indi!Disconnect
  <2>2. "connect" \in IndiOps /\ "disconnect" \in IndiOps
    BY DEF IndiOps
  <2>3. Turned
    BY <1>1, <2>1, <2>2, OtherPrograms
  <2> QED  BY <1>0, <2>3, TurnStep
<1>5. CASE Indi!Exists \/ Indi!Define \/ Indi!Await
  <2>1. /\ icall.todo # <<>> /\ icall.todo[1].do # "say"
        /\ \/ icall' = [icall EXCEPT !.todo = Tail(icall.todo)] /\ odd' = odd
           \/ Indi!Refused
    BY <1>5 DEF Indi!Exists, Indi!Define, Indi!Await, Indi!At, Indi!Done, Indi!Sound
  <2> QED  BY <1>0, <2>1, NextStep, TurnStep, RefusedTurns
<1>6. CASE Indi!MountStatus \/ Indi!FocuserStatus
  <2>1. \/ icall' = [icall EXCEPT !.todo = Indi!MountCalls.unpark] \/ icall' = [icall EXCEPT !.todo = <<>>]
        \/ icall' = [op |-> "moveAbsolute", todo |-> Indi!MoveAbsolute]
    BY <1>6 DEF Indi!MountStatus, Indi!FocuserStatus, Indi!Status
  <2>2. Program(Indi!MountCalls.unpark) /\ "moveAbsolute" \in IndiOps
    BY MountPrograms DEF Indi!MountCalls, IndiOps
  <2>3. Turned
    BY <1>1, <1>2, <2>1, <2>2, OtherPrograms
  <2> QED  BY <1>0, <2>3, TurnStep
<1>7. CASE Indi!Return
  <2>1. icall' = [op |-> "none", todo |-> <<>>] /\ "none" \in IndiOps
    BY <1>7 DEF Indi!Return, Indi!Idle, IndiOps
  <2>2. Turned
    BY <1>1, <2>1, OtherPrograms
  <2> QED  BY <1>0, <2>2, TurnStep
<1> QED  BY <1>3, <1>4, <1>5, <1>6, <1>7

\* Every step of the composition keeps the invariant.
LEMMA IndiStep == IndiIInv /\ [Next]_vars => IndiIInv'
<1> SUFFICES ASSUME IndiIInv, [Next]_vars PROVE IndiIInv'
  OBVIOUS
<1>1. CASE IndiNext
  BY <1>1, TakeStep, ServerStep, CallStep, SendStep DEF IndiNext, Indi!IndiNext, Indi!Driver
<1>2. CASE UNCHANGED indiVars
  BY <1>2 DEF indiVars, IndiIInv, IndiTypes, InOrder
<1> QED  BY <1>1, <1>2 DEF Next, vars, MountNext, TableNext, SessionNext, LoaderNext, CanonNext, SdkNext,
         FocusNext, RecNext, SolveNext, NetNext, HandNext, VideoNext, LinksNext

\* However many calls are made, and whichever fail, a vector is taken in the mode its own
\* call set, unless a message overtook another or the server restarted.
THEOREM TakenAsMeant == Spec => []CommandsAsMeant
<1>1. Init => IndiIInv
  BY IndiInitInv DEF Init
<1>2. IndiIInv => CommandsAsMeant
  BY DEF IndiIInv, InOrder, CommandsAsMeant, Indi!CommandsAsMeant
<1> QED  BY <1>1, <1>2, IndiStep, PTL DEF Spec

-----------------------------------------------------------------------------
(* HandController: no motion is left that nobody asked for.                *)

CallFields == {"m", "todo", "ok", "bad", "on", "seen"}
HandCommands ==
    [do : {"position", "trackingMode", "gotoBusy", "pierSide", "alignment", "goto", "abort", "sync", "tracking"},
     arm : {"none"}, on : {FALSE}]
    \cup [do : {"rate"}, arm : {"ra", "dec"}, on : BOOLEAN]

\* What is left of a call's commands: the last ones of its program.
Runs(c, p) ==
    /\ DOMAIN c = CallFields /\ p \in Seq(HandCommands) /\ c.todo \in Seq(HandCommands)
    /\ Len(c.todo) <= Len(p)
    /\ \A i \in 1 .. Len(c.todo) : c.todo[i] = p[Len(p) - Len(c.todo) + i]

\* A manual slew that failed goes on with its other axis and stops both.
RescueOf(on) == <<Hand!FixedRate("dec", on), Hand!FixedRate("ra", FALSE), Hand!FixedRate("dec", FALSE)>>

MainRuns(c) ==
    \/ c = Hand!Free
    \/ c.m = "sync" /\ Runs(c, Hand!SyncOf)
    \/ c.m = "tracking" /\ Runs(c, Hand!TrackingOf)
    \/ c.m = "manual" /\ Runs(c, Hand!ManualOf(c.on))
    \/ c.m = "rescue" /\ \E on \in BOOLEAN : Runs(c, RescueOf(on))
    \/ c.m = "pulse" /\ \E arm \in Hand!Arms : Runs(c, Hand!PulseOf(arm))
    \/ c.m = "abort" /\ Runs(c, Hand!AbortOf)
PoolRuns(c, op) ==
    \/ c = Hand!Free /\ op \in {"none", "starting", "polling"}
    \/ c.m = "slew" /\ Runs(c, Hand!SlewOf) /\ op = "commanding" /\ (c.todo # <<>> => c.bad = {})
    \/ c.m = "status" /\ Runs(c, Hand!StatusOf) /\ op = "polling"
    \/ c.m = "abort" /\ Runs(c, Hand!AbortOf) /\ op = "aborting"

HandTypes ==
    /\ DOMAIN hand = {"goto", "turn", "aligned"} /\ hand.goto \in BOOLEAN /\ hand.turn \subseteq Hand!Arms
    /\ MainRuns(hmain) /\ PoolRuns(hpool, gotoOp)

\* A GOTO is an operation's: it was commanded, and nothing that ended the operation missed it.
GotoOwned(c, op, h) ==
    /\ op \in {"none", "starting"} => ~h.goto
    /\ c.m = "slew" /\ (c.todo # <<>> \/ c.bad # {}) => ~h.goto
    /\ c.m = "status" => "position" \notin c.bad /\ (Len(c.todo) <= 2 /\ ~c.seen => ~h.goto)
    /\ c.m = "abort" /\ Len(c.todo) <= 2 => ~h.goto

\* An axis that turns was asked to, or the call that has the mount is going to stop it.
TurnAsked(c, tn, h) ==
    /\ c.m \in {"none", "sync", "tracking", "abort"} => h.turn \subseteq tn
    /\ c.m = "pulse" => h.turn \subseteq tn \cup IF Len(c.todo) = 1 THEN {c.todo[1].arm} ELSE {}
    /\ c.m = "manual" => /\ Len(c.todo) <= 1 /\ "ra" \in h.turn => "ra" \in c.on
                         /\ Len(c.todo) = 0 => h.turn \subseteq c.on
    /\ c.m \in {"rescue", "abort"} => /\ Len(c.todo) <= 1 => "ra" \notin h.turn
                                      /\ Len(c.todo) = 0 => h.turn = {}

GotoMissed(un) ==
    un \cap {<<"abort", "abort">>, <<"status", "gotoBusy">>, <<"status", "position">>, <<"slew", "goto">>} # {}
RateMissed(un) == un \cap {<<"abort", "rate">>, <<"pulse", "rate">>, <<"rescue", "rate">>} # {}

HandIInv ==
    /\ HandTypes
    /\ GotoMissed(unheard) \/ GotoOwned(hpool, gotoOp, hand)
    /\ RateMissed(unheard) \/ TurnAsked(hmain, turned, hand)

\* Nothing has been commanded.
LEMMA HandInitInv == Hand!HandInit => HandIInv
<1> SUFFICES ASSUME Hand!HandInit PROVE HandIInv
  OBVIOUS
<1> USE DEF Hand!HandInit
<1>1. HandTypes
  BY DEF HandTypes, MainRuns, PoolRuns
<1>2. GotoOwned(hpool, gotoOp, hand)
  BY DEF GotoOwned, Hand!Free
<1>3. TurnAsked(hmain, turned, hand)
  BY DEF TurnAsked, Hand!Free
<1> QED  BY <1>1, <1>2, <1>3 DEF HandIInv

\* The commands of the calls.
LEMMA ProgramsAre ==
    /\ \A do \in {"position", "trackingMode", "gotoBusy", "pierSide", "alignment", "goto", "abort", "sync", "tracking"} :
          Hand!Cmd(do) \in HandCommands /\ Hand!Cmd(do).do = do
    /\ \A arm \in Hand!Arms, on \in BOOLEAN :
          LET c == Hand!FixedRate(arm, on) IN c \in HandCommands /\ c.do = "rate" /\ c.arm = arm /\ c.on = on
BY DEF HandCommands, Hand!Cmd, Hand!FixedRate, Hand!Arms

\* The calls of one command.
LEMMA OnesAre ==
    /\ Hand!SyncOf \in Seq(HandCommands) /\ Len(Hand!SyncOf) = 1 /\ Hand!SyncOf[1] = Hand!Cmd("sync")
    /\ Hand!TrackingOf \in Seq(HandCommands) /\ Len(Hand!TrackingOf) = 1 /\ Hand!TrackingOf[1] = Hand!Cmd("tracking")
BY ProgramsAre DEF Hand!SyncOf, Hand!TrackingOf

\* The calls of two.
LEMMA TwosAre ==
    /\ Hand!SlewOf \in Seq(HandCommands) /\ Len(Hand!SlewOf) = 2
       /\ Hand!SlewOf[1] = Hand!Cmd("alignment") /\ Hand!SlewOf[2] = Hand!Cmd("goto")
    /\ \A on : /\ Hand!ManualOf(on) \in Seq(HandCommands) /\ Len(Hand!ManualOf(on)) = 2
               /\ Hand!ManualOf(on)[1] = Hand!FixedRate("ra", "ra" \in on)
               /\ Hand!ManualOf(on)[2] = Hand!FixedRate("dec", "dec" \in on)
    /\ \A arm \in Hand!Arms : /\ Hand!PulseOf(arm) \in Seq(HandCommands) /\ Len(Hand!PulseOf(arm)) = 2
               /\ Hand!PulseOf(arm)[1] = Hand!FixedRate(arm, TRUE)
               /\ Hand!PulseOf(arm)[2] = Hand!FixedRate(arm, FALSE)
    /\ Hand!StopManualAxes \in Seq(HandCommands) /\ Len(Hand!StopManualAxes) = 2
       /\ Hand!StopManualAxes[1] = Hand!FixedRate("ra", FALSE) /\ Hand!StopManualAxes[2] = Hand!FixedRate("dec", FALSE)
<1>1. /\ Hand!SlewOf \in Seq(HandCommands) /\ Len(Hand!SlewOf) = 2
      /\ Hand!SlewOf[1] = Hand!Cmd("alignment") /\ Hand!SlewOf[2] = Hand!Cmd("goto")
  BY ProgramsAre DEF Hand!SlewOf
<1>2. "ra" \in Hand!Arms /\ "dec" \in Hand!Arms
  BY DEF Hand!Arms
<1>3. ASSUME NEW a \in HandCommands, NEW b \in HandCommands
      PROVE  <<a, b>> \in Seq(HandCommands) /\ Len(<<a, b>>) = 2 /\ <<a, b>>[1] = a /\ <<a, b>>[2] = b
  OBVIOUS
<1>4. ASSUME NEW on
      PROVE  /\ Hand!FixedRate("ra", "ra" \in on) \in HandCommands
             /\ Hand!FixedRate("dec", "dec" \in on) \in HandCommands
  <2>1. \A b \in BOOLEAN : Hand!FixedRate("ra", b) \in HandCommands /\ Hand!FixedRate("dec", b) \in HandCommands
    BY <1>2, ProgramsAre
  <2>2. ("ra" \in on) \in BOOLEAN /\ ("dec" \in on) \in BOOLEAN
    OBVIOUS
  <2> QED  BY <2>1, <2>2
<1>5. ASSUME NEW arm \in Hand!Arms
      PROVE  Hand!FixedRate(arm, TRUE) \in HandCommands /\ Hand!FixedRate(arm, FALSE) \in HandCommands
  BY ProgramsAre
<1> QED  BY <1>1, <1>2, <1>3, <1>4, <1>5 DEF Hand!ManualOf, Hand!PulseOf, Hand!StopManualAxes

\* The others.
LEMMA MoreAre ==
    /\ Hand!AbortOf \in Seq(HandCommands) /\ Len(Hand!AbortOf) = 3
       /\ Hand!AbortOf[1] = Hand!Cmd("abort") /\ Hand!AbortOf[2] = Hand!FixedRate("ra", FALSE)
       /\ Hand!AbortOf[3] = Hand!FixedRate("dec", FALSE)
    /\ \A on \in BOOLEAN : /\ RescueOf(on) \in Seq(HandCommands) /\ Len(RescueOf(on)) = 3
               /\ RescueOf(on)[1] = Hand!FixedRate("dec", on)
               /\ RescueOf(on)[2] = Hand!FixedRate("ra", FALSE) /\ RescueOf(on)[3] = Hand!FixedRate("dec", FALSE)
    /\ Hand!StatusOf \in Seq(HandCommands) /\ Len(Hand!StatusOf) = 5
       /\ Hand!StatusOf[1] = Hand!Cmd("position") /\ Hand!StatusOf[2] = Hand!Cmd("trackingMode")
       /\ Hand!StatusOf[3] = Hand!Cmd("gotoBusy") /\ Hand!StatusOf[4] = Hand!Cmd("pierSide")
       /\ Hand!StatusOf[5] = Hand!Cmd("alignment")
<1>1. /\ Hand!AbortOf \in Seq(HandCommands) /\ Len(Hand!AbortOf) = 3
      /\ Hand!AbortOf[1] = Hand!Cmd("abort") /\ Hand!AbortOf[2] = Hand!FixedRate("ra", FALSE)
      /\ Hand!AbortOf[3] = Hand!FixedRate("dec", FALSE)
  <2> DEFINE one == <<Hand!Cmd("abort")>>
             two == Hand!StopManualAxes
  <2>1. one \in Seq(HandCommands) /\ Len(one) = 1 /\ one[1] = Hand!Cmd("abort")
    BY ProgramsAre
  <2>2. two \in Seq(HandCommands) /\ Len(two) = 2
        /\ two[1] = Hand!FixedRate("ra", FALSE) /\ two[2] = Hand!FixedRate("dec", FALSE)
    BY TwosAre
  <2> HIDE DEF one, two
  <2>3. one \o two \in Seq(HandCommands) /\ Len(one \o two) = Len(one) + Len(two)
    BY <2>1, <2>2, ConcatProperties
  <2>4. \A i \in 1 .. Len(one) + Len(two) :
          (one \o two)[i] = IF i <= Len(one) THEN one[i] ELSE two[i - Len(one)]
    BY <2>1, <2>2, ConcatProperties
  <2> DEFINE all == one \o two
  <2>5. all \in Seq(HandCommands) /\ Len(all) = 3
    BY <2>1, <2>2, <2>3
  <2>6. \A i \in 1 .. 3 : all[i] = IF i <= 1 THEN one[i] ELSE two[i - 1]
    <3>1. Len(one) = 1 /\ Len(two) = 2 /\ 1 + 2 = 3
      BY <2>1, <2>2
    <3>2. \A i \in 1 .. 1 + 2 : (one \o two)[i] = IF i <= 1 THEN one[i] ELSE two[i - 1]
      BY ONLY <2>4, <3>1
    <3> QED  BY <3>1, <3>2
  <2> HIDE DEF all
  <2>7. all[1] = one[1] /\ all[2] = two[1] /\ all[3] = two[2]
    <3>1. 1 \in 1 .. 3 /\ 2 \in 1 .. 3 /\ 3 \in 1 .. 3 /\ 2 - 1 = 1 /\ 3 - 1 = 2
      OBVIOUS
    <3> QED  BY <2>6, <3>1
  <2> QED  BY <2>1, <2>2, <2>5, <2>7 DEF Hand!AbortOf, one, two, all
<1>2. "ra" \in Hand!Arms /\ "dec" \in Hand!Arms
  BY DEF Hand!Arms
<1>3. ASSUME NEW a \in HandCommands, NEW b \in HandCommands, NEW c \in HandCommands
      PROVE  /\ <<a, b, c>> \in Seq(HandCommands) /\ Len(<<a, b, c>>) = 3
             /\ <<a, b, c>>[1] = a /\ <<a, b, c>>[2] = b /\ <<a, b, c>>[3] = c
  OBVIOUS
<1>4. ASSUME NEW on \in BOOLEAN
      PROVE  /\ RescueOf(on) \in Seq(HandCommands) /\ Len(RescueOf(on)) = 3
             /\ RescueOf(on)[1] = Hand!FixedRate("dec", on)
             /\ RescueOf(on)[2] = Hand!FixedRate("ra", FALSE) /\ RescueOf(on)[3] = Hand!FixedRate("dec", FALSE)
  <2>1. Hand!FixedRate("dec", on) \in HandCommands /\ Hand!FixedRate("ra", FALSE) \in HandCommands
        /\ Hand!FixedRate("dec", FALSE) \in HandCommands
    BY <1>2, ProgramsAre
  <2> QED  BY <1>3, <2>1 DEF RescueOf
<1>5. ASSUME NEW a \in HandCommands, NEW b \in HandCommands, NEW c \in HandCommands, NEW d \in HandCommands, NEW e \in HandCommands
      PROVE  /\ <<a, b, c, d, e>> \in Seq(HandCommands) /\ Len(<<a, b, c, d, e>>) = 5
             /\ <<a, b, c, d, e>>[1] = a /\ <<a, b, c, d, e>>[2] = b /\ <<a, b, c, d, e>>[3] = c
             /\ <<a, b, c, d, e>>[4] = d /\ <<a, b, c, d, e>>[5] = e
  OBVIOUS
<1>6. /\ Hand!Cmd("position") \in HandCommands /\ Hand!Cmd("trackingMode") \in HandCommands
      /\ Hand!Cmd("gotoBusy") \in HandCommands /\ Hand!Cmd("pierSide") \in HandCommands
      /\ Hand!Cmd("alignment") \in HandCommands
  BY ProgramsAre
<1>7. /\ Hand!StatusOf \in Seq(HandCommands) /\ Len(Hand!StatusOf) = 5
      /\ Hand!StatusOf[1] = Hand!Cmd("position") /\ Hand!StatusOf[2] = Hand!Cmd("trackingMode")
      /\ Hand!StatusOf[3] = Hand!Cmd("gotoBusy") /\ Hand!StatusOf[4] = Hand!Cmd("pierSide")
      /\ Hand!StatusOf[5] = Hand!Cmd("alignment")
  BY <1>5, <1>6 DEF Hand!StatusOf
<1> QED  BY <1>1, <1>4, <1>7

\* What a command does to the mount.
LEMMA DoesIs ==
    ASSUME HandTypes, NEW cmd \in HandCommands
    PROVE  LET h == Hand!Does(cmd) IN
           /\ DOMAIN h = {"goto", "turn", "aligned"} /\ h.goto \in BOOLEAN /\ h.turn \subseteq Hand!Arms
           /\ cmd.do # "goto" /\ h.goto => hand.goto
           /\ cmd.do = "abort" => ~h.goto
           /\ h.turn = IF cmd.do # "rate" THEN hand.turn
                       ELSE IF cmd.on THEN hand.turn \cup {cmd.arm} ELSE hand.turn \ {cmd.arm}
<1> DEFINE h == Hand!Does(cmd)
<1>0. DOMAIN hand = {"goto", "turn", "aligned"} /\ hand.goto \in BOOLEAN /\ hand.turn \subseteq Hand!Arms
  BY DEF HandTypes
<1>1. CASE cmd.do = "rate"
  <2>1. cmd.on \in BOOLEAN /\ cmd.arm \in Hand!Arms
    BY <1>1 DEF HandCommands, Hand!Arms
  <2>2. h = [hand EXCEPT !.turn = IF cmd.on THEN hand.turn \cup {cmd.arm} ELSE hand.turn \ {cmd.arm}]
    BY <1>1 DEF Hand!Does
  <2> QED  BY <1>0, <1>1, <2>1, <2>2
<1>2. CASE cmd.do = "goto"
  BY <1>0, <1>2 DEF Hand!Does
<1>3. CASE cmd.do = "abort"
  BY <1>0, <1>3 DEF Hand!Does
<1>4. CASE cmd.do \notin {"rate", "goto", "abort"}
  BY <1>0, <1>4 DEF Hand!Does
<1> QED  BY <1>1, <1>2, <1>3, <1>4

\* The command that is next, and what is left after it.
LEMMA NextOf ==
    ASSUME NEW c, NEW p, Runs(c, p), c.todo # <<>>
    PROVE  LET n == Len(c.todo) IN
           /\ n \in 1 .. Len(p) /\ Len(p) \in Nat /\ Head(c.todo) = p[Len(p) - n + 1] /\ Head(c.todo) \in HandCommands
           /\ \A s : DOMAIN s = CallFields /\ s.todo \in {Tail(c.todo), <<>>} =>
                 Runs(s, p) /\ (s.todo = Tail(c.todo) => Len(s.todo) = n - 1) /\ (s.todo = <<>> => Len(s.todo) = 0)
<1> DEFINE t == c.todo
           n == Len(t)
           r == Tail(t)
<1>1. t \in Seq(HandCommands) /\ t # <<>> /\ p \in Seq(HandCommands) /\ n <= Len(p)
      /\ \A i \in 1 .. n : t[i] = p[Len(p) - n + i]
  BY DEF Runs
<1>2. n \in 1 .. Len(p) /\ Len(p) \in Nat /\ Head(t) = t[1] /\ t[1] \in HandCommands
  BY <1>1
<1>3. Head(t) = p[Len(p) - n + 1]
  <2>1. 1 \in 1 .. n
    BY <1>2
  <2> QED  BY <1>1, <1>2, <2>1
<1>4. r \in Seq(HandCommands) /\ Len(r) = n - 1 /\ \A i \in 1 .. n - 1 : r[i] = t[i + 1]
  BY <1>1, <1>2
<1>5. \A i \in 1 .. n - 1 : r[i] = p[Len(p) - (n - 1) + i]
  <2> TAKE i \in 1 .. n - 1
  <2>1. i + 1 \in 1 .. n /\ Len(p) - n + (i + 1) = Len(p) - (n - 1) + i
    BY <1>2
  <2> QED  BY <1>1, <1>4, <2>1
<1>6. <<>> \in Seq(HandCommands) /\ Len(<<>>) = 0
  OBVIOUS
<1> HIDE DEF r, n
<1>7. ASSUME NEW s, DOMAIN s = CallFields, s.todo = r PROVE Runs(s, p) /\ Len(s.todo) = n - 1
  <2>1. s.todo \in Seq(HandCommands) /\ Len(s.todo) = n - 1
    BY <1>4, <1>7
  <2>2. n - 1 <= Len(p)
    BY <1>2
  <2>3. \A i \in 1 .. Len(s.todo) : s.todo[i] = p[Len(p) - Len(s.todo) + i]
    BY <1>5, <1>7, <2>1, Zenon
  <2> QED  BY <1>1, <1>7, <2>1, <2>2, <2>3, Zenon DEF Runs
<1>8. ASSUME NEW s, DOMAIN s = CallFields, s.todo = <<>> PROVE Runs(s, p) /\ Len(s.todo) = 0
  BY <1>1, <1>2, <1>6, <1>8 DEF Runs
<1> QED  BY <1>2, <1>3, <1>7, <1>8 DEF r, n

\* An exchange of a call whose next command is cmd: it is obeyed and answered, or not answered.
Exchanged(c, cn, p, n, cmd) ==
    /\ n \in 1 .. Len(p) /\ Len(p) \in Nat /\ cmd \in HandCommands
    /\ UNCHANGED <<gotoOp, flagged, turned, handCalls>> /\ unheard \subseteq unheard'
    /\ hand' \in {hand, Hand!Does(cmd)}
    /\ \/ /\ hand' = Hand!Does(cmd) /\ cn.m = c.m /\ cn.on = c.on /\ Runs(cn, p)
          /\ cn.seen = IF cmd.do = "gotoBusy" THEN hand.goto ELSE c.seen
          /\ \/ Len(cn.todo) = n - 1 /\ cn.bad = c.bad
             \/ cmd.do = "alignment" /\ c.m = "slew" /\ cn.bad # {} /\ Len(cn.todo) = 0
       \/ /\ <<c.m, cmd.do>> \in unheard'
          /\ c.m # "manual" =>
                /\ Runs(cn, p) /\ cn.m = c.m /\ cn.on = c.on /\ cn.bad = c.bad \cup {cmd.do} /\ cn.seen = c.seen
                /\ Len(cn.todo) \in {0, n - 1}
                /\ c.m = "status" /\ cmd.do # "position" => Len(cn.todo) = n - 1
                /\ c.m \in {"abort", "rescue"} => Len(cn.todo) = n - 1
                /\ c.m = "slew" => Len(cn.todo) = 0
          /\ c.m = "manual" =>
                /\ cn.m = "rescue" /\ DOMAIN cn = CallFields
                /\ cn.todo = Tail(c.todo) \o Hand!StopManualAxes

\* That is what an exchange does.
LEMMA ExchangeIs ==
    ASSUME NEW c, NEW cn, NEW p, Runs(c, p), Hand!HandExchange(c, cn)
    PROVE  Exchanged(c, cn, p, Len(c.todo), p[Len(p) - Len(c.todo) + 1])
<1> DEFINE n == Len(c.todo)
           cmd == p[Len(p) - n + 1]
           head == Head(c.todo)
<1>1. /\ c.todo # <<>> /\ UNCHANGED <<gotoOp, flagged, turned, handCalls>>
      /\ \/ cn = Hand!Answered(c, head) /\ hand' = Hand!Does(head) /\ UNCHANGED unheard
         \/ /\ unheard' = unheard \cup {<<c.m, head.do>>}
            /\ cn = Hand!Unanswered(c, head) /\ hand' \in {hand, Hand!Does(head)}
  BY DEF Hand!HandExchange
<1>2. /\ n \in 1 .. Len(p) /\ Len(p) \in Nat /\ head = cmd /\ cmd \in HandCommands
      /\ \A s : DOMAIN s = CallFields /\ s.todo \in {Tail(c.todo), <<>>} =>
            Runs(s, p) /\ (s.todo = Tail(c.todo) => Len(s.todo) = n - 1) /\ (s.todo = <<>> => Len(s.todo) = 0)
  BY <1>1, NextOf
<1>3. DOMAIN c = CallFields
  BY DEF Runs
<1> HIDE DEF n, cmd, head
<1>4. CASE cn = Hand!Answered(c, head) /\ hand' = Hand!Does(head) /\ UNCHANGED unheard
  <2>1. /\ DOMAIN cn = CallFields /\ cn.m = c.m /\ cn.on = c.on
        /\ cn.seen = IF head.do = "gotoBusy" THEN hand.goto ELSE c.seen
    BY <1>3, <1>4 DEF Hand!Answered, CallFields
  <2>2. \/ cn.todo = Tail(c.todo) /\ cn.bad = c.bad
        \/ head.do = "alignment" /\ c.m = "slew" /\ cn.bad = c.bad \cup {"alignment"} /\ cn.todo = <<>>
    BY <1>3, <1>4 DEF Hand!Answered, CallFields
  <2>3. /\ Runs(cn, p) /\ (cn.todo = Tail(c.todo) => Len(cn.todo) = n - 1)
        /\ (cn.todo = <<>> => Len(cn.todo) = 0)
    BY <1>2, <2>1, <2>2
  <2>4. cn.bad = c.bad \cup {"alignment"} => cn.bad # {}
    OBVIOUS
  <2> QED  BY <1>1, <1>2, <1>4, <2>1, <2>2, <2>3, <2>4 DEF n, cmd, Exchanged
<1>5. CASE /\ unheard' = unheard \cup {<<c.m, head.do>>}
           /\ cn = Hand!Unanswered(c, head) /\ hand' \in {hand, Hand!Does(head)}
  <2>1. CASE c.m = "manual"
    <3>1. cn.m = "rescue" /\ DOMAIN cn = CallFields /\ cn.todo = Tail(c.todo) \o Hand!StopManualAxes
      BY <1>3, <1>5, <2>1 DEF Hand!Unanswered, CallFields
    <3> QED  BY <1>1, <1>2, <1>5, <2>1, <3>1 DEF n, cmd, Exchanged
  <2>2. CASE c.m # "manual"
    <3>1. /\ DOMAIN cn = CallFields /\ cn.m = c.m /\ cn.on = c.on /\ cn.seen = c.seen
          /\ cn.todo \in {Tail(c.todo), <<>>} /\ cn.bad = c.bad \cup {head.do}
          /\ c.m = "status" /\ head.do # "position" => cn.todo = Tail(c.todo)
          /\ c.m = "slew" => cn.todo = <<>>
          /\ c.m \in {"abort", "rescue"} => cn.todo = Tail(c.todo)
      BY <1>3, <1>5, <2>2 DEF Hand!Unanswered, CallFields
    <3>2. /\ Runs(cn, p) /\ Len(cn.todo) \in {0, n - 1}
          /\ c.m = "status" /\ head.do # "position" => Len(cn.todo) = n - 1
          /\ c.m = "slew" => Len(cn.todo) = 0
          /\ c.m \in {"abort", "rescue"} => Len(cn.todo) = n - 1
      BY <1>2, <3>1
    <3> QED  BY <1>1, <1>2, <1>5, <2>2, <3>1, <3>2 DEF n, cmd, Exchanged
  <2> QED  BY <2>1, <2>2
<1> QED  BY <1>1, <1>4, <1>5

\* What was not heard stays known.
LEMMA MissedStays ==
    ASSUME unheard \subseteq unheard'
    PROVE  /\ GotoMissed(unheard) => GotoMissed(unheard')
           /\ RateMissed(unheard) => RateMissed(unheard')
BY DEF GotoMissed, RateMissed

\* Fewer motions are asked for too.
LEMMA FewerMotions ==
    ASSUME HandIInv, unheard \subseteq unheard'
    PROVE  /\ UNCHANGED <<hmain, turned>> /\ hand'.turn \subseteq hand.turn
                 => RateMissed(unheard') \/ TurnAsked(hmain', turned', hand')
           /\ UNCHANGED <<hpool, gotoOp>> /\ (hand'.goto => hand.goto)
                 => GotoMissed(unheard') \/ GotoOwned(hpool', gotoOp', hand')
<1>1. ASSUME UNCHANGED <<hmain, turned>>, hand'.turn \subseteq hand.turn, TurnAsked(hmain, turned, hand)
      PROVE  TurnAsked(hmain', turned', hand')
  BY <1>1 DEF TurnAsked
<1>2. ASSUME UNCHANGED <<hpool, gotoOp>>, hand'.goto => hand.goto, GotoOwned(hpool, gotoOp, hand)
      PROVE  GotoOwned(hpool', gotoOp', hand')
  BY <1>2 DEF GotoOwned
<1> QED  BY <1>1, <1>2, MissedStays DEF HandIInv

\* An exchange of the operation's call.
LEMMA PoolSendsStep ==
    ASSUME HandIInv, Hand!PoolSends
    PROVE  HandIInv'
<1>1. HandTypes /\ UNCHANGED hmain /\ Hand!HandExchange(hpool, hpool')
  BY DEF HandIInv, Hand!PoolSends
<1>2. hpool # Hand!Free
  BY <1>1 DEF Hand!HandExchange, Hand!Free
<1> DEFINE Goal == /\ PoolRuns(hpool', gotoOp') /\ unheard \subseteq unheard' /\ UNCHANGED turned
                   /\ DOMAIN hand' = {"goto", "turn", "aligned"} /\ hand'.goto \in BOOLEAN
                   /\ hand'.turn \subseteq hand.turn
                   /\ (GotoOwned(hpool, gotoOp, hand) => GotoMissed(unheard') \/ GotoOwned(hpool', gotoOp', hand'))
<1>a. DOMAIN hand = {"goto", "turn", "aligned"} /\ hand.goto \in BOOLEAN
  BY <1>1 DEF HandTypes
<1>b. "ra" \in Hand!Arms /\ "dec" \in Hand!Arms
  BY DEF Hand!Arms
<1>3. ASSUME hpool.m = "slew" /\ Runs(hpool, Hand!SlewOf) /\ gotoOp = "commanding" /\ (hpool.todo # <<>> => hpool.bad = {})
      PROVE  Goal
  <2> DEFINE p == Hand!SlewOf
             n == Len(hpool.todo)
             cmd == p[Len(p) - n + 1]
  <2>1. Runs(hpool, p) /\ hpool.m = "slew" /\ Len(p) = 2
    BY <1>3, TwosAre
  <2> HIDE DEF p
  <2>2. /\ n \in 1 .. Len(p) /\ cmd \in HandCommands
        /\ UNCHANGED <<gotoOp, flagged, turned, handCalls>> /\ unheard \subseteq unheard'
        /\ hand' \in {hand, Hand!Does(cmd)}
        /\ \/ /\ hpool'.m = "slew" /\ Runs(hpool', p)
              /\ \/ Len(hpool'.todo) = n - 1 /\ hpool'.bad = hpool.bad
                 \/ cmd.do = "alignment" /\ hpool'.bad # {} /\ Len(hpool'.todo) = 0
           \/ /\ <<"slew", cmd.do>> \in unheard' /\ Len(hpool'.todo) = 0
              /\ Runs(hpool', p) /\ hpool'.m = "slew" /\ hpool'.bad = hpool.bad \cup {cmd.do}
    <3>1. Exchanged(hpool, hpool', p, n, cmd)
      BY <1>1, <2>1, ExchangeIs
    <3> HIDE DEF n, cmd
    <3> QED  BY <2>1, <3>1 DEF Exchanged
  <2>3. n \in {1, 2} /\ (n = 1 => cmd.do = "goto") /\ (n = 2 => cmd.do = "alignment")
    <3>1. p[1].do = "alignment" /\ p[2].do = "goto"
      BY TwosAre, ProgramsAre DEF p
    <3>2. n \in 1 .. 2 /\ cmd = p[2 - n + 1]
      BY <2>1, <2>2
    <3> HIDE DEF n, cmd
    <3>3. n = 1 \/ n = 2
      BY <3>2
    <3>4. cmd = IF n = 1 THEN p[2] ELSE p[1]
      BY <3>2, <3>3
    <3> QED  BY <3>1, <3>2, <3>3, <3>4
  <2>4. /\ Hand!Does(cmd).turn = hand.turn /\ DOMAIN Hand!Does(cmd) = {"goto", "turn", "aligned"}
        /\ Hand!Does(cmd).goto \in BOOLEAN
        /\ (n = 2 => (Hand!Does(cmd).goto => hand.goto))
    BY <1>1, <2>2, <2>3, DoesIs
  <2> HIDE DEF n, cmd
  <2>a. hpool.bad = {}
    <3>1. Len(<<>>) = 0
      OBVIOUS
    <3>2. hpool.todo # <<>>
      BY <2>3, <3>1 DEF n
    <3> QED  BY <1>3, <3>2
  <2>5. PoolRuns(hpool', gotoOp')
    <3>1. Len(hpool'.todo) = 0 => hpool'.todo = <<>>
      BY <2>2 DEF Runs
    <3> QED  BY <1>3, <2>2, <2>a, <3>1 DEF PoolRuns, p
  <2>6. DOMAIN hand' = {"goto", "turn", "aligned"} /\ hand'.goto \in BOOLEAN /\ hand'.turn \subseteq hand.turn
    BY <1>a, <2>2, <2>4
  <2>7. ASSUME GotoOwned(hpool, gotoOp, hand) PROVE GotoMissed(unheard') \/ GotoOwned(hpool', gotoOp', hand')
    <3>1. ~hand.goto
      BY <2>1, <2>7, <2>3 DEF GotoOwned, n
    <3>2. CASE n = 2
      BY <1>3, <2>2, <2>4, <3>1, <3>2 DEF GotoOwned
    <3>3. CASE n = 1 /\ <<"slew", cmd.do>> \in unheard'
      BY <2>3, <3>3 DEF GotoMissed
    <3>4. CASE n = 1 /\ hpool'.m = "slew" /\ Len(hpool'.todo) = n - 1 /\ hpool'.bad = hpool.bad
      <4>1. hpool'.todo = <<>> /\ hpool'.bad = {}
        BY <2>2, <2>a, <3>4 DEF Runs
      <4> QED  BY <1>3, <2>2, <3>4, <4>1 DEF GotoOwned
    <3> QED  BY <2>2, <2>3, <3>2, <3>3, <3>4
  <2> QED  BY <2>2, <2>5, <2>6, <2>7
<1>4. ASSUME hpool.m = "status" /\ Runs(hpool, Hand!StatusOf) /\ gotoOp = "polling"
      PROVE  Goal
  <2> DEFINE p == Hand!StatusOf
             n == Len(hpool.todo)
             cmd == p[Len(p) - n + 1]
  <2>1. Runs(hpool, p) /\ hpool.m = "status" /\ Len(p) = 5
    BY <1>4, MoreAre
  <2> HIDE DEF p
  <2>2. /\ n \in 1 .. Len(p) /\ cmd \in HandCommands
        /\ UNCHANGED <<gotoOp, flagged, turned, handCalls>> /\ unheard \subseteq unheard'
        /\ hand' \in {hand, Hand!Does(cmd)} /\ hpool'.m = "status" /\ Runs(hpool', p)
        /\ \/ /\ hpool'.seen = IF cmd.do = "gotoBusy" THEN hand.goto ELSE hpool.seen
              /\ hand' = Hand!Does(cmd)
              /\ \/ Len(hpool'.todo) = n - 1 /\ hpool'.bad = hpool.bad
                 \/ hpool.m = "slew"
           \/ /\ <<"status", cmd.do>> \in unheard' /\ hpool'.seen = hpool.seen /\ hpool'.bad = hpool.bad \cup {cmd.do}
              /\ (cmd.do # "position" => Len(hpool'.todo) = n - 1)
    <3>1. Exchanged(hpool, hpool', p, n, cmd)
      BY <1>1, <2>1, ExchangeIs
    <3> HIDE DEF n, cmd
    <3> QED  BY <2>1, <3>1 DEF Exchanged
  <2>3. n \in 1 .. 5 /\ cmd.do \notin {"rate", "goto"} /\ (n = 5 => cmd.do = "position") /\ (n = 3 => cmd.do = "gotoBusy")
        /\ (cmd.do = "position" => n = 5)
    <3>1. p[1].do = "position" /\ p[2].do = "trackingMode" /\ p[3].do = "gotoBusy" /\ p[4].do = "pierSide" /\ p[5].do = "alignment"
      BY MoreAre, ProgramsAre DEF p
    <3>2. n \in 1 .. 5 /\ cmd = p[5 - n + 1]
      BY <2>1, <2>2
    <3> HIDE DEF n, cmd
    <3>3. n = 1 \/ n = 2 \/ n = 3 \/ n = 4 \/ n = 5
      BY <3>2
    <3>4. cmd = IF n = 1 THEN p[5] ELSE IF n = 2 THEN p[4] ELSE IF n = 3 THEN p[3] ELSE IF n = 4 THEN p[2] ELSE p[1]
      BY <3>2, <3>3
    <3> QED  BY <3>1, <3>2, <3>3, <3>4
  <2>4. /\ Hand!Does(cmd).turn = hand.turn /\ DOMAIN Hand!Does(cmd) = {"goto", "turn", "aligned"}
        /\ Hand!Does(cmd).goto \in BOOLEAN
        /\ (Hand!Does(cmd).goto => hand.goto)
    BY <1>1, <2>2, <2>3, DoesIs
  <2> HIDE DEF n, cmd
  <2>5. PoolRuns(hpool', gotoOp')
    BY <1>4, <2>2 DEF PoolRuns, p
  <2>6. DOMAIN hand' = {"goto", "turn", "aligned"} /\ hand'.goto \in BOOLEAN /\ hand'.turn \subseteq hand.turn
        /\ (hand'.goto => hand.goto)
    BY <1>a, <2>2, <2>4
  <2>7. ASSUME GotoOwned(hpool, gotoOp, hand) PROVE GotoMissed(unheard') \/ GotoOwned(hpool', gotoOp', hand')
    <3>1. "position" \notin hpool.bad /\ (n <= 2 /\ ~hpool.seen => ~hand.goto)
      BY <2>1, <2>7 DEF GotoOwned, n
    <3>2. CASE cmd.do \in {"position", "gotoBusy"} /\ <<"status", cmd.do>> \in unheard'
      BY <3>2 DEF GotoMissed
    <3>3. CASE ~(cmd.do \in {"position", "gotoBusy"} /\ <<"status", cmd.do>> \in unheard')
      <4>1. "position" \notin hpool'.bad /\ Len(hpool'.todo) = n - 1
        BY <2>1, <2>2, <3>1, <3>3
      <4>2. n <= 3 /\ ~hpool'.seen => ~hand'.goto
        <5>1. CASE n = 3
          BY <2>2, <2>3, <2>6, <3>3, <5>1
        <5>2. CASE n # 3
          <6>1. n <= 3 => n <= 2
            BY <2>3, <5>2
          <6>2. ~hpool'.seen /\ hand'.goto => ~hpool.seen /\ hand.goto
            BY <2>2, <2>6
          <6> QED  BY <3>1, <6>1, <6>2
        <5> QED  BY <5>1, <5>2
      <4>3. Len(hpool'.todo) <= 2 => n <= 3
        BY <2>3, <4>1
      <4> QED  BY <1>4, <2>2, <4>1, <4>2, <4>3 DEF GotoOwned
    <3> QED  BY <3>2, <3>3
  <2> QED  BY <2>2, <2>5, <2>6, <2>7
<1>5. ASSUME hpool.m = "abort" /\ Runs(hpool, Hand!AbortOf) /\ gotoOp = "aborting"
      PROVE  Goal
  <2> DEFINE p == Hand!AbortOf
             n == Len(hpool.todo)
             cmd == p[Len(p) - n + 1]
  <2>1. Runs(hpool, p) /\ hpool.m = "abort" /\ Len(p) = 3
    BY <1>5, MoreAre
  <2> HIDE DEF p
  <2>2. /\ n \in 1 .. Len(p) /\ cmd \in HandCommands
        /\ UNCHANGED <<gotoOp, flagged, turned, handCalls>> /\ unheard \subseteq unheard'
        /\ hand' \in {hand, Hand!Does(cmd)} /\ hpool'.m = "abort" /\ Runs(hpool', p)
        /\ hand' = Hand!Does(cmd) \/ <<"abort", cmd.do>> \in unheard'
    <3>1. Exchanged(hpool, hpool', p, n, cmd)
      BY <1>1, <2>1, ExchangeIs
    <3> HIDE DEF n, cmd
    <3> QED  BY <2>1, <3>1 DEF Exchanged
  <2>3. n \in 1 .. 3 /\ cmd.do # "goto" /\ (n = 3 => cmd.do = "abort") /\ (cmd.do = "rate" => ~cmd.on)
    <3>1. p[1].do = "abort" /\ p[2].do = "rate" /\ ~p[2].on /\ p[3].do = "rate" /\ ~p[3].on
      <4>1. /\ Hand!FixedRate("ra", FALSE).do = "rate" /\ Hand!FixedRate("ra", FALSE).on = FALSE
            /\ Hand!FixedRate("dec", FALSE).do = "rate" /\ Hand!FixedRate("dec", FALSE).on = FALSE
            /\ Hand!Cmd("abort").do = "abort"
        BY DEF Hand!FixedRate, Hand!Cmd
      <4> QED  BY <4>1, MoreAre DEF p
    <3>2. n \in 1 .. 3 /\ cmd = p[3 - n + 1]
      BY <2>1, <2>2
    <3> HIDE DEF n, cmd
    <3>3. n = 1 \/ n = 2 \/ n = 3
      BY <3>2
    <3>4. cmd = IF n = 1 THEN p[3] ELSE IF n = 2 THEN p[2] ELSE p[1]
      BY <3>2, <3>3
    <3> QED  BY <3>1, <3>2, <3>3, <3>4
  <2>4. /\ Hand!Does(cmd).turn \subseteq hand.turn /\ DOMAIN Hand!Does(cmd) = {"goto", "turn", "aligned"}
        /\ Hand!Does(cmd).goto \in BOOLEAN
        /\ (Hand!Does(cmd).goto => hand.goto) /\ (n = 3 => ~Hand!Does(cmd).goto)
    BY <1>1, <2>2, <2>3, DoesIs
  <2> HIDE DEF n, cmd
  <2>5. PoolRuns(hpool', gotoOp')
    BY <1>5, <2>2 DEF PoolRuns, p
  <2>6. DOMAIN hand' = {"goto", "turn", "aligned"} /\ hand'.goto \in BOOLEAN /\ hand'.turn \subseteq hand.turn
        /\ (hand'.goto => hand.goto)
    BY <1>a, <2>2, <2>4
  <2>7. ASSUME GotoOwned(hpool, gotoOp, hand) PROVE GotoMissed(unheard') \/ GotoOwned(hpool', gotoOp', hand')
    <3>1. n <= 2 => ~hand.goto
      BY <2>1, <2>7 DEF GotoOwned, n
    <3>2. CASE n = 3 /\ <<"abort", cmd.do>> \in unheard'
      BY <2>3, <3>2 DEF GotoMissed
    <3>3. CASE ~(n = 3 /\ <<"abort", cmd.do>> \in unheard')
      <4>1. ~hand'.goto
        BY <2>2, <2>3, <2>4, <2>6, <3>1, <3>3
      <4> QED  BY <1>5, <2>2, <4>1 DEF GotoOwned
    <3> QED  BY <3>2, <3>3
  <2> QED  BY <2>2, <2>5, <2>6, <2>7
<1>6. Goal
  <2> HIDE DEF Goal
  <2> QED  BY <1>1, <1>2, <1>3, <1>4, <1>5 DEF HandTypes, PoolRuns
<1>7. HandTypes'
  BY <1>1, <1>6 DEF HandTypes
<1> HIDE DEF Goal
<1>8. RateMissed(unheard') \/ TurnAsked(hmain', turned', hand')
  BY <1>1, <1>6, FewerMotions DEF Goal
<1>9. GotoMissed(unheard') \/ GotoOwned(hpool', gotoOp', hand')
  BY <1>6, MissedStays DEF Goal, HandIInv
<1> QED  BY <1>7, <1>8, <1>9 DEF HandIInv

\* What an exchange of the main thread's call has to keep.
MainKept ==
    /\ MainRuns(hmain') /\ unheard \subseteq unheard' /\ UNCHANGED <<turned, gotoOp>>
    /\ DOMAIN hand' = {"goto", "turn", "aligned"} /\ hand'.goto \in BOOLEAN /\ hand'.turn \subseteq Hand!Arms
    /\ (hand'.goto => hand.goto)
    /\ (TurnAsked(hmain, turned, hand) => RateMissed(unheard') \/ TurnAsked(hmain', turned, hand'))

\* The commands that turn an axis, one by one.
LEMMA RatesAre ==
    \A arm \in Hand!Arms, on \in BOOLEAN :
        /\ Hand!FixedRate(arm, on).do = "rate"
        /\ Hand!FixedRate(arm, on).arm = arm
        /\ Hand!FixedRate(arm, on).on = on
BY DEF Hand!FixedRate

\* A command that turns or stops an axis, and one that does neither.
LEMMA MainDoes ==
    ASSUME HandTypes, NEW cmd \in HandCommands, hand' \in {hand, Hand!Does(cmd)}, cmd.do # "goto"
    PROVE  /\ DOMAIN hand' = {"goto", "turn", "aligned"} /\ hand'.goto \in BOOLEAN /\ hand'.turn \subseteq Hand!Arms
           /\ (hand'.goto => hand.goto)
           /\ (cmd.do # "rate" => hand'.turn = hand.turn)
           /\ (hand' = Hand!Does(cmd) /\ cmd.do = "rate" =>
                 hand'.turn = IF cmd.on THEN hand.turn \cup {cmd.arm} ELSE hand.turn \ {cmd.arm})
           /\ (hand' = hand \/ ~cmd.on => hand'.turn \subseteq hand.turn)
<1>1. /\ DOMAIN hand = {"goto", "turn", "aligned"} /\ hand.goto \in BOOLEAN /\ hand.turn \subseteq Hand!Arms
  BY DEF HandTypes
<1>2. CASE hand' = hand
  <2>1. LET h == Hand!Does(cmd) IN hand' = h => h.turn = IF cmd.do # "rate" THEN hand.turn
                       ELSE IF cmd.on THEN hand.turn \cup {cmd.arm} ELSE hand.turn \ {cmd.arm}
    BY DoesIs
  <2> QED  BY <1>1, <1>2, <2>1
<1>3. CASE hand' = Hand!Does(cmd)
  <2>1. /\ DOMAIN hand' = {"goto", "turn", "aligned"} /\ hand'.goto \in BOOLEAN /\ hand'.turn \subseteq Hand!Arms
        /\ (hand'.goto => hand.goto)
        /\ hand'.turn = IF cmd.do # "rate" THEN hand.turn
                       ELSE IF cmd.on THEN hand.turn \cup {cmd.arm} ELSE hand.turn \ {cmd.arm}
    BY <1>3, DoesIs
  <2>2. cmd.on \in BOOLEAN
    BY DEF HandCommands
  <2> QED  BY <1>1, <2>1, <2>2
<1> QED  BY <1>2, <1>3

\* A synchronisation or the switching of tracking moves nothing.
LEMMA StillKept ==
    ASSUME HandTypes, NEW p, Hand!HandExchange(hmain, hmain'), Runs(hmain, p),
           \/ hmain.m = "sync" /\ p = Hand!SyncOf
           \/ hmain.m = "tracking" /\ p = Hand!TrackingOf
    PROVE  MainKept
<1> DEFINE n == Len(hmain.todo)
           cmd == p[Len(p) - n + 1]
<1>1. Exchanged(hmain, hmain', p, n, cmd)
  BY ExchangeIs
<1>2. Len(p) = 1 /\ p[1].do \in {"sync", "tracking"}
  BY OnesAre, ProgramsAre
<1>3. n \in 1 .. Len(p)
  BY <1>1 DEF Exchanged
<1>4. n = 1 /\ cmd = p[1]
  <2>1. n \in 1 .. 1 /\ cmd = p[1 - n + 1]
    BY <1>2, <1>3
  <2> HIDE DEF n, cmd
  <2>2. n = 1
    BY <2>1
  <2>3. 1 - 1 + 1 = 1
    OBVIOUS
  <2> QED  BY <2>1, <2>2, <2>3
<1> HIDE DEF n, cmd
<1>5. /\ cmd \in HandCommands /\ UNCHANGED <<turned, gotoOp>> /\ unheard \subseteq unheard'
      /\ hand' \in {hand, Hand!Does(cmd)} /\ hmain'.m = hmain.m /\ Runs(hmain', p)
  BY <1>1 DEF Exchanged
<1>6. /\ DOMAIN hand' = {"goto", "turn", "aligned"} /\ hand'.goto \in BOOLEAN /\ hand'.turn \subseteq Hand!Arms
      /\ (hand'.goto => hand.goto) /\ hand'.turn = hand.turn
  BY <1>2, <1>4, <1>5, MainDoes
<1>7. MainRuns(hmain')
  BY <1>5 DEF MainRuns
<1>8. TurnAsked(hmain, turned, hand) => TurnAsked(hmain', turned, hand')
  BY <1>5, <1>6 DEF TurnAsked
<1> QED  BY <1>5, <1>6, <1>7, <1>8 DEF MainKept

\* An abort, whose answers may be missed, stops what turns.
LEMMA AbortKept ==
    ASSUME HandTypes, Hand!HandExchange(hmain, hmain'), Runs(hmain, Hand!AbortOf), hmain.m = "abort"
    PROVE  MainKept
<1> DEFINE p == Hand!AbortOf
           n == Len(hmain.todo)
           cmd == p[Len(p) - n + 1]
<1>1. Exchanged(hmain, hmain', p, n, cmd)
  BY ExchangeIs
<1>2. /\ Len(p) = 3 /\ p[1].do = "abort" /\ p[2] = Hand!FixedRate("ra", FALSE) /\ p[3] = Hand!FixedRate("dec", FALSE)
  BY MoreAre, ProgramsAre
<1> HIDE DEF p
<1>3. n \in 1 .. Len(p)
  BY <1>1 DEF Exchanged
<1>4. \/ n = 3 /\ cmd = p[1]
      \/ n = 2 /\ cmd = p[2]
      \/ n = 1 /\ cmd = p[3]
  <2>1. n \in 1 .. 3 /\ cmd = p[3 - n + 1]
    BY <1>2, <1>3
  <2> HIDE DEF n, cmd
  <2>2. n = 1 \/ n = 2 \/ n = 3
    BY <2>1
  <2>3. 3 - 1 + 1 = 3 /\ 3 - 2 + 1 = 2 /\ 3 - 3 + 1 = 1
    OBVIOUS
  <2> QED  BY <2>1, <2>2, <2>3
<1> HIDE DEF n, cmd
<1>5. "ra" \in Hand!Arms /\ "dec" \in Hand!Arms /\ Hand!Arms = {"ra", "dec"}
  BY DEF Hand!Arms
<1>6. /\ n = 3 => cmd.do = "abort"
      /\ n = 2 => cmd.do = "rate" /\ cmd.arm = "ra" /\ cmd.on = FALSE
      /\ n = 1 => cmd.do = "rate" /\ cmd.arm = "dec" /\ cmd.on = FALSE
  <2>1. /\ Hand!FixedRate("ra", FALSE).do = "rate" /\ Hand!FixedRate("ra", FALSE).arm = "ra"
        /\ Hand!FixedRate("ra", FALSE).on = FALSE
        /\ Hand!FixedRate("dec", FALSE).do = "rate" /\ Hand!FixedRate("dec", FALSE).arm = "dec"
        /\ Hand!FixedRate("dec", FALSE).on = FALSE
    BY DEF Hand!FixedRate
  <2>2. n = 3 => cmd = p[1]
    BY <1>4
  <2>3. n = 2 => cmd = Hand!FixedRate("ra", FALSE)
    BY <1>2, <1>4
  <2>4. n = 1 => cmd = Hand!FixedRate("dec", FALSE)
    BY <1>2, <1>4
  <2> QED  BY <1>2, <2>1, <2>2, <2>3, <2>4
<1>7. /\ cmd \in HandCommands /\ UNCHANGED <<turned, gotoOp>> /\ unheard \subseteq unheard'
      /\ hand' \in {hand, Hand!Does(cmd)} /\ hmain'.m = "abort" /\ Runs(hmain', p)
      /\ hand' = Hand!Does(cmd) \/ <<"abort", cmd.do>> \in unheard'
      /\ Len(hmain'.todo) = n - 1
  BY <1>1, <1>4, <1>6 DEF Exchanged
<1>8. cmd.do # "goto"
  BY <1>4, <1>6
<1>9. /\ DOMAIN hand' = {"goto", "turn", "aligned"} /\ hand'.goto \in BOOLEAN /\ hand'.turn \subseteq Hand!Arms
      /\ (hand'.goto => hand.goto)
      /\ (cmd.do # "rate" => hand'.turn = hand.turn)
      /\ (hand' = Hand!Does(cmd) /\ cmd.do = "rate" =>
            hand'.turn = IF cmd.on THEN hand.turn \cup {cmd.arm} ELSE hand.turn \ {cmd.arm})
  BY <1>7, <1>8, MainDoes
<1>10. MainRuns(hmain')
  BY <1>7 DEF MainRuns, p
<1>11. ASSUME TurnAsked(hmain, turned, hand) PROVE RateMissed(unheard') \/ TurnAsked(hmain', turned, hand')
  <2>1. hand.turn \subseteq turned /\ (n <= 1 => "ra" \notin hand.turn)
    BY <1>11 DEF TurnAsked, n
  <2>2. CASE n # 3 /\ <<"abort", cmd.do>> \in unheard'
    BY <1>4, <1>6, <2>2 DEF RateMissed
  <2>3. CASE n = 3
    BY <1>6, <1>7, <1>9, <2>1, <2>3 DEF TurnAsked
  <2>4. CASE n # 3 /\ hand' = Hand!Does(cmd)
    <3>1. hand'.turn \subseteq turned /\ "ra" \notin hand'.turn /\ (n = 1 => "dec" \notin hand'.turn)
      BY <1>4, <1>6, <1>9, <2>1, <2>4
    <3>2. n = 1 => hand'.turn = {}
      BY <1>5, <1>9, <3>1
    <3> QED  BY <1>4, <1>7, <3>1, <3>2 DEF TurnAsked
  <2> QED  BY <1>7, <2>2, <2>3, <2>4
<1> QED  BY <1>7, <1>9, <1>10, <1>11 DEF MainKept

\* A guide pulse turns an axis and stops it.
LEMMA PulseKept ==
    ASSUME HandTypes, NEW arm \in Hand!Arms, Hand!HandExchange(hmain, hmain'), Runs(hmain, Hand!PulseOf(arm)),
           hmain.m = "pulse"
    PROVE  MainKept
<1> DEFINE p == Hand!PulseOf(arm)
           n == Len(hmain.todo)
           cmd == p[Len(p) - n + 1]
<1>1. Exchanged(hmain, hmain', p, n, cmd)
  BY ExchangeIs
<1>2. Len(p) = 2 /\ p[1] = Hand!FixedRate(arm, TRUE) /\ p[2] = Hand!FixedRate(arm, FALSE)
  BY TwosAre
<1> HIDE DEF p
<1>3. n \in 1 .. Len(p)
  BY <1>1 DEF Exchanged
<1>4. (n = 2 /\ cmd = p[1]) \/ (n = 1 /\ cmd = p[2])
  <2>1. n \in 1 .. 2 /\ cmd = p[2 - n + 1]
    BY <1>2, <1>3
  <2> HIDE DEF n, cmd
  <2>2. n = 1 \/ n = 2
    BY <2>1
  <2>3. 2 - 1 + 1 = 2 /\ 2 - 2 + 1 = 1
    OBVIOUS
  <2> QED  BY <2>1, <2>2, <2>3
<1>5. n = 1 => hmain.todo[1] = p[2]
  <2>1. Runs(hmain, p)
    BY DEF p
  <2>2. n = 1 => hmain.todo[1] = p[2 - 1 + 1]
    BY <1>2, <2>1 DEF Runs
  <2>3. 2 - 1 + 1 = 2
    OBVIOUS
  <2> QED  BY <2>2, <2>3
<1> HIDE DEF n, cmd
<1>6. /\ cmd.do = "rate" /\ cmd.arm = arm /\ p[2].arm = arm
      /\ n = 2 => cmd.on = TRUE
      /\ n = 1 => cmd.on = FALSE
  <2>1. \A on \in BOOLEAN : LET r == Hand!FixedRate(arm, on) IN r.do = "rate" /\ r.arm = arm /\ r.on = on
    BY DEF Hand!FixedRate
  <2> QED  BY <1>2, <1>4, <2>1
<1>7. /\ cmd \in HandCommands /\ UNCHANGED <<turned, gotoOp>> /\ unheard \subseteq unheard'
      /\ hand' \in {hand, Hand!Does(cmd)} /\ hmain'.m = "pulse" /\ Runs(hmain', p)
      /\ (hand' = Hand!Does(cmd) /\ Len(hmain'.todo) = n - 1) \/ <<"pulse", cmd.do>> \in unheard'
  BY <1>1, <1>6 DEF Exchanged
<1>8. /\ DOMAIN hand' = {"goto", "turn", "aligned"} /\ hand'.goto \in BOOLEAN /\ hand'.turn \subseteq Hand!Arms
      /\ (hand'.goto => hand.goto)
      /\ (hand' = Hand!Does(cmd) =>
            hand'.turn = IF cmd.on THEN hand.turn \cup {cmd.arm} ELSE hand.turn \ {cmd.arm})
  BY <1>6, <1>7, MainDoes
<1>9. MainRuns(hmain')
  BY <1>7 DEF MainRuns, p
<1>10. ASSUME TurnAsked(hmain, turned, hand), hand' = Hand!Does(cmd), Len(hmain'.todo) = n - 1
       PROVE  TurnAsked(hmain', turned, hand')
  <2>1. hand.turn \subseteq turned \cup IF n = 1 THEN {hmain.todo[1].arm} ELSE {}
    BY <1>10 DEF TurnAsked, n
  <2>2. CASE n = 2
    <3>1. hmain'.todo[1] = p[2]
      <4>1. Runs(hmain', p) /\ Len(hmain'.todo) = 1 /\ Len(p) = 2
        BY <1>2, <1>7, <1>10, <2>2
      <4>2. hmain'.todo[1] = p[2 - 1 + 1]
        BY <4>1 DEF Runs
      <4>3. 2 - 1 + 1 = 2
        OBVIOUS
      <4> QED  BY <4>2, <4>3
    <3>2. hand'.turn \subseteq turned \cup {arm} /\ Len(hmain'.todo) = 1
      BY <1>6, <1>8, <1>10, <2>1, <2>2
    <3> QED  BY <1>6, <1>7, <3>1, <3>2 DEF TurnAsked
  <2>3. CASE n = 1
    <3>1. hand.turn \subseteq turned \cup {arm}
      BY <1>5, <1>6, <2>1, <2>3
    <3>2. hand'.turn = hand.turn \ {arm} /\ Len(hmain'.todo) = 0
      BY <1>6, <1>8, <1>10, <2>3
    <3>3. hand'.turn \subseteq turned
      BY <3>1, <3>2
    <3> QED  BY <1>7, <3>2, <3>3 DEF TurnAsked
  <2> QED  BY <1>4, <2>2, <2>3
<1>11. <<"pulse", cmd.do>> \in unheard' => RateMissed(unheard')
  BY <1>6 DEF RateMissed
<1> QED  BY <1>7, <1>8, <1>9, <1>10, <1>11 DEF MainKept

\* A manual slew that was not heard stops both axes, after its other axis.
LEMMA RescueIs ==
    ASSUME HandTypes, NEW n \in 1 .. 2, Runs(hmain, Hand!ManualOf(hmain.on)), Len(hmain.todo) = n,
           NEW cn, DOMAIN cn = CallFields, cn.todo = Tail(hmain.todo) \o Hand!StopManualAxes
    PROVE  Len(cn.todo) = n + 1 /\ \E on \in BOOLEAN : Runs(cn, RescueOf(on))
<1> DEFINE t == hmain.todo
           r == Tail(t)
           z == Hand!StopManualAxes
           on == "dec" \in hmain.on
           p == Hand!ManualOf(hmain.on)
           q == RescueOf(on)
<1>1. /\ t \in Seq(HandCommands) /\ p \in Seq(HandCommands) /\ Len(p) = 2 /\ Len(t) = n
      /\ \A i \in 1 .. n : t[i] = p[2 - n + i]
      /\ p[2] = Hand!FixedRate("dec", on)
  BY TwosAre DEF Runs
<1>2. z \in Seq(HandCommands) /\ Len(z) = 2 /\ z[1] = Hand!FixedRate("ra", FALSE) /\ z[2] = Hand!FixedRate("dec", FALSE)
  BY TwosAre
<1>3. on \in BOOLEAN
  OBVIOUS
<1>4. /\ q \in Seq(HandCommands) /\ Len(q) = 3 /\ q[1] = Hand!FixedRate("dec", on)
      /\ q[2] = Hand!FixedRate("ra", FALSE) /\ q[3] = Hand!FixedRate("dec", FALSE)
  <2> HIDE DEF on
  <2> QED  BY <1>3, MoreAre
<1>5. t # <<>>
  <2>1. Len(<<>>) = 0
    OBVIOUS
  <2> QED  BY <1>1, <2>1
<1> HIDE DEF z, on, p, q
<1>6. r \in Seq(HandCommands) /\ Len(r) = n - 1 /\ \A i \in 1 .. n - 1 : r[i] = t[i + 1]
  BY <1>1, <1>5
<1> HIDE DEF r, t
<1> DEFINE all == r \o z
<1>7. /\ all \in Seq(HandCommands) /\ Len(all) = Len(r) + Len(z)
      /\ \A i \in 1 .. Len(r) + Len(z) : all[i] = IF i <= Len(r) THEN r[i] ELSE z[i - Len(r)]
  BY <1>2, <1>6, ConcatProperties
<1> HIDE DEF all
<1>8. Len(r) = n - 1 /\ Len(z) = 2 /\ (n - 1) + 2 = n + 1
  BY <1>2, <1>6
<1>9. Len(all) = n + 1 /\ \A i \in 1 .. n + 1 : all[i] = IF i <= n - 1 THEN r[i] ELSE z[i - (n - 1)]
  BY ONLY <1>7, <1>8
<1>10. \A i \in 1 .. n + 1 : all[i] = q[3 - (n + 1) + i]
  <2>1. CASE n = 1
    <3>1. all[1] = z[1 - (1 - 1)] /\ all[2] = z[2 - (1 - 1)]
      BY <1>9, <2>1
    <3>a. 1 - (1 - 1) = 1 /\ 2 - (1 - 1) = 2
      OBVIOUS
    <3>b. all[1] = z[1] /\ all[2] = z[2]
      BY ONLY <3>1, <3>a
    <3>2. all[1] = q[2] /\ all[2] = q[3]
      BY <1>2, <1>4, <3>b
    <3>3. \A i \in 1 .. n + 1 : (i = 1 /\ 3 - (n + 1) + i = 2) \/ (i = 2 /\ 3 - (n + 1) + i = 3)
      BY <2>1
    <3> QED  BY <3>2, <3>3
  <2>2. CASE n = 2
    <3>1. all[1] = r[1] /\ all[2] = z[2 - (2 - 1)] /\ all[3] = z[3 - (2 - 1)]
      BY <1>9, <2>2
    <3>a. 2 - (2 - 1) = 1 /\ 3 - (2 - 1) = 2
      OBVIOUS
    <3>b. all[1] = r[1] /\ all[2] = z[1] /\ all[3] = z[2]
      BY ONLY <3>1, <3>a
    <3>2. r[1] = p[2]
      <4>1. r[1] = t[1 + 1] /\ t[2] = p[2 - 2 + 2]
        BY <1>1, <1>6, <2>2
      <4> QED  BY <4>1
    <3>3. all[1] = q[1] /\ all[2] = q[2] /\ all[3] = q[3]
      BY <1>1, <1>2, <1>4, <3>b, <3>2
    <3>4. \A i \in 1 .. n + 1 : 3 - (n + 1) + i = i /\ (i = 1 \/ i = 2 \/ i = 3)
      BY <2>2
    <3> QED  BY <3>3, <3>4
  <2> QED  BY <2>1, <2>2
<1>11. cn.todo = all /\ n + 1 <= 3
  BY DEF all, r, t, z
<1>12. Runs(cn, q)
  BY <1>4, <1>7, <1>9, <1>10, <1>11 DEF Runs
<1> QED  BY <1>3, <1>9, <1>11, <1>12 DEF q

\* A manual slew turns its axes, or is going to stop them.
LEMMA ManualKept ==
    ASSUME HandTypes, Hand!HandExchange(hmain, hmain'), Runs(hmain, Hand!ManualOf(hmain.on)), hmain.m = "manual"
    PROVE  MainKept
<1> DEFINE p == Hand!ManualOf(hmain.on)
           n == Len(hmain.todo)
           cmd == p[Len(p) - n + 1]
           ra == "ra" \in hmain.on
           dec == "dec" \in hmain.on
<1>1. Exchanged(hmain, hmain', p, n, cmd)
  BY ExchangeIs
<1>2. Len(p) = 2 /\ p[1] = Hand!FixedRate("ra", ra) /\ p[2] = Hand!FixedRate("dec", dec)
  BY TwosAre
<1> HIDE DEF p
<1>3. n \in 1 .. Len(p)
  BY <1>1 DEF Exchanged
<1>4. (n = 2 /\ cmd = p[1]) \/ (n = 1 /\ cmd = p[2])
  <2>1. n \in 1 .. 2 /\ cmd = p[2 - n + 1]
    BY <1>2, <1>3
  <2> HIDE DEF n, cmd
  <2>2. n = 1 \/ n = 2
    BY <2>1
  <2>3. 2 - 1 + 1 = 2 /\ 2 - 2 + 1 = 1
    OBVIOUS
  <2> QED  BY <2>1, <2>2, <2>3
<1> HIDE DEF n, cmd, ra, dec
<1>5. /\ cmd.do = "rate"
      /\ n = 2 => cmd.arm = "ra" /\ cmd.on = ra
      /\ n = 1 => cmd.arm = "dec" /\ cmd.on = dec
  <2>1. /\ Hand!FixedRate("ra", ra).do = "rate" /\ Hand!FixedRate("ra", ra).arm = "ra"
        /\ Hand!FixedRate("ra", ra).on = ra
        /\ Hand!FixedRate("dec", dec).do = "rate" /\ Hand!FixedRate("dec", dec).arm = "dec"
        /\ Hand!FixedRate("dec", dec).on = dec
    BY DEF Hand!FixedRate
  <2> QED  BY <1>2, <1>4, <2>1
<1>6. /\ cmd \in HandCommands /\ UNCHANGED <<turned, gotoOp>> /\ unheard \subseteq unheard'
      /\ hand' \in {hand, Hand!Does(cmd)}
      /\ \/ hand' = Hand!Does(cmd) /\ hmain'.m = "manual" /\ hmain'.on = hmain.on /\ Runs(hmain', p) /\ Len(hmain'.todo) = n - 1
         \/ /\ hmain'.m = "rescue" /\ DOMAIN hmain' = CallFields
            /\ hmain'.todo = Tail(hmain.todo) \o Hand!StopManualAxes
  BY <1>1, <1>5 DEF Exchanged
<1>7. /\ DOMAIN hand' = {"goto", "turn", "aligned"} /\ hand'.goto \in BOOLEAN /\ hand'.turn \subseteq Hand!Arms
      /\ (hand'.goto => hand.goto)
      /\ (hand' = Hand!Does(cmd) =>
            hand'.turn = IF cmd.on THEN hand.turn \cup {cmd.arm} ELSE hand.turn \ {cmd.arm})
  BY <1>5, <1>6, MainDoes
<1>8. CASE hmain'.m = "rescue" /\ DOMAIN hmain' = CallFields
           /\ hmain'.todo = Tail(hmain.todo) \o Hand!StopManualAxes
  <2>1. n \in 1 .. 2
    BY <1>4
  <2>2. Len(hmain'.todo) = n + 1 /\ \E on \in BOOLEAN : Runs(hmain', RescueOf(on))
    BY <1>8, <2>1, RescueIs DEF n
  <2>3. TurnAsked(hmain', turned, hand')
    BY <1>8, <2>1, <2>2 DEF TurnAsked
  <2> QED  BY <1>6, <1>7, <1>8, <2>2, <2>3 DEF MainKept, MainRuns
<1>9. CASE hand' = Hand!Does(cmd) /\ hmain'.m = "manual" /\ hmain'.on = hmain.on /\ Runs(hmain', p) /\ Len(hmain'.todo) = n - 1
  <2>1. MainRuns(hmain')
    BY <1>9 DEF MainRuns, p
  <2>2. ASSUME TurnAsked(hmain, turned, hand) PROVE TurnAsked(hmain', turned, hand')
    <3>1. n <= 1 /\ "ra" \in hand.turn => "ra" \in hmain.on
      BY <2>2 DEF TurnAsked, n
    <3>2. "ra" \in hand'.turn => "ra" \in hmain.on
      <4>1. CASE n = 2
        BY <1>5, <1>7, <1>9, <4>1 DEF ra
      <4>2. CASE n = 1
        BY <1>5, <1>7, <1>9, <3>1, <4>2
      <4> QED  BY <1>4, <4>1, <4>2
    <3>3. n = 1 => hand'.turn \subseteq hmain.on
      <4>1. n = 1 /\ "dec" \in hand'.turn => "dec" \in hmain.on
        BY <1>5, <1>7, <1>9 DEF dec
      <4> QED  BY <1>7, <3>2, <4>1 DEF Hand!Arms
    <3> QED  BY <1>4, <1>9, <3>2, <3>3 DEF TurnAsked
  <2> QED  BY <1>6, <1>7, <2>1, <2>2 DEF MainKept
<1> QED  BY <1>6, <1>8, <1>9

\* Once it stops both axes, they are stopped, or that was not heard.
LEMMA RescueKept ==
    ASSUME HandTypes, NEW on \in BOOLEAN, Hand!HandExchange(hmain, hmain'), Runs(hmain, RescueOf(on)), hmain.m = "rescue"
    PROVE  MainKept
<1> DEFINE p == RescueOf(on)
           n == Len(hmain.todo)
           cmd == p[Len(p) - n + 1]
<1>1. Exchanged(hmain, hmain', p, n, cmd)
  BY ExchangeIs
<1>2. /\ Len(p) = 3 /\ p[1] = Hand!FixedRate("dec", on) /\ p[2] = Hand!FixedRate("ra", FALSE)
      /\ p[3] = Hand!FixedRate("dec", FALSE)
  BY MoreAre
<1> HIDE DEF p
<1>3. n \in 1 .. Len(p)
  BY <1>1 DEF Exchanged
<1>4. \/ n = 3 /\ cmd = p[1]
      \/ n = 2 /\ cmd = p[2]
      \/ n = 1 /\ cmd = p[3]
  <2>1. n \in 1 .. 3 /\ cmd = p[3 - n + 1]
    BY <1>2, <1>3
  <2> HIDE DEF n, cmd
  <2>2. n = 1 \/ n = 2 \/ n = 3
    BY <2>1
  <2>3. 3 - 1 + 1 = 3 /\ 3 - 2 + 1 = 2 /\ 3 - 3 + 1 = 1
    OBVIOUS
  <2> QED  BY <2>1, <2>2, <2>3
<1> HIDE DEF n, cmd
<1>5. /\ cmd.do = "rate"
      /\ n = 2 => cmd.arm = "ra" /\ cmd.on = FALSE
      /\ n = 1 => cmd.arm = "dec" /\ cmd.on = FALSE
  <2>1. /\ Hand!FixedRate("ra", FALSE).do = "rate" /\ Hand!FixedRate("ra", FALSE).arm = "ra"
        /\ Hand!FixedRate("ra", FALSE).on = FALSE
        /\ Hand!FixedRate("dec", FALSE).do = "rate" /\ Hand!FixedRate("dec", FALSE).arm = "dec"
        /\ Hand!FixedRate("dec", FALSE).on = FALSE /\ Hand!FixedRate("dec", on).do = "rate"
    BY DEF Hand!FixedRate
  <2> QED  BY <1>2, <1>4, <2>1
<1>6. /\ cmd \in HandCommands /\ UNCHANGED <<turned, gotoOp>> /\ unheard \subseteq unheard'
      /\ hand' \in {hand, Hand!Does(cmd)} /\ hmain'.m = "rescue" /\ Runs(hmain', p)
      /\ (hand' = Hand!Does(cmd) /\ Len(hmain'.todo) = n - 1) \/ <<"rescue", "rate">> \in unheard'
  BY <1>1, <1>5 DEF Exchanged
<1>7. /\ DOMAIN hand' = {"goto", "turn", "aligned"} /\ hand'.goto \in BOOLEAN /\ hand'.turn \subseteq Hand!Arms
      /\ (hand'.goto => hand.goto)
      /\ (hand' = Hand!Does(cmd) =>
            hand'.turn = IF cmd.on THEN hand.turn \cup {cmd.arm} ELSE hand.turn \ {cmd.arm})
  BY <1>5, <1>6, MainDoes
<1>8. MainRuns(hmain')
  BY <1>6 DEF MainRuns, p
<1>9. <<"rescue", "rate">> \in unheard' => RateMissed(unheard')
  BY DEF RateMissed
<1>10. ASSUME TurnAsked(hmain, turned, hand), hand' = Hand!Does(cmd), Len(hmain'.todo) = n - 1
       PROVE  TurnAsked(hmain', turned, hand')
  <2>1. n <= 1 => "ra" \notin hand.turn
    BY <1>10 DEF TurnAsked, n
  <2>2. n <= 2 => "ra" \notin hand'.turn
    BY <1>4, <1>5, <1>7, <1>10, <2>1
  <2>3. n = 1 => hand'.turn = {}
    <3>1. n = 1 => "dec" \notin hand'.turn
      BY <1>5, <1>7, <1>10
    <3> QED  BY <1>7, <2>2, <3>1 DEF Hand!Arms
  <2> QED  BY <1>4, <1>6, <1>10, <2>2, <2>3 DEF TurnAsked
<1> QED  BY <1>6, <1>7, <1>8, <1>9, <1>10 DEF MainKept

\* An exchange of the main thread's call.
LEMMA MainSendsStep ==
    ASSUME HandIInv, Hand!MainSends
    PROVE  HandIInv'
<1>1. HandTypes /\ UNCHANGED hpool /\ Hand!HandExchange(hmain, hmain')
  BY DEF HandIInv, Hand!MainSends
<1>2. hmain # Hand!Free
  BY <1>1 DEF Hand!HandExchange, Hand!Free
<1>3. MainKept
  <2>1. MainRuns(hmain)
    BY <1>1 DEF HandTypes
  <2>2. CASE hmain.m = "sync" /\ Runs(hmain, Hand!SyncOf)
    <3> DEFINE p == Hand!SyncOf
    <3>1. (hmain.m = "sync" /\ p = Hand!SyncOf) \/ (hmain.m = "tracking" /\ p = Hand!TrackingOf)
      BY <2>2
    <3>2. Runs(hmain, p)
      BY <2>2
    <3> HIDE DEF p
    <3> QED  BY <1>1, <3>1, <3>2, StillKept
  <2>3. CASE hmain.m = "tracking" /\ Runs(hmain, Hand!TrackingOf)
    <3> DEFINE p == Hand!TrackingOf
    <3>1. (hmain.m = "sync" /\ p = Hand!SyncOf) \/ (hmain.m = "tracking" /\ p = Hand!TrackingOf)
      BY <2>3
    <3>2. Runs(hmain, p)
      BY <2>3
    <3> HIDE DEF p
    <3> QED  BY <1>1, <3>1, <3>2, StillKept
  <2>4. CASE hmain.m = "manual" /\ Runs(hmain, Hand!ManualOf(hmain.on))
    BY <1>1, <2>4, ManualKept
  <2>5. CASE hmain.m = "rescue" /\ \E on \in BOOLEAN : Runs(hmain, RescueOf(on))
    BY <1>1, <2>5, RescueKept
  <2>6. CASE hmain.m = "pulse" /\ \E arm \in Hand!Arms : Runs(hmain, Hand!PulseOf(arm))
    BY <1>1, <2>6, PulseKept
  <2>7. CASE hmain.m = "abort" /\ Runs(hmain, Hand!AbortOf)
    BY <1>1, <2>7, AbortKept
  <2> QED  BY <1>2, <2>1, <2>2, <2>3, <2>4, <2>5, <2>6, <2>7 DEF MainRuns
<1>4. HandTypes'
  BY <1>1, <1>3 DEF MainKept, HandTypes
<1>5. GotoMissed(unheard') \/ GotoOwned(hpool', gotoOp', hand')
  BY <1>1, <1>3, FewerMotions DEF MainKept
<1>6. RateMissed(unheard') \/ TurnAsked(hmain', turned', hand')
  BY <1>3, MissedStays DEF MainKept, HandIInv
<1> QED  BY <1>4, <1>5, <1>6 DEF HandIInv

\* A new call has its whole program before it.
LEMMA FullRun ==
    ASSUME NEW c, NEW p, p \in Seq(HandCommands), DOMAIN c = CallFields, c.todo = p
    PROVE  Runs(c, p)
<1>1. Len(p) \in Nat /\ Len(p) <= Len(p) /\ \A i \in 1 .. Len(p) : Len(p) - Len(p) + i = i
  OBVIOUS
<1>2. \A i \in 1 .. Len(p) : p[i] = p[Len(p) - Len(p) + i]
  BY <1>1
<1> QED  BY <1>1, <1>2 DEF Runs

\* A GOTO arrives; a user aligns the hand controller.
LEMMA ArrivesStep ==
    ASSUME HandIInv, Hand!Arrives \/ Hand!Align
    PROVE  HandIInv'
<1>1. HandTypes /\ UNCHANGED <<hmain, hpool, gotoOp, turned, unheard>>
  BY DEF HandIInv, Hand!Arrives, Hand!Align
<1>2. /\ DOMAIN hand' = {"goto", "turn", "aligned"} /\ hand'.goto \in BOOLEAN /\ hand'.turn = hand.turn
      /\ (hand'.goto => hand.goto)
  <2>1. DOMAIN hand = {"goto", "turn", "aligned"} /\ hand.goto \in BOOLEAN
    BY <1>1 DEF HandTypes
  <2>2. CASE Hand!Arrives
    BY <2>1, <2>2 DEF Hand!Arrives
  <2>3. CASE Hand!Align
    BY <2>1, <2>3 DEF Hand!Align
  <2> QED  BY <2>2, <2>3
<1>3. HandTypes'
  BY <1>1, <1>2 DEF HandTypes
<1>4. unheard \subseteq unheard' /\ hand'.turn \subseteq hand.turn
  BY <1>1, <1>2
<1> QED  BY <1>1, <1>2, <1>3, <1>4, FewerMotions DEF HandIInv

\* What is left when one side's call changes and nothing moves.
LEMMA OnlyMain ==
    ASSUME HandIInv, UNCHANGED <<hand, hpool, gotoOp, unheard>>, MainRuns(hmain'),
           TurnAsked(hmain, turned, hand) => RateMissed(unheard) \/ TurnAsked(hmain', turned', hand)
    PROVE  HandIInv'
<1>1. HandTypes'
  BY DEF HandIInv, HandTypes
<1>2. UNCHANGED <<GotoOwned(hpool, gotoOp, hand), GotoMissed(unheard), RateMissed(unheard)>>
  BY DEF GotoOwned, GotoMissed, RateMissed
<1>3. TurnAsked(hmain', turned', hand) = TurnAsked(hmain', turned', hand')
  OBVIOUS
<1> QED  BY <1>1, <1>2, <1>3 DEF HandIInv

\* A client's request begins a call.
LEMMA RequestStep ==
    ASSUME HandIInv, Hand!Request \/ Hand!Abort
    PROVE  HandIInv'
<1>1. /\ hmain = Hand!Free /\ UNCHANGED <<hand, hpool, gotoOp, unheard, turned>>
      /\ \/ hmain' = Hand!Sends("sync", Hand!SyncOf, {})
         \/ hmain' = Hand!Sends("tracking", Hand!TrackingOf, {})
         \/ \E on \in SUBSET Hand!Arms : hmain' = Hand!Sends("manual", Hand!ManualOf(on), on)
         \/ \E arm \in Hand!Arms : hmain' = Hand!Sends("pulse", Hand!PulseOf(arm), {})
         \/ hmain' = Hand!Sends("abort", Hand!AbortOf, {})
  BY DEF Hand!Request, Hand!Abort, Hand!Requests
<1>2. TurnAsked(hmain, turned, hand) => hand.turn \subseteq turned
  <2>1. hmain.m = "none"
    BY <1>1 DEF Hand!Free
  <2> QED  BY <2>1 DEF TurnAsked
<1> DEFINE Goal == /\ MainRuns(hmain')
                   /\ (hand.turn \subseteq turned => TurnAsked(hmain', turned, hand))
<1>3. ASSUME hmain' = Hand!Sends("sync", Hand!SyncOf, {}) PROVE Goal
  <2>1. Runs(hmain', Hand!SyncOf) /\ hmain'.m = "sync"
    <3>1. DOMAIN hmain' = CallFields /\ hmain'.todo = Hand!SyncOf /\ hmain'.m = "sync"
      BY <1>3 DEF Hand!Sends, Hand!Free, CallFields
    <3> QED  BY <3>1, OnesAre, FullRun
  <2> QED  BY <2>1 DEF MainRuns, TurnAsked
<1>4. ASSUME hmain' = Hand!Sends("tracking", Hand!TrackingOf, {}) PROVE Goal
  <2>1. Runs(hmain', Hand!TrackingOf) /\ hmain'.m = "tracking"
    <3>1. DOMAIN hmain' = CallFields /\ hmain'.todo = Hand!TrackingOf /\ hmain'.m = "tracking"
      BY <1>4 DEF Hand!Sends, Hand!Free, CallFields
    <3> QED  BY <3>1, OnesAre, FullRun
  <2> QED  BY <2>1 DEF MainRuns, TurnAsked
<1>5. ASSUME NEW on \in SUBSET Hand!Arms, hmain' = Hand!Sends("manual", Hand!ManualOf(on), on) PROVE Goal
  <2>1. Hand!ManualOf(on) \in Seq(HandCommands) /\ Len(Hand!ManualOf(on)) = 2
    BY TwosAre
  <2>2. Runs(hmain', Hand!ManualOf(on)) /\ hmain'.m = "manual" /\ hmain'.on = on /\ hmain'.todo = Hand!ManualOf(on)
    <3>1. DOMAIN hmain' = CallFields /\ hmain'.todo = Hand!ManualOf(on) /\ hmain'.m = "manual" /\ hmain'.on = on /\ hmain'.todo = Hand!ManualOf(on)
      BY <1>5 DEF Hand!Sends, Hand!Free, CallFields
    <3> QED  BY <3>1, <2>1, FullRun
  <2>3. Len(hmain'.todo) = 2
    BY <2>1, <2>2
  <2> QED  BY <2>2, <2>3 DEF MainRuns, TurnAsked
<1>6. ASSUME NEW arm \in Hand!Arms, hmain' = Hand!Sends("pulse", Hand!PulseOf(arm), {}) PROVE Goal
  <2>1. Hand!PulseOf(arm) \in Seq(HandCommands) /\ Len(Hand!PulseOf(arm)) = 2
    BY TwosAre
  <2>2. Runs(hmain', Hand!PulseOf(arm)) /\ hmain'.m = "pulse" /\ hmain'.todo = Hand!PulseOf(arm)
    <3>1. DOMAIN hmain' = CallFields /\ hmain'.todo = Hand!PulseOf(arm) /\ hmain'.m = "pulse" /\ hmain'.todo = Hand!PulseOf(arm)
      BY <1>6 DEF Hand!Sends, Hand!Free, CallFields
    <3> QED  BY <3>1, <2>1, FullRun
  <2>3. Len(hmain'.todo) = 2
    BY <2>1, <2>2
  <2> QED  BY <2>2, <2>3 DEF MainRuns, TurnAsked
<1>7. ASSUME hmain' = Hand!Sends("abort", Hand!AbortOf, {}) PROVE Goal
  <2>1. Hand!AbortOf \in Seq(HandCommands) /\ Len(Hand!AbortOf) = 3
    BY MoreAre
  <2>2. Runs(hmain', Hand!AbortOf) /\ hmain'.m = "abort" /\ hmain'.todo = Hand!AbortOf
    <3>1. DOMAIN hmain' = CallFields /\ hmain'.todo = Hand!AbortOf /\ hmain'.m = "abort" /\ hmain'.todo = Hand!AbortOf
      BY <1>7 DEF Hand!Sends, Hand!Free, CallFields
    <3> QED  BY <3>1, <2>1, FullRun
  <2>3. Len(hmain'.todo) = 3
    BY <2>1, <2>2
  <2> QED  BY <2>2, <2>3 DEF MainRuns, TurnAsked
<1>8. Goal
  <2> HIDE DEF Goal
  <2> QED  BY <1>1, <1>3, <1>4, <1>5, <1>6, <1>7
<1> QED  BY <1>1, <1>2, <1>8, OnlyMain

\* The call of the main thread returns.
LEMMA MainReturnsStep ==
    ASSUME HandIInv, Hand!MainReturns
    PROVE  HandIInv'
<1>1. /\ hmain # Hand!Free /\ hmain.todo = <<>> /\ hmain' = Hand!Free
      /\ UNCHANGED <<hand, hpool, gotoOp, unheard>> /\ MainRuns(hmain) /\ Len(hmain.todo) = 0
  <2>1. Len(<<>>) = 0
    OBVIOUS
  <2> QED  BY <2>1 DEF HandIInv, HandTypes, Hand!MainReturns
<1>2. /\ hmain.m = "manual" => turned' = hmain.on
      /\ hmain.m \in {"rescue", "abort"} => turned' = {} \/ turned' = turned
      /\ hmain.m = "rescue" => turned' = {}
      /\ hmain.m \notin {"manual", "rescue", "abort"} => turned' = turned
  BY DEF Hand!MainReturns
<1>3. hmain.m \in {"sync", "tracking", "manual", "rescue", "pulse", "abort"}
  BY <1>1 DEF MainRuns
<1>4. ASSUME TurnAsked(hmain, turned, hand) PROVE hand.turn \subseteq turned'
  BY <1>1, <1>2, <1>3, <1>4 DEF TurnAsked
<1>5. hand.turn \subseteq turned' => TurnAsked(hmain', turned', hand)
  <2>1. hmain'.m = "none"
    BY <1>1 DEF Hand!Free
  <2> QED  BY <2>1 DEF TurnAsked
<1>6. MainRuns(hmain')
  BY <1>1 DEF MainRuns
<1> QED  BY <1>1, <1>4, <1>5, <1>6, OnlyMain

\* What is left when the operation or its call changes and nothing moves.
LEMMA OnlyPool ==
    ASSUME HandIInv, UNCHANGED <<hand, hmain, turned, unheard>>, PoolRuns(hpool', gotoOp'),
           GotoOwned(hpool, gotoOp, hand) => GotoMissed(unheard) \/ GotoOwned(hpool', gotoOp', hand)
    PROVE  HandIInv'
<1>1. HandTypes'
  BY DEF HandIInv, HandTypes
<1>2. UNCHANGED <<TurnAsked(hmain, turned, hand), GotoMissed(unheard), RateMissed(unheard)>>
  BY DEF TurnAsked, GotoMissed, RateMissed
<1>3. GotoOwned(hpool', gotoOp', hand) = GotoOwned(hpool', gotoOp', hand')
  OBVIOUS
<1> QED  BY <1>1, <1>2, <1>3 DEF HandIInv

\* A slew is accepted.
LEMMA StartSlewStep ==
    ASSUME HandIInv, Hand!StartSlew
    PROVE  HandIInv'
<1>1. /\ gotoOp = "none" /\ gotoOp' = "starting" /\ UNCHANGED <<hand, hmain, hpool, turned, unheard>>
      /\ PoolRuns(hpool, gotoOp)
  BY DEF HandIInv, HandTypes, Hand!StartSlew, Hand!Requests
<1>2. PoolRuns(hpool', gotoOp') /\ hpool = Hand!Free
  BY <1>1 DEF PoolRuns
<1>3. GotoOwned(hpool, gotoOp, hand) => GotoOwned(hpool', gotoOp', hand)
  BY <1>1, <1>2 DEF GotoOwned
<1> QED  BY <1>1, <1>2, <1>3, OnlyPool

\* The operation begins a call.
LEMMA OperationStep ==
    ASSUME HandIInv, Hand!Begins \/ Hand!Polls \/ Hand!GivesUp
    PROVE  HandIInv'
<1>1. UNCHANGED <<hand, hmain, turned, unheard>> /\ hpool = Hand!Free
  BY DEF Hand!Begins, Hand!Polls, Hand!GivesUp, Hand!Lends
<1> DEFINE Goal == /\ PoolRuns(hpool', gotoOp')
                   /\ (GotoOwned(hpool, gotoOp, hand) => GotoOwned(hpool', gotoOp', hand))
<1>2. ASSUME gotoOp = "starting", gotoOp' = "none", UNCHANGED hpool PROVE Goal
  BY <1>1, <1>2 DEF PoolRuns, GotoOwned
<1>3. ASSUME gotoOp = "starting", gotoOp' = "commanding", hpool' = Hand!Sends("slew", Hand!SlewOf, {}) PROVE Goal
  <2>1. Hand!SlewOf \in Seq(HandCommands)
    BY TwosAre
  <2>2. Runs(hpool', Hand!SlewOf) /\ hpool'.m = "slew" /\ hpool'.bad = {}
    <3>1. DOMAIN hpool' = CallFields /\ hpool'.todo = Hand!SlewOf /\ hpool'.m = "slew" /\ hpool'.bad = {}
      BY <1>3 DEF Hand!Sends, Hand!Free, CallFields
    <3> QED  BY <3>1, <2>1, FullRun
  <2> QED  BY <1>3, <2>2 DEF PoolRuns, GotoOwned
<1>4. ASSUME gotoOp = "polling", gotoOp' = gotoOp, hpool' = Hand!Sends("status", Hand!StatusOf, {}) PROVE Goal
  <2>1. Hand!StatusOf \in Seq(HandCommands) /\ Len(Hand!StatusOf) = 5
    BY MoreAre
  <2>2. Runs(hpool', Hand!StatusOf) /\ hpool'.m = "status" /\ hpool'.bad = {} /\ hpool'.todo = Hand!StatusOf
    <3>1. DOMAIN hpool' = CallFields /\ hpool'.todo = Hand!StatusOf /\ hpool'.m = "status" /\ hpool'.bad = {} /\ hpool'.todo = Hand!StatusOf
      BY <1>4 DEF Hand!Sends, Hand!Free, CallFields
    <3> QED  BY <3>1, <2>1, FullRun
  <2>3. Len(hpool'.todo) = 5
    BY <2>1, <2>2
  <2> QED  BY <1>4, <2>2, <2>3 DEF PoolRuns, GotoOwned
<1>5. ASSUME gotoOp' = "aborting", hpool' = Hand!Sends("abort", Hand!AbortOf, {}) PROVE Goal
  <2>1. Hand!AbortOf \in Seq(HandCommands) /\ Len(Hand!AbortOf) = 3
    BY MoreAre
  <2>2. Runs(hpool', Hand!AbortOf) /\ hpool'.m = "abort" /\ hpool'.todo = Hand!AbortOf
    <3>1. DOMAIN hpool' = CallFields /\ hpool'.todo = Hand!AbortOf /\ hpool'.m = "abort" /\ hpool'.todo = Hand!AbortOf
      BY <1>5 DEF Hand!Sends, Hand!Free, CallFields
    <3> QED  BY <3>1, <2>1, FullRun
  <2>3. Len(hpool'.todo) = 3
    BY <2>1, <2>2
  <2> QED  BY <1>5, <2>2, <2>3 DEF PoolRuns, GotoOwned
<1>6. Goal
  <2> HIDE DEF Goal
  <2> QED  BY <1>2, <1>3, <1>4, <1>5 DEF Hand!Begins, Hand!Polls, Hand!GivesUp
<1> QED  BY <1>1, <1>6, OnlyPool

\* The operation's call returns.
LEMMA PoolReturnsStep ==
    ASSUME HandIInv, Hand!PoolReturns
    PROVE  HandIInv'
<1>1. /\ hpool # Hand!Free /\ hpool.todo = <<>> /\ hpool' = Hand!Free
      /\ UNCHANGED <<hand, hmain, turned, unheard>> /\ PoolRuns(hpool, gotoOp) /\ Len(hpool.todo) = 0
  <2>1. Len(<<>>) = 0
    OBVIOUS
  <2> QED  BY <2>1 DEF HandIInv, HandTypes, Hand!PoolReturns
<1>2. gotoOp' = IF \/ hpool.m = "slew" /\ hpool.bad = {}
                   \/ hpool.m = "status" /\ "position" \notin hpool.bad /\ hpool.seen
                THEN "polling" ELSE "none"
  BY DEF Hand!PoolReturns
<1>3. hpool.m \in {"slew", "status", "abort"}
  BY <1>1 DEF PoolRuns
<1>4. PoolRuns(hpool', gotoOp')
  BY <1>1, <1>2 DEF PoolRuns
<1>5. ASSUME GotoOwned(hpool, gotoOp, hand), gotoOp' = "none" PROVE ~hand.goto
  BY <1>1, <1>2, <1>3, <1>5 DEF GotoOwned
<1>6. (gotoOp' = "none" => ~hand.goto) => GotoOwned(hpool', gotoOp', hand)
  <2>1. hpool'.m = "none"
    BY <1>1 DEF Hand!Free
  <2>2. gotoOp' # "starting"
    BY <1>2
  <2> QED  BY <2>1, <2>2 DEF GotoOwned
<1> QED  BY <1>1, <1>4, <1>5, <1>6, OnlyPool

\* The hand controller's invariant is kept by all the parts.
LEMMA HandStep == HandIInv /\ [Next]_vars => HandIInv'
<1> SUFFICES ASSUME HandIInv, [Next]_vars PROVE HandIInv'
  OBVIOUS
<1>1. CASE HandNext
  BY <1>1, MainSendsStep, PoolSendsStep, ArrivesStep, RequestStep, StartSlewStep, MainReturnsStep,
     OperationStep, PoolReturnsStep DEF HandNext, Hand!HandNext
<1>2. CASE UNCHANGED handVars
  <2>1. UNCHANGED <<hand, hmain, hpool, gotoOp, turned, unheard>>
    BY <1>2 DEF handVars
  <2>2. HandTypes'
    BY <2>1 DEF HandIInv, HandTypes
  <2>3. unheard \subseteq unheard' /\ hand'.turn \subseteq hand.turn /\ (hand'.goto => hand.goto)
    BY <2>1
  <2> QED  BY <2>1, <2>2, <2>3, FewerMotions DEF HandIInv
<1> QED  BY <1>1, <1>2 DEF Next, vars, MountNext, TableNext, SessionNext, LoaderNext, CanonNext, SdkNext,
         FocusNext, RecNext, IndiNext, NetNext, SolveNext, VideoNext, LinksNext

\* Between calls no GOTO runs that no operation has, and no axis turns that nobody asked to turn,
\* except after the exchanges whose missing answers the driver does not look at.
THEOREM MotionWasAsked == Spec => []MotionIsAsked
<1>1. Init => HandIInv
  BY HandInitInv DEF Init
<1>2. HandIInv => MotionIsAsked
  <2> SUFFICES ASSUME HandIInv PROVE MotionIsAsked
    OBVIOUS
  <2>1. ASSUME hmain = Hand!Free, hpool = Hand!Free PROVE hmain.m = "none" /\ hpool.m = "none"
    BY <2>1 DEF Hand!Free
  <2> QED  BY <2>1 DEF HandIInv, GotoOwned, TurnAsked, GotoMissed, RateMissed, MotionIsAsked, Hand!MotionIsAsked
<1> QED  BY <1>1, <1>2, HandStep, PTL DEF Spec

-----------------------------------------------------------------------------
(* SynScanNetwork: what was reported done was done.                        *)

NetRoutines == {"look", "goto", "stop", "turn", "track", "off"}
NetItems == [r : NetRoutines, axis : Net!NetAxes, key : Keys \cup {0}]
Motors == [does : {"still", "slowing", "moves"}, mode : {"turn", "goto"}, ran : BOOLEAN]
NetOps == {"none", "slew", "park", "unpark", "abort", "track", "untrack", "halt", "manual", "rescue"}

\* The routines that are left, and their axes.
LeftOf(s) == {s[i] : i \in 1 .. Len(s)}
AxesOf(s) == {s[i].axis : i \in 1 .. Len(s)}

CallIs(c) ==
    /\ DOMAIN c = {"op", "todo", "at", "bad", "moved"}
    /\ c.op \in NetOps /\ c.todo \in Seq(NetItems) /\ c.bad \in BOOLEAN
    /\ c.todo # <<>> => c.at \in 1 .. Len(Net!Exchanges(Head(c.todo).r)) /\ c.op # "none"
ClaimIs(c) ==
    /\ DOMAIN c = {"op", "wanted", "begun", "kept", "blurred", "coasted"}
    /\ c.blurred \in BOOLEAN /\ c.coasted \in BOOLEAN
NetTypes == motor \in [Net!NetAxes -> Motors] /\ CallIs(ncall) /\ ClaimIs(claim)

\* A stop: the axes that are done with rest.
StopsAxes(mt, c, cl) ==
    c.op \in {"abort", "halt"} /\ ~c.bad /\ ~cl.blurred =>
        /\ \A x \in LeftOf(c.todo) : x.r = "stop"
        /\ \A a \in Net!NetAxes \ AxesOf(c.todo) : mt[a].does = "still"

\* A GOTO: an axis that has not started is still and has not moved.
StartsAxes(mt, c, cl) ==
    c.op \in {"slew", "park"} /\ ~c.bad /\ ~cl.blurred /\ ~cl.coasted =>
        /\ \A x \in LeftOf(c.todo) : x.r \in {"look", "goto"}
        /\ \A a \in cl.wanted : a \in cl.begun \/ \E x \in LeftOf(c.todo) : x.r = "goto" /\ x.axis = a
        /\ c.todo # <<>> /\ Head(c.todo).r = "goto" /\ c.at >= 2 /\ Head(c.todo).axis \notin cl.begun =>
              mt[Head(c.todo).axis].does = "still" /\ mt[Head(c.todo).axis].ran = FALSE /\ c.moved = FALSE

\* A manual slew: an axis that moves was started by it or has not been stopped.
TurnsAxes(mt, c, cl) ==
    c.op = "manual" /\ ~c.bad /\ ~cl.blurred =>
        /\ \A x \in LeftOf(c.todo) : x.r \in {"stop", "turn"} /\ (x.axis \in cl.wanted => x.r = "turn")
        /\ \A a \in cl.wanted \ AxesOf(c.todo) : a \in cl.begun \cup cl.kept
        /\ \A a \in AxesOf(c.todo) : mt[a].does # "still" => a \in cl.begun \cup cl.kept

NetIInv ==
    /\ NetTypes /\ StopsAxes(motor, ncall, claim) /\ StartsAxes(motor, ncall, claim) /\ TurnsAxes(motor, ncall, claim)
    /\ (claim.op # "none" => ncall.op = "none") /\ (ncall.op = "none" => ncall = Net!NoNetCall) /\ Net!DoneIsDone


\* No routine is left of an empty sequence, the one of a single routine.
LEMMA LeftOfOne ==
    /\ <<>> \in Seq(NetItems) /\ LeftOf(<<>>) = {} /\ AxesOf(<<>>) = {}
    /\ \A x \in NetItems : <<x>> \in Seq(NetItems) /\ LeftOf(<<x>>) = {x} /\ Head(<<x>>) = x /\ <<x>> # <<>>
<1>1. LeftOf(<<>>) = {} /\ AxesOf(<<>>) = {}
  BY DEF LeftOf, AxesOf
<1>2. ASSUME NEW x \in NetItems PROVE <<x>> \in Seq(NetItems) /\ LeftOf(<<x>>) = {x} /\ Head(<<x>>) = x /\ <<x>> # <<>>
  BY <1>2 DEF LeftOf
<1> QED  BY <1>1, <1>2

\* The axes are those of the routines.
LEMMA AxesAre ==
    ASSUME NEW s
    PROVE  \A a : a \in AxesOf(s) <=> \E x \in LeftOf(s) : x.axis = a
BY DEF AxesOf, LeftOf

\* What is left is the first routine and the others.
LEMMA LeftOfTail ==
    ASSUME NEW s, s \in Seq(NetItems), s # <<>>
    PROVE  /\ Tail(s) \in Seq(NetItems) /\ Head(s) \in NetItems
           /\ LeftOf(s) = {Head(s)} \cup LeftOf(Tail(s))
<1> DEFINE t == Tail(s)
           n == Len(s)
<1>1. t \in Seq(NetItems) /\ n \in Nat /\ n >= 1 /\ Len(t) = n - 1 /\ \A i \in 1 .. n - 1 : t[i] = s[i + 1]
  OBVIOUS
<1>2. Head(s) = s[1] /\ s[1] \in NetItems
  OBVIOUS
<1> HIDE DEF t, n
<1>3. ASSUME NEW i \in 1 .. n PROVE s[i] \in {s[1]} \cup LeftOf(t)
  <2>1. CASE i = 1
    BY <2>1
  <2>2. CASE i # 1
    <3>1. i - 1 \in 1 .. n - 1 /\ (i - 1) + 1 = i
      BY <1>1, <2>2
    <3>2. t[i - 1] = s[i]
      BY <1>1, <3>1
    <3> QED  BY <1>1, <3>1, <3>2 DEF LeftOf
  <2> QED  BY <2>1, <2>2
<1>4. ASSUME NEW i \in 1 .. n - 1 PROVE t[i] \in LeftOf(s)
  <2>1. i + 1 \in 1 .. n /\ t[i] = s[i + 1]
    BY <1>1
  <2> QED  BY <2>1 DEF LeftOf, n
<1>5. s[1] \in LeftOf(s)
  <2>1. 1 \in 1 .. n
    BY <1>1
  <2> QED  BY <2>1 DEF LeftOf, n
<1>6. LeftOf(s) \subseteq {s[1]} \cup LeftOf(t)
  BY <1>3 DEF LeftOf, n
<1>7. LeftOf(t) \subseteq LeftOf(s)
  BY <1>1, <1>4 DEF LeftOf
<1> QED  BY <1>1, <1>2, <1>5, <1>6, <1>7 DEF t

\* What is left of two sequences in a row.
LEMMA LeftOfBoth ==
    ASSUME NEW s, NEW t, s \in Seq(NetItems), t \in Seq(NetItems)
    PROVE  s \o t \in Seq(NetItems) /\ LeftOf(s \o t) = LeftOf(s) \cup LeftOf(t)
<1> DEFINE u == s \o t
           m == Len(s)
           n == Len(t)
<1>1. /\ u \in Seq(NetItems) /\ Len(u) = m + n
      /\ \A i \in 1 .. m + n : u[i] = IF i <= m THEN s[i] ELSE t[i - m]
  BY ConcatProperties
<1>2. m \in Nat /\ n \in Nat
  OBVIOUS
<1> HIDE DEF u, m, n
<1>3. ASSUME NEW i \in 1 .. m + n PROVE u[i] \in LeftOf(s) \cup LeftOf(t)
  <2>1. CASE i <= m
    <3>1. i \in 1 .. m /\ u[i] = s[i]
      BY <1>1, <1>2, <2>1
    <3> QED  BY <3>1 DEF LeftOf, m
  <2>2. CASE ~(i <= m)
    <3>1. i - m \in 1 .. n /\ u[i] = t[i - m]
      BY <1>1, <1>2, <2>2
    <3> QED  BY <3>1 DEF LeftOf, n
  <2> QED  BY <2>1, <2>2
<1>4. ASSUME NEW i \in 1 .. m PROVE s[i] \in LeftOf(u)
  <2>1. i \in 1 .. m + n /\ u[i] = s[i]
    BY <1>1, <1>2
  <2> QED  BY <1>1, <2>1 DEF LeftOf
<1>5. ASSUME NEW i \in 1 .. n PROVE t[i] \in LeftOf(u)
  <2>1. i + m \in 1 .. m + n /\ ~(i + m <= m) /\ (i + m) - m = i
    BY <1>2
  <2>2. u[i + m] = t[i]
    BY <1>1, <2>1
  <2> QED  BY <1>1, <2>1, <2>2 DEF LeftOf
<1>6. LeftOf(u) \subseteq LeftOf(s) \cup LeftOf(t)
  BY <1>1, <1>3 DEF LeftOf
<1>7. LeftOf(s) \subseteq LeftOf(u)
  BY <1>4 DEF LeftOf, m
<1>8. LeftOf(t) \subseteq LeftOf(u)
  BY <1>5 DEF LeftOf, n
<1> QED  BY <1>1, <1>6, <1>7, <1>8 DEF u

\* The exchanges of the routines that the invariant looks at.
LEMMA ExchangesAre ==
    /\ Len(Net!Exchanges("stop")) = 3 /\ Net!Exchanges("stop")[3] = "status"
    /\ Len(Net!Exchanges("turn")) = 6 /\ Net!Exchanges("turn")[6] = "status"
    /\ Len(Net!Exchanges("goto")) = 11 /\ Net!Exchanges("goto")[1] = "pos"
    /\ Net!Exchanges("goto")[10] = "pos" /\ Net!Exchanges("goto")[11] = "status"
    /\ Len(Net!Exchanges("look")) = 2 /\ Len(Net!Exchanges("track")) = 6 /\ Len(Net!Exchanges("off")) = 1
    /\ \A r \in {"goto", "look"} : \A n \in 1 .. Len(Net!Exchanges(r)) : Net!Exchanges(r)[n] # "instant"
<1>1. Len(Net!Exchanges("stop")) = 3 /\ Net!Exchanges("stop")[3] = "status"
  BY DEF Net!Exchanges, Net!ConfirmedStopAxis
<1>2. Len(Net!Exchanges("turn")) = 6 /\ Net!Exchanges("turn")[6] = "status"
  BY DEF Net!Exchanges, Net!SetManualRate
<1>3. /\ Len(Net!Exchanges("goto")) = 11 /\ Net!Exchanges("goto")[1] = "pos"
      /\ Net!Exchanges("goto")[10] = "pos" /\ Net!Exchanges("goto")[11] = "status"
      /\ \A n \in 1 .. 11 : Net!Exchanges("goto")[n] # "instant"
  BY DEF Net!Exchanges, Net!GotoAxisDelta
<1>4. Len(Net!Exchanges("look")) = 2 /\ \A n \in 1 .. 2 : Net!Exchanges("look")[n] # "instant"
  BY DEF Net!Exchanges, Net!LookAxis
<1>5. Len(Net!Exchanges("track")) = 6
  BY DEF Net!Exchanges, Net!TrackAxis
<1>6. Len(Net!Exchanges("off")) = 1
  BY DEF Net!Exchanges
<1> QED  BY <1>1, <1>2, <1>3, <1>4, <1>5, <1>6

\* Where a routine goes on after a failure.
LEMMA GoesOnIs ==
    ASSUME NEW r \in NetRoutines, NEW n \in 1 .. Len(Net!Exchanges(r)), NEW i \in Net!GoesOn(r, n), i # 0
    PROVE  i \in 1 .. Len(Net!Exchanges(r)) /\ (r = "goto" => i >= 2 /\ n >= 2)
<1>1. CASE r = "stop"
  BY <1>1, ExchangesAre DEF Net!GoesOn
<1>2. CASE r = "turn"
  <2>1. n \in 1 .. 6
    BY <1>2, ExchangesAre
  <2>2. i \in {1, 2, 5, n}
    BY <1>2 DEF Net!GoesOn
  <2> QED  BY <1>2, <2>1, <2>2, ExchangesAre
<1>3. CASE r = "goto"
  <2>1. n \in 1 .. 11
    BY <1>3, ExchangesAre
  <2>2. (n \in 4 .. 5 /\ i = 4) \/ (n > 9 /\ i = 10)
    BY <1>3, <2>1 DEF Net!GoesOn
  <2> QED  BY <1>3, <2>1, <2>2, ExchangesAre
<1>4. CASE r = "track"
  <2>1. n \in 1 .. 6
    BY <1>4, ExchangesAre
  <2>2. i = 2
    BY <1>4, <2>1 DEF Net!GoesOn
  <2> QED  BY <1>4, <2>2, ExchangesAre
<1>5. CASE r \in {"look", "off"}
  BY <1>5 DEF Net!GoesOn
<1> QED  BY <1>1, <1>2, <1>3, <1>4, <1>5 DEF NetRoutines

\* A routine begins with its first exchange.
LEMMA AtFirst == \A x \in NetItems : 1 \in 1 .. Len(Net!Exchanges(x.r))
<1> TAKE x \in NetItems
<1>1. x.r \in NetRoutines
  BY DEF NetItems
<1>2. \A r \in NetRoutines : Len(Net!Exchanges(r)) \in {1, 2, 3, 6, 11}
  <2> TAKE r \in NetRoutines
  <2>1. r = "look" \/ r = "goto" \/ r = "stop" \/ r = "turn" \/ r = "track" \/ r = "off"
    BY DEF NetRoutines
  <2> QED  BY <2>1, ExchangesAre
<1>3. \A k \in {1, 2, 3, 6, 11} : 1 \in 1 .. k
  OBVIOUS
<1> QED  BY <1>1, <1>2, <1>3

\* A call that ends or goes on after a failure.
Failing(c) ==
    \/ CallIs(c) /\ c.bad = TRUE /\ c.op # "none"
    \/ \E i \in Net!GoesOn(Net!Routine, ncall.at) \ {0} : c = [ncall EXCEPT !.at = i]

\* A failure ends the call, or a part of it, or goes back to an earlier exchange.
LEMMA FailsIs ==
    ASSUME NetTypes, ncall.todo # <<>>, Net!StepFails
    PROVE  Failing(ncall')
<1> DEFINE a == Net!Axis
           r == Net!Routine
           bad == [ncall EXCEPT !.bad = TRUE, !.todo = Tail(ncall.todo), !.at = 1]
           rescue(todo) == [op |-> "rescue", bad |-> TRUE, at |-> 1, moved |-> FALSE, todo |-> todo]
           off == [ncall EXCEPT !.bad = TRUE, !.todo = <<>>]
           both == Net!Both("stop")
<1>1. CallIs(ncall) /\ Tail(ncall.todo) \in Seq(NetItems) /\ Head(ncall.todo) \in NetItems /\ ncall.op # "none"
  BY LeftOfTail DEF NetTypes, CallIs
<1>2. CASE \E i \in Net!GoesOn(Net!Routine, ncall.at) : i # 0 /\ ncall' = [ncall EXCEPT !.at = i]
  BY <1>2 DEF Failing
<1>3. CASE Net!RoutineFails
  <2>1. Net!R("stop", 1) \in NetItems /\ Net!R("stop", 2) \in NetItems /\ Net!R("stop", a) \in NetItems
    <3>1. a \in Net!NetAxes
      BY <1>1 DEF NetItems, Net!Axis
    <3> HIDE DEF a
    <3> QED  BY <3>1 DEF NetItems, NetRoutines, Net!R, Net!NetAxes
  <2>2. both \in Seq(NetItems) /\ <<Net!R("stop", a)>> \in Seq(NetItems) /\ <<>> \in Seq(NetItems)
    BY <2>1 DEF Net!Both
  <2> HIDE DEF both
  <2>3. <<Net!R("stop", a)>> \o both \in Seq(NetItems) /\ <<>> \o both \in Seq(NetItems)
    BY <2>2
  <2>4. ASSUME NEW c, DOMAIN c = {"op", "todo", "at", "bad", "moved"}, c.op \in NetOps \ {"none"}, c.todo \in Seq(NetItems),
               c.bad = TRUE, c.at = 1 \/ c.todo = <<>>
        PROVE  Failing(c)
    <3>1. c.todo # <<>> => Head(c.todo) \in NetItems
      BY <2>4, LeftOfTail
    <3>2. c.todo # <<>> => c.at \in 1 .. Len(Net!Exchanges(Head(c.todo).r))
      BY <2>4, <3>1, AtFirst
    <3> QED  BY <2>4, <3>2 DEF Failing, CallIs
  <2>5. \/ ncall' = bad \/ ncall' = off
        \/ \E todo \in {<<Net!R("stop", a)>> \o both, <<>> \o both} : ncall' = rescue(todo)
    <3> DEFINE first == IF Net!Routine = "turn" THEN <<Net!R("stop", a)>> ELSE <<>>
    <3>1. ncall' = bad \/ ncall' = off \/ ncall' = rescue(first \o both)
      <4> HIDE DEF first
      <4>1. ncall' = CASE ncall.op \in {"abort", "halt", "rescue"} -> bad
                      [] r \in {"goto", "turn"} \/ ncall.op = "manual" -> rescue(first \o both)
                      [] OTHER -> off
        BY <1>3 DEF Net!RoutineFails, both, first
      <4> HIDE DEF bad, off, rescue, r
      <4> QED  BY <4>1
    <3>2. first = <<Net!R("stop", a)>> \/ first = <<>>
      OBVIOUS
    <3> HIDE DEF first, rescue, bad, off
    <3> QED  BY <3>1, <3>2
  <2>6. CASE ncall' = bad
    <3>1. /\ DOMAIN bad = {"op", "todo", "at", "bad", "moved"} /\ bad.op = ncall.op /\ bad.todo = Tail(ncall.todo)
          /\ bad.bad = TRUE /\ bad.at = 1
      BY <1>1 DEF CallIs
    <3> HIDE DEF bad
    <3> QED  BY <1>1, <2>4, <2>6, <3>1 DEF CallIs
  <2>7. CASE ncall' = off
    <3>1. /\ DOMAIN off = {"op", "todo", "at", "bad", "moved"} /\ off.op = ncall.op /\ off.todo = <<>> /\ off.bad = TRUE
      BY <1>1 DEF CallIs
    <3> HIDE DEF off
    <3> QED  BY <1>1, <2>2, <2>4, <2>7, <3>1 DEF CallIs
  <2>8. ASSUME NEW todo \in {<<Net!R("stop", a)>> \o both, <<>> \o both}, ncall' = rescue(todo) PROVE Failing(ncall')
    <3>1. todo \in Seq(NetItems)
      BY <2>3
    <3>2. /\ DOMAIN rescue(todo) = {"op", "todo", "at", "bad", "moved"} /\ rescue(todo).op = "rescue" /\ rescue(todo).todo = todo
          /\ rescue(todo).bad = TRUE /\ rescue(todo).at = 1
      OBVIOUS
    <3> HIDE DEF rescue
    <3>3. "rescue" \in NetOps \ {"none"}
      BY DEF NetOps
    <3> QED  BY <2>4, <2>8, <3>1, <3>2, <3>3
  <2> QED  BY <2>5, <2>6, <2>7, <2>8
<1> QED  BY <1>2, <1>3 DEF Net!StepFails

\* What a command does to its axis.
LEMMA ActedIs ==
    ASSUME NEW m, m \in Motors
    PROVE  LET k == Net!Acted(m) IN
           /\ k \in Motors
           /\ k.does # "still" /\ m.does = "still" => Net!Cmd = "start"
           /\ Net!Cmd = "instant" => k.does = "still"
           /\ Net!Cmd \in {"pos", "status"} => k = m
           /\ Net!Cmd # "instant" => k.ran = m.ran
<1> DEFINE k == Net!Acted(m)
           cmd == Net!Cmd
<1>1. CASE cmd = "instant"
  <2>1. k = [m EXCEPT !.does = "still", !.ran = @ \/ Net!Moving(m)]
    BY <1>1 DEF Net!Acted
  <2>2. (m.ran \/ Net!Moving(m)) \in BOOLEAN
    BY DEF Motors
  <2> HIDE DEF cmd
  <2> QED  BY <1>1, <2>1, <2>2 DEF Motors, cmd
<1>2. CASE cmd = "slow"
  BY <1>2 DEF Net!Acted, Motors, Net!Moving
<1>3. CASE cmd = "mode"
  BY <1>3 DEF Net!Acted, Motors, Net!Moving
<1>4. CASE cmd = "start"
  BY <1>4 DEF Net!Acted, Motors
<1>5. CASE cmd \notin {"instant", "slow", "mode", "start"}
  BY <1>5 DEF Net!Acted, Motors
<1> QED  BY <1>1, <1>2, <1>3, <1>4, <1>5

\* What the call remembers of a command that was obeyed, or not.
LEMMA ObeyedIs ==
    ASSUME NEW c, ClaimIs(c)
    PROVE  LET d == Net!Obeyed(c) IN
           /\ ClaimIs(d) /\ d.op = c.op /\ d.wanted = c.wanted /\ d.blurred = c.blurred /\ d.coasted = c.coasted
           /\ d.begun = (IF Net!Cmd = "start" THEN c.begun \cup {Net!Axis}
                         ELSE IF Net!Cmd = "instant" THEN c.begun \ {Net!Axis} ELSE c.begun)
           /\ d.kept = IF Net!Cmd = "instant" THEN c.kept \ {Net!Axis} ELSE c.kept
<1> DEFINE cmd == Net!Cmd
<1>1. CASE cmd = "start"
  BY <1>1 DEF Net!Obeyed, ClaimIs
<1>2. CASE cmd = "instant"
  BY <1>2 DEF Net!Obeyed, ClaimIs
<1>3. CASE cmd \notin {"start", "instant"}
  BY <1>3 DEF Net!Obeyed, ClaimIs
<1> QED  BY <1>1, <1>2, <1>3

\* What an answer means to the routine.
RoutineGoes(heard) ==
    \/ Failing(ncall')
    \/ /\ Net!Last /\ ncall' = [ncall EXCEPT !.todo = Tail(@), !.at = 1, !.moved = FALSE]
       /\ \E fine \in Net!Content(heard) : fine
    \/ ~Net!Last /\ ncall' = [ncall EXCEPT !.at = @ + 1, !.moved = Net!Shown(heard)]

\* A routine ends or goes on when it is content with the answer.
LEMMA AnsweredIs ==
    ASSUME NetTypes, ncall.todo # <<>>, NEW heard, Net!Answered(heard)
    PROVE  RoutineGoes(heard)
<1>1. PICK fine \in Net!Content(heard) :
         IF ~fine THEN Net!StepFails
         ELSE IF Net!Last THEN Net!RoutineDone
         ELSE ncall' = [ncall EXCEPT !.at = @ + 1, !.moved = Net!Shown(heard)] /\ UNCHANGED memory
  BY DEF Net!Answered
<1>2. CASE ~fine
  BY <1>1, <1>2, FailsIs DEF RoutineGoes
<1>3. CASE fine /\ Net!Last
  BY <1>1, <1>3 DEF RoutineGoes, Net!RoutineDone
<1>4. CASE fine /\ ~Net!Last
  BY <1>1, <1>4 DEF RoutineGoes
<1> QED  BY <1>2, <1>3, <1>4

\* An exchange of routine r on axis a, whose command was obeyed or not.
NetExchanged(a, r, n, acts) ==
    /\ motor' \in [Net!NetAxes -> Motors] /\ \A b \in Net!NetAxes \ {a} : motor'[b] = motor[b]
    /\ motor'[a].does # "still" /\ motor[a].does = "still" => acts /\ Net!Cmd = "start"
    /\ acts /\ Net!Cmd = "instant" => motor'[a].does = "still"
    /\ Net!Cmd \in {"pos", "status"} => motor'[a].does = motor[a].does
    /\ Net!Cmd # "instant" /\ motor[a].ran = FALSE => motor'[a].ran = FALSE
    /\ ClaimIs(claim') /\ (claim.op = "none" => claim'.op = "none")
    /\ claim'.blurred = FALSE =>
          /\ claim.blurred = FALSE /\ claim'.wanted = claim.wanted /\ (claim'.coasted = FALSE => claim.coasted = FALSE)
          /\ claim'.begun = (IF acts /\ Net!Cmd = "start" THEN claim.begun \cup {a}
                             ELSE IF acts /\ Net!Cmd = "instant" THEN claim.begun \ {a} ELSE claim.begun)
          /\ claim'.kept = IF acts /\ Net!Cmd = "instant" THEN claim.kept \ {a} ELSE claim.kept
    /\ \/ Failing(ncall')
       \/ /\ n = Len(Net!Exchanges(r)) /\ ncall' = [ncall EXCEPT !.todo = Tail(@), !.at = 1, !.moved = FALSE]
          /\ r \in {"stop", "turn", "goto"} => Net!Cmd = "status"
          /\ claim'.blurred = FALSE =>
                /\ r = "stop" => motor[a].does = "still"
                /\ r = "turn" => motor[a].does # "still"
                /\ r = "goto" /\ ncall.moved = FALSE => motor[a].does # "still"
       \/ /\ n # Len(Net!Exchanges(r))
          /\ \E mv : ncall' = [ncall EXCEPT !.at = @ + 1, !.moved = mv]
                     /\ (r = "goto" /\ n # 10 => mv = FALSE)
                     /\ (claim'.blurred = FALSE /\ r = "goto" /\ motor[a].does = "still" /\ motor[a].ran = FALSE => mv = FALSE)
          /\ r = "goto" /\ n = 1 /\ claim'.blurred = FALSE /\ claim'.coasted = FALSE =>
                motor[a].does = "still" /\ motor'[a].ran = FALSE

\* What is left of a call and its first routine.
LEMMA FirstIs ==
    ASSUME NetTypes, ncall.todo # <<>>
    PROVE  /\ Net!Axis \in Net!NetAxes /\ Net!Routine \in NetRoutines /\ ncall.at \in 1 .. Len(Net!Exchanges(Net!Routine))
           /\ motor[Net!Axis] \in Motors /\ ncall.op # "none"
<1>1. CallIs(ncall) /\ Head(ncall.todo) \in NetItems
  BY LeftOfTail DEF NetTypes, CallIs
<1>2. Net!Axis \in Net!NetAxes /\ Net!Routine \in NetRoutines
  BY <1>1 DEF NetItems, Net!Axis, Net!Routine
<1>3. ncall.at \in 1 .. Len(Net!Exchanges(Net!Routine)) /\ ncall.op # "none"
  BY <1>1 DEF CallIs, Net!Routine
<1> QED  BY <1>2, <1>3 DEF NetTypes

\* An answer of its own tells a routine the truth.
LEMMA OwnAnswer ==
    ASSUME NetTypes, ncall.todo # <<>>, NEW m, m \in Motors, NEW answer \in Net!Answers(m)
    PROVE  /\ Net!Cmd = "status" /\ (\E fine \in Net!Content(answer) : fine) =>
                 /\ Net!Routine = "stop" => m.does = "still"
                 /\ Net!Routine = "turn" => m.does # "still"
                 /\ Net!Routine = "goto" /\ Net!Last /\ ncall.at # 5 /\ ncall.moved = FALSE => m.does # "still"
           /\ Net!Cmd = "pos" /\ m.does = "still" /\ m.ran = FALSE => answer.moved = FALSE
<1>1. ASSUME Net!Cmd = "status", NEW fine \in Net!Content(answer), fine
      PROVE  /\ Net!Routine = "stop" => m.does = "still"
             /\ Net!Routine = "turn" => m.does # "still"
             /\ Net!Routine = "goto" /\ Net!Last /\ ncall.at # 5 /\ ncall.moved = FALSE => m.does # "still"
  <2>1. answer = [is |-> "status", run |-> Net!Moving(m), goto |-> m.mode = "goto"]
    <3>1. ~Net!Refuses(m)
      BY <1>1 DEF Net!Refuses
    <3>2. answer \in {[is |-> "status", run |-> Net!Moving(m), goto |-> m.mode = "goto"]}
      BY <1>1, <3>1 DEF Net!Answers
    <3> QED  BY <3>2
  <2>2. answer.is = "status" /\ (answer.run <=> m.does # "still")
    BY <2>1 DEF Net!Moving
  <2>3. fine \in Net!Waited(answer)
    BY <1>1, <2>2 DEF Net!Content
  <2>4. CASE Net!Routine = "stop"
    <3>1. fine = ~answer.run
      BY <2>3, <2>4 DEF Net!Waited
    <3> QED  BY <1>1, <2>2, <2>4, <3>1
  <2>5. CASE Net!Routine = "turn"
    <3>1. fine = (answer.run /\ ~answer.goto)
      BY <2>3, <2>5 DEF Net!Waited
    <3> QED  BY <1>1, <2>2, <2>5, <3>1
  <2>6. CASE Net!Routine = "goto" /\ Net!Last /\ ncall.at # 5 /\ ncall.moved = FALSE
    <3>1. fine = (ncall.moved \/ (answer.run /\ answer.goto))
      BY <2>3, <2>6 DEF Net!Waited
    <3> QED  BY <1>1, <2>2, <2>6, <3>1
  <2> QED  BY <2>4, <2>5, <2>6
<1>2. ASSUME Net!Cmd = "pos", m.does = "still", m.ran = FALSE PROVE answer.moved = FALSE
  <2>1. ~Net!Refuses(m)
    BY <1>2 DEF Net!Refuses
  <2>2. answer \in {[is |-> "pos", moved |-> moved] : moved \in {m.ran}}
    BY <1>2, <2>1 DEF Net!Answers, Net!Moving
  <2> QED  BY <1>2, <2>2
<1> QED  BY <1>1, <1>2

\* That is what an exchange does, also one whose heard is late.
LEMMA NetExchangeIs ==
    ASSUME NetTypes, Net!Exchange
    PROVE  ncall.todo # <<>> /\ \E acts \in BOOLEAN : NetExchanged(Net!Axis, Net!Routine, ncall.at, acts)
<1> DEFINE a == Net!Axis
           r == Net!Routine
           n == ncall.at
           cmd == Net!Cmd
           m == motor[a]
           here == IF Net!First THEN [motor[Net!Axis] EXCEPT !.ran = FALSE] ELSE motor[Net!Axis]
           seen == [claim EXCEPT !.coasted = @ \/ (Net!First /\ Net!Moving(motor[Net!Axis]))]
           note(acts) == IF claim.blurred THEN claim ELSE IF acts THEN Net!Obeyed(seen) ELSE seen
<1>1. ncall.todo # <<>>
  BY DEF Net!Exchange
<1>2. PICK stay \in {{}, late}, acts \in BOOLEAN, answer \in Net!Answers(m) :
         /\ motor' = [motor EXCEPT ![a] = IF acts THEN Net!Acted(here) ELSE here]
         /\ \/ acts /\ Net!Answered(answer) /\ claim' = note(acts)
            \/ \E other \in stay : Net!Answered(other) /\ claim' = IF cmd \in {"status", "pos"} THEN Net!Blurred ELSE note(acts)
            \/ ~acts /\ Net!StepFails /\ claim' = note(acts)
  BY DEF Net!Exchange
<1>3. /\ a \in Net!NetAxes /\ r \in NetRoutines /\ n \in 1 .. Len(Net!Exchanges(r)) /\ m \in Motors
      /\ motor \in [Net!NetAxes -> Motors] /\ ClaimIs(claim)
  BY <1>1, FirstIs DEF NetTypes
<1>4. Net!First <=> r = "goto" /\ n = 1
  BY DEF Net!First
<1>5. Net!Last <=> n = Len(Net!Exchanges(r))
  BY DEF Net!Last
<1>6. cmd = Net!Exchanges(r)[n]
  BY DEF Net!Cmd
<1> HIDE DEF a, r, n, cmd, m
<1>7. here \in Motors /\ here.does = m.does /\ (Net!First => here.ran = FALSE) /\ (m.ran = FALSE => here.ran = FALSE)
  BY <1>3 DEF Motors, m, a
<1>8. ClaimIs(seen) /\ seen.op = claim.op /\ seen.wanted = claim.wanted /\ seen.begun = claim.begun /\ seen.kept = claim.kept
      /\ seen.blurred = claim.blurred
      /\ (seen.coasted = FALSE => claim.coasted = FALSE /\ (Net!First => m.does = "still"))
  <2>1. (claim.coasted \/ (Net!First /\ Net!Moving(motor[Net!Axis]))) \in BOOLEAN
    BY <1>3 DEF ClaimIs
  <2>2. Net!Moving(motor[Net!Axis]) <=> m.does # "still"
    BY DEF Net!Moving, m, a
  <2> QED  BY <1>3, <2>1, <2>2 DEF ClaimIs
<1> HIDE DEF here, seen
<1>9. /\ ClaimIs(note(acts)) /\ note(acts).op = claim.op
      /\ note(acts).blurred = FALSE =>
            /\ claim.blurred = FALSE /\ note(acts).wanted = claim.wanted
            /\ (note(acts).coasted = FALSE => claim.coasted = FALSE /\ (Net!First => m.does = "still"))
            /\ note(acts).begun = (IF acts /\ cmd = "start" THEN claim.begun \cup {a}
                               ELSE IF acts /\ cmd = "instant" THEN claim.begun \ {a} ELSE claim.begun)
            /\ note(acts).kept = IF acts /\ cmd = "instant" THEN claim.kept \ {a} ELSE claim.kept
  <2>1. claim.blurred \in BOOLEAN
    BY <1>3 DEF ClaimIs
  <2>2. CASE claim.blurred
    BY <1>3, <2>2
  <2>3. CASE ~claim.blurred /\ acts
    BY <1>8, <2>1, <2>3, ObeyedIs DEF cmd, a
  <2>4. CASE ~claim.blurred /\ ~acts
    BY <1>8, <2>1, <2>4
  <2> QED  BY <2>2, <2>3, <2>4
<1> HIDE DEF note
<1>10. ClaimIs(Net!Blurred) /\ Net!Blurred.op = "none" /\ Net!Blurred.blurred = TRUE
  BY DEF ClaimIs, Net!Blurred, Net!NoClaim
<1>11. claim' = note(acts) \/ (cmd \in {"status", "pos"} /\ claim' = Net!Blurred)
  BY <1>2
<1>12. /\ ClaimIs(claim') /\ (claim.op = "none" => claim'.op = "none")
       /\ claim'.blurred = FALSE =>
            /\ claim.blurred = FALSE /\ claim'.wanted = claim.wanted
            /\ (claim'.coasted = FALSE => claim.coasted = FALSE /\ (Net!First => m.does = "still"))
            /\ claim'.begun = (IF acts /\ cmd = "start" THEN claim.begun \cup {a}
                               ELSE IF acts /\ cmd = "instant" THEN claim.begun \ {a} ELSE claim.begun)
            /\ claim'.kept = IF acts /\ cmd = "instant" THEN claim.kept \ {a} ELSE claim.kept
  BY <1>9, <1>10, <1>11
<1>13. /\ motor' \in [Net!NetAxes -> Motors] /\ (\A b \in Net!NetAxes \ {a} : motor'[b] = motor[b])
       /\ motor'[a] = IF acts THEN Net!Acted(here) ELSE here
  <2>1. Net!Acted(here) \in Motors
    BY <1>7, ActedIs
  <2> QED  BY <1>2, <1>3, <1>7, <2>1
<1>14. /\ motor'[a].does # "still" /\ m.does = "still" => acts /\ cmd = "start"
       /\ acts /\ cmd = "instant" => motor'[a].does = "still"
       /\ cmd \in {"pos", "status"} => motor'[a].does = m.does
       /\ cmd # "instant" /\ m.ran = FALSE => motor'[a].ran = FALSE
       /\ cmd # "instant" /\ Net!First => motor'[a].ran = FALSE
  <2>1. /\ Net!Acted(here).does # "still" /\ here.does = "still" => cmd = "start"
        /\ cmd = "instant" => Net!Acted(here).does = "still"
        /\ cmd \in {"pos", "status"} => Net!Acted(here) = here
        /\ cmd # "instant" => Net!Acted(here).ran = here.ran
    BY <1>7, ActedIs DEF cmd
  <2> QED  BY <1>7, <1>13, <2>1
<1>15. /\ r = "stop" /\ n = Len(Net!Exchanges(r)) => cmd = "status"
       /\ r = "turn" /\ n = Len(Net!Exchanges(r)) => cmd = "status"
       /\ r = "goto" /\ n = Len(Net!Exchanges(r)) => cmd = "status" /\ n # 5
       /\ r = "goto" /\ n = 10 => cmd = "pos"
       /\ r = "goto" /\ n = 1 => cmd = "pos"
  <2>1. ASSUME r = "stop", n = Len(Net!Exchanges(r)) PROVE cmd = "status"
    BY <1>6, <2>1, ExchangesAre
  <2>2. ASSUME r = "turn", n = Len(Net!Exchanges(r)) PROVE cmd = "status"
    BY <1>6, <2>2, ExchangesAre
  <2>3. ASSUME r = "goto", n = Len(Net!Exchanges(r)) PROVE cmd = "status" /\ n # 5
    <3>1. n = 11 /\ cmd = Net!Exchanges("goto")[11]
      BY <1>6, <2>3, ExchangesAre
    <3> QED  BY <3>1, ExchangesAre
  <2>4. ASSUME r = "goto", n = 10 \/ n = 1 PROVE cmd = "pos"
    BY <1>6, <2>4, ExchangesAre, SMTT(60)
  <2> QED  BY <2>1, <2>2, <2>3, <2>4
<1> DEFINE Goal ==
       \/ Failing(ncall')
       \/ /\ n = Len(Net!Exchanges(r)) /\ ncall' = [ncall EXCEPT !.todo = Tail(@), !.at = 1, !.moved = FALSE]
          /\ r \in {"stop", "turn", "goto"} => cmd = "status"
          /\ claim'.blurred = FALSE =>
                /\ r = "stop" => m.does = "still"
                /\ r = "turn" => m.does # "still"
                /\ r = "goto" /\ ncall.moved = FALSE => m.does # "still"
       \/ /\ n # Len(Net!Exchanges(r))
          /\ \E mv : ncall' = [ncall EXCEPT !.at = @ + 1, !.moved = mv]
                     /\ (r = "goto" /\ n # 10 => mv = FALSE)
                     /\ (claim'.blurred = FALSE /\ r = "goto" /\ m.does = "still" /\ m.ran = FALSE => mv = FALSE)
<1>16. Goal
  <2>0. ASSUME NEW heard, r = "goto", n # 10 PROVE Net!Shown(heard) = FALSE
    BY <2>0, SMTT(60) DEF Net!Shown, n
  <2>1. CASE Net!Answered(answer) /\ claim' = note(acts)
    <3>1. RoutineGoes(answer)
      BY <1>1, <2>1, AnsweredIs
    <3>2. /\ cmd = "status" /\ (\E fine \in Net!Content(answer) : fine) =>
                /\ r = "stop" => m.does = "still"
                /\ r = "turn" => m.does # "still"
                /\ r = "goto" /\ Net!Last /\ n # 5 /\ ncall.moved = FALSE => m.does # "still"
          /\ cmd = "pos" /\ m.does = "still" /\ m.ran = FALSE => answer.moved = FALSE
      BY <1>1, <1>3, OwnAnswer DEF cmd, r, n
    <3>3. CASE Failing(ncall')
      BY <3>3
    <3>4. CASE Net!Last /\ ncall' = [ncall EXCEPT !.todo = Tail(@), !.at = 1, !.moved = FALSE]
               /\ \E fine \in Net!Content(answer) : fine
      BY <1>5, <1>15, <3>2, <3>4
    <3>5. CASE ~Net!Last /\ ncall' = [ncall EXCEPT !.at = @ + 1, !.moved = Net!Shown(answer)]
      <4>1. r = "goto" /\ m.does = "still" /\ m.ran = FALSE => Net!Shown(answer) = FALSE
        <5>1. CASE n = 10
          BY <1>15, <3>2, <5>1 DEF Net!Shown
        <5> QED  BY <2>0, <5>1
      <4> QED  BY <1>5, <2>0, <3>5, <4>1
    <3> QED  BY <3>1, <3>3, <3>4, <3>5 DEF RoutineGoes
  <2>2. ASSUME NEW other \in stay, Net!Answered(other), claim' = IF cmd \in {"status", "pos"} THEN Net!Blurred ELSE note(acts)
        PROVE  Goal
    <3>1. RoutineGoes(other)
      BY <1>1, <2>2, AnsweredIs
    <3>2. cmd \in {"status", "pos"} => claim'.blurred = TRUE
      BY <1>10, <2>2
    <3>3. CASE Failing(ncall')
      BY <3>3
    <3>4. CASE Net!Last /\ ncall' = [ncall EXCEPT !.todo = Tail(@), !.at = 1, !.moved = FALSE]
      BY <1>5, <1>15, <3>2, <3>4
    <3>5. CASE ~Net!Last /\ ncall' = [ncall EXCEPT !.at = @ + 1, !.moved = Net!Shown(other)]
      BY <1>5, <1>15, <2>0, <3>2, <3>5
    <3> QED  BY <3>1, <3>3, <3>4, <3>5 DEF RoutineGoes
  <2>3. CASE Net!StepFails
    BY <1>1, <2>3, FailsIs
  <2> QED  BY <1>2, <2>1, <2>2, <2>3
<1>17. r = "goto" /\ n = 1 /\ claim'.blurred = FALSE /\ claim'.coasted = FALSE => m.does = "still" /\ motor'[a].ran = FALSE
  BY <1>4, <1>12, <1>14, <1>15
<1>18. NetExchanged(a, r, n, acts)
  BY <1>12, <1>13, <1>14, <1>16, <1>17 DEF NetExchanged, m, cmd
<1> QED  BY <1>1, <1>18 DEF a, r, n

\* A late reply is an exchange that failed although the command was obeyed.
LEMMA NetDelayedIs ==
    ASSUME NetTypes, Net!Delayed
    PROVE  ncall.todo # <<>> /\ NetExchanged(Net!Axis, Net!Routine, ncall.at, TRUE)
<1> DEFINE a == Net!Axis
           m == motor[a]
           k == Net!Acted(m)
<1>1. /\ ncall.todo # <<>> /\ motor' = [motor EXCEPT ![a] = k] /\ Net!StepFails
      /\ claim' = IF claim.blurred THEN claim ELSE Net!Obeyed(claim)
  BY DEF Net!Delayed
<1>2. a \in Net!NetAxes /\ m \in Motors /\ motor \in [Net!NetAxes -> Motors] /\ ClaimIs(claim)
  BY <1>1, FirstIs DEF NetTypes
<1>3. Failing(ncall')
  BY <1>1, FailsIs
<1>4. /\ k \in Motors
      /\ k.does # "still" /\ m.does = "still" => Net!Cmd = "start"
      /\ Net!Cmd = "instant" => k.does = "still"
      /\ Net!Cmd \in {"pos", "status"} => k = m
      /\ Net!Cmd # "instant" => k.ran = m.ran
  <2> HIDE DEF m
  <2> QED  BY <1>2, ActedIs
<1> HIDE DEF k, m, a
<1>5. /\ motor' \in [Net!NetAxes -> Motors] /\ (\A b \in Net!NetAxes \ {a} : motor'[b] = motor[b]) /\ motor'[a] = k
  BY <1>1, <1>2, <1>4
<1>6. /\ ClaimIs(claim') /\ (claim.op = "none" => claim'.op = "none")
      /\ claim'.blurred = FALSE =>
            /\ claim.blurred = FALSE /\ claim'.wanted = claim.wanted /\ (claim'.coasted = FALSE => claim.coasted = FALSE)
            /\ claim'.begun = (IF Net!Cmd = "start" THEN claim.begun \cup {a}
                               ELSE IF Net!Cmd = "instant" THEN claim.begun \ {a} ELSE claim.begun)
            /\ claim'.kept = IF Net!Cmd = "instant" THEN claim.kept \ {a} ELSE claim.kept
  <2>1. claim.blurred \in BOOLEAN
    BY <1>2 DEF ClaimIs
  <2>2. CASE claim.blurred
    BY <1>1, <1>2, <2>2
  <2>3. CASE ~claim.blurred
    BY <1>1, <1>2, <2>1, <2>3, ObeyedIs DEF a
  <2> QED  BY <2>2, <2>3
<1>7. NetExchanged(a, Net!Routine, ncall.at, TRUE)
  BY <1>3, <1>4, <1>5, <1>6, SMTT(60) DEF NetExchanged, m
<1> QED  BY <1>1, <1>7 DEF a

\* The call after an exchange: what it keeps.
LEMMA CallKept ==
    ASSUME NetTypes, ncall.todo # <<>>, NEW acts \in BOOLEAN, NetExchanged(Net!Axis, Net!Routine, ncall.at, acts)
    PROVE  /\ NetTypes' /\ ncall'.op # "none"
           /\ \/ ncall'.bad = TRUE
              \/ /\ ncall'.op = ncall.op /\ ncall'.bad = ncall.bad /\ ncall'.todo = ncall.todo
                 /\ Net!Routine = "goto" /\ ncall.at >= 2 /\ ncall.moved = FALSE => ncall'.at >= 2
                 /\ (Net!Routine = "goto" /\ ncall.at = 1 => ncall'.at = 2)
                 /\ (Net!Routine = "goto" /\ claim'.blurred = FALSE /\ motor[Net!Axis].does = "still"
                        /\ motor[Net!Axis].ran = FALSE => ncall'.moved \in {ncall.moved, FALSE})
                 /\ (Net!Routine = "goto" /\ ncall.at = 1 => ncall'.moved = FALSE)
                 /\ (Net!Routine = "goto" /\ ncall.at = 1 /\ claim'.blurred = FALSE /\ claim'.coasted = FALSE =>
                        motor[Net!Axis].does = "still" /\ motor'[Net!Axis].ran = FALSE)
              \/ /\ ncall'.op = ncall.op /\ ncall'.bad = ncall.bad /\ ncall'.todo = Tail(ncall.todo) /\ ncall'.at = 1
                 /\ (Net!Routine = "goto" => ncall.at >= 2)
                 /\ Net!Routine \in {"stop", "turn", "goto"} => Net!Cmd = "status"
                 /\ claim'.blurred = FALSE =>
                       /\ Net!Routine = "stop" => motor[Net!Axis].does = "still"
                       /\ Net!Routine = "turn" => motor[Net!Axis].does # "still"
                       /\ Net!Routine = "goto" /\ ncall.moved = FALSE => motor[Net!Axis].does # "still"
<1> DEFINE a == Net!Axis
           r == Net!Routine
           n == ncall.at
<1>1. /\ a \in Net!NetAxes /\ r \in NetRoutines /\ n \in 1 .. Len(Net!Exchanges(r)) /\ ncall.op # "none"
      /\ CallIs(ncall) /\ Head(ncall.todo).r = r
  BY FirstIs DEF NetTypes, Net!Routine
<1>2. /\ Tail(ncall.todo) \in Seq(NetItems)
      /\ (Tail(ncall.todo) # <<>> => Head(Tail(ncall.todo)) \in NetItems)
  <2>1. Tail(ncall.todo) \in Seq(NetItems)
    BY <1>1, LeftOfTail DEF CallIs
  <2> QED  BY <2>1, LeftOfTail
<1>3. motor' \in [Net!NetAxes -> Motors] /\ ClaimIs(claim')
  BY DEF NetExchanged
<1>4. NetExchanged(a, r, n, acts)
  OBVIOUS
<1> HIDE DEF a, r, n
<1>5. CASE CallIs(ncall') /\ ncall'.bad = TRUE /\ ncall'.op # "none"
  BY <1>3, <1>5 DEF NetTypes
<1>6. ASSUME NEW i \in Net!GoesOn(r, n) \ {0}, ncall' = [ncall EXCEPT !.at = i]
      PROVE  /\ CallIs(ncall') /\ ncall'.op = ncall.op /\ ncall'.bad = ncall.bad /\ ncall'.todo = ncall.todo
             /\ ncall'.moved = ncall.moved /\ (r = "goto" => ncall'.at >= 2 /\ n >= 2)
  <2>1. i \in 1 .. Len(Net!Exchanges(r)) /\ (r = "goto" => i >= 2 /\ n >= 2)
    BY <1>1, <1>6, GoesOnIs
  <2> QED  BY <1>1, <1>6, <2>1 DEF CallIs
<1>7. ASSUME n = Len(Net!Exchanges(r)), ncall' = [ncall EXCEPT !.todo = Tail(@), !.at = 1, !.moved = FALSE]
      PROVE  /\ CallIs(ncall') /\ ncall'.op = ncall.op /\ ncall'.bad = ncall.bad /\ ncall'.todo = Tail(ncall.todo)
             /\ ncall'.at = 1 /\ (r = "goto" => n >= 2)
  <2>1. Tail(ncall.todo) # <<>> => 1 \in 1 .. Len(Net!Exchanges(Head(Tail(ncall.todo)).r))
    BY <1>2, AtFirst
  <2>2. r = "goto" => n >= 2
    <3>1. r = "goto" => n = 11
      BY <1>7, ExchangesAre
    <3> QED  BY <3>1
  <2> QED  BY <1>1, <1>2, <1>7, <2>1, <2>2 DEF CallIs
<1>8. ASSUME n # Len(Net!Exchanges(r)), NEW mv, ncall' = [ncall EXCEPT !.at = @ + 1, !.moved = mv]
      PROVE  /\ CallIs(ncall') /\ ncall'.op = ncall.op /\ ncall'.bad = ncall.bad /\ ncall'.todo = ncall.todo
             /\ ncall'.at = n + 1 /\ ncall'.moved = mv
  <2>1. ncall.at = n
    BY DEF n
  <2>2. n + 1 \in 1 .. Len(Net!Exchanges(r))
    <3>1. Len(Net!Exchanges(r)) \in Nat
      BY <1>1, ExchangesAre DEF NetRoutines
    <3> QED  BY <1>1, <1>8, <3>1
  <2> QED  BY <1>1, <1>8, <2>1, <2>2 DEF CallIs
<1>9. CASE \E i \in Net!GoesOn(r, n) \ {0} : ncall' = [ncall EXCEPT !.at = i]
  <2>1. /\ CallIs(ncall') /\ ncall'.op = ncall.op /\ ncall'.bad = ncall.bad /\ ncall'.todo = ncall.todo
        /\ ncall'.moved = ncall.moved /\ (r = "goto" => ncall'.at >= 2 /\ n >= 2)
    BY <1>6, <1>9
  <2>2. n = 1 => ~(n >= 2)
    OBVIOUS
  <2> QED  BY <1>1, <1>3, <2>1, <2>2 DEF NetTypes, r, n, a
<1>10. CASE /\ n = Len(Net!Exchanges(r)) /\ ncall' = [ncall EXCEPT !.todo = Tail(@), !.at = 1, !.moved = FALSE]
            /\ r \in {"stop", "turn", "goto"} => Net!Cmd = "status"
            /\ claim'.blurred = FALSE =>
                /\ r = "stop" => motor[a].does = "still"
                /\ r = "turn" => motor[a].does # "still"
                /\ r = "goto" /\ ncall.moved = FALSE => motor[a].does # "still"
  <2>1. /\ CallIs(ncall') /\ ncall'.op = ncall.op /\ ncall'.bad = ncall.bad /\ ncall'.todo = Tail(ncall.todo)
        /\ ncall'.at = 1 /\ (r = "goto" => n >= 2)
    BY <1>7, <1>10
  <2> QED  BY <1>1, <1>3, <1>10, <2>1 DEF NetTypes, r, n, a
<1>11. ASSUME n # Len(Net!Exchanges(r)), NEW mv, ncall' = [ncall EXCEPT !.at = @ + 1, !.moved = mv],
              r = "goto" /\ n # 10 => mv = FALSE,
              claim'.blurred = FALSE /\ r = "goto" /\ motor[a].does = "still" /\ motor[a].ran = FALSE => mv = FALSE,
              r = "goto" /\ n = 1 /\ claim'.blurred = FALSE /\ claim'.coasted = FALSE =>
                 motor[a].does = "still" /\ motor'[a].ran = FALSE
       PROVE  /\ CallIs(ncall') /\ ncall'.op # "none" /\ ncall'.op = ncall.op /\ ncall'.bad = ncall.bad /\ ncall'.todo = ncall.todo
              /\ (r = "goto" /\ n >= 2 => ncall'.at >= 2)
              /\ (r = "goto" /\ n = 1 => ncall'.at = 2 /\ ncall'.moved = FALSE)
              /\ (r = "goto" /\ claim'.blurred = FALSE /\ motor[a].does = "still" /\ motor[a].ran = FALSE =>
                     ncall'.moved = FALSE)
              /\ (r = "goto" /\ n = 1 /\ claim'.blurred = FALSE /\ claim'.coasted = FALSE =>
                     motor[a].does = "still" /\ motor'[a].ran = FALSE)
  <2>1. /\ CallIs(ncall') /\ ncall'.op = ncall.op /\ ncall'.bad = ncall.bad /\ ncall'.todo = ncall.todo
        /\ ncall'.at = n + 1 /\ ncall'.moved = mv
    BY <1>8, <1>11
  <2>2. n \in Nat
    BY <1>1, SMTT(60)
  <2> QED  BY <1>1, <1>11, <2>1, <2>2
<1>12. \/ CallIs(ncall') /\ ncall'.bad = TRUE /\ ncall'.op # "none"
       \/ \E i \in Net!GoesOn(r, n) \ {0} : ncall' = [ncall EXCEPT !.at = i]
       \/ /\ n = Len(Net!Exchanges(r)) /\ ncall' = [ncall EXCEPT !.todo = Tail(@), !.at = 1, !.moved = FALSE]
          /\ r \in {"stop", "turn", "goto"} => Net!Cmd = "status"
          /\ claim'.blurred = FALSE =>
                /\ r = "stop" => motor[a].does = "still"
                /\ r = "turn" => motor[a].does # "still"
                /\ r = "goto" /\ ncall.moved = FALSE => motor[a].does # "still"
       \/ /\ n # Len(Net!Exchanges(r))
          /\ \E mv : ncall' = [ncall EXCEPT !.at = @ + 1, !.moved = mv]
                     /\ (r = "goto" /\ n # 10 => mv = FALSE)
                     /\ (claim'.blurred = FALSE /\ r = "goto" /\ motor[a].does = "still" /\ motor[a].ran = FALSE => mv = FALSE)
          /\ r = "goto" /\ n = 1 /\ claim'.blurred = FALSE /\ claim'.coasted = FALSE =>
                motor[a].does = "still" /\ motor'[a].ran = FALSE
  BY <1>4 DEF NetExchanged, Failing, r, n
<1>13. CASE n # Len(Net!Exchanges(r))
          /\ (\E mv : ncall' = [ncall EXCEPT !.at = @ + 1, !.moved = mv]
                     /\ (r = "goto" /\ n # 10 => mv = FALSE)
                     /\ (claim'.blurred = FALSE /\ r = "goto" /\ motor[a].does = "still" /\ motor[a].ran = FALSE => mv = FALSE))
          /\ (r = "goto" /\ n = 1 /\ claim'.blurred = FALSE /\ claim'.coasted = FALSE =>
                motor[a].does = "still" /\ motor'[a].ran = FALSE)
  <2>1. /\ CallIs(ncall') /\ ncall'.op # "none" /\ ncall'.op = ncall.op /\ ncall'.bad = ncall.bad /\ ncall'.todo = ncall.todo
        /\ (r = "goto" /\ n >= 2 => ncall'.at >= 2)
        /\ (r = "goto" /\ n = 1 => ncall'.at = 2 /\ ncall'.moved = FALSE)
        /\ (r = "goto" /\ claim'.blurred = FALSE /\ motor[a].does = "still" /\ motor[a].ran = FALSE =>
               ncall'.moved = FALSE)
        /\ (r = "goto" /\ n = 1 /\ claim'.blurred = FALSE /\ claim'.coasted = FALSE =>
               motor[a].does = "still" /\ motor'[a].ran = FALSE)
    BY <1>11, <1>13
  <2> QED  BY <1>3, <2>1 DEF NetTypes, r, n, a
<1> QED  BY <1>5, <1>9, <1>10, <1>12, <1>13

\* The routines and the axes before and after the first routine is done.
LEMMA LeftIs ==
    ASSUME NetTypes, ncall.todo # <<>>
    PROVE  /\ \A x \in LeftOf(ncall.todo) : (x.r = Net!Routine /\ x.axis = Net!Axis) \/ x \in LeftOf(Tail(ncall.todo))
           /\ LeftOf(Tail(ncall.todo)) \subseteq LeftOf(ncall.todo)
           /\ AxesOf(ncall.todo) = AxesOf(Tail(ncall.todo)) \cup {Net!Axis}
           /\ \E x \in LeftOf(ncall.todo) : x.r = Net!Routine /\ x.axis = Net!Axis
<1> DEFINE s == ncall.todo
           t == Tail(s)
           h == Head(s)
<1>1. LeftOf(s) = {h} \cup LeftOf(t)
  BY LeftOfTail DEF NetTypes, CallIs
<1>2. h.r = Net!Routine /\ h.axis = Net!Axis
  BY DEF Net!Routine, Net!Axis
<1> HIDE DEF s, t, h
<1>3. \A b : b \in AxesOf(s) <=> b \in AxesOf(t) \/ b = h.axis
  <2>1. \A b : b \in AxesOf(s) <=> \E x \in LeftOf(s) : x.axis = b
    BY AxesAre
  <2>2. \A b : b \in AxesOf(t) <=> \E x \in LeftOf(t) : x.axis = b
    BY AxesAre
  <2> QED  BY <1>1, <2>1, <2>2
<1> QED  BY <1>1, <1>2, <1>3 DEF s, t

\* After an exchange of a stop the axes that are done with are still at rest.
LEMMA StopsKept ==
    ASSUME NetIInv, ncall.todo # <<>>, NEW acts \in BOOLEAN, NetExchanged(Net!Axis, Net!Routine, ncall.at, acts)
    PROVE  StopsAxes(motor', ncall', claim')
<1> DEFINE a == Net!Axis
           r == Net!Routine
<1> SUFFICES ASSUME ncall'.op \in {"abort", "halt"}, ~ncall'.bad, ~claim'.blurred
             PROVE  /\ \A x \in LeftOf(ncall'.todo) : x.r = "stop"
                    /\ \A b \in Net!NetAxes \ AxesOf(ncall'.todo) : motor'[b].does = "still"
  BY SMTT(60) DEF StopsAxes
<1>1. NetTypes /\ NetTypes' /\ claim'.blurred = FALSE /\ claim.blurred = FALSE /\ ncall'.bad # TRUE
  BY CallKept DEF NetIInv, NetTypes, ClaimIs, NetExchanged
<1>2. /\ \A x \in LeftOf(ncall.todo) : (x.r = r /\ x.axis = a) \/ x \in LeftOf(Tail(ncall.todo))
      /\ LeftOf(Tail(ncall.todo)) \subseteq LeftOf(ncall.todo)
      /\ AxesOf(ncall.todo) = AxesOf(Tail(ncall.todo)) \cup {a}
      /\ \E x \in LeftOf(ncall.todo) : x.r = r /\ x.axis = a
  BY <1>1, LeftIs
<1>3. /\ \A b \in Net!NetAxes \ {a} : motor'[b] = motor[b]
      /\ Net!Cmd \in {"pos", "status"} => motor'[a].does = motor[a].does
  BY DEF NetExchanged
<1>4. \/ ncall'.op = ncall.op /\ ncall'.bad = ncall.bad /\ ncall'.todo = ncall.todo
      \/ /\ ncall'.op = ncall.op /\ ncall'.bad = ncall.bad /\ ncall'.todo = Tail(ncall.todo)
         /\ r = "stop" => Net!Cmd = "status" /\ motor[a].does = "still"
  BY <1>1, CallKept
<1>5. StopsAxes(motor, ncall, claim)
  BY DEF NetIInv
<1>6. /\ \A x \in LeftOf(ncall.todo) : x.r = "stop"
      /\ \A b \in Net!NetAxes \ AxesOf(ncall.todo) : motor[b].does = "still"
  BY <1>1, <1>4, <1>5 DEF StopsAxes
<1> HIDE DEF a, r
<1>7. r = "stop"
  BY <1>2, <1>6
<1> QED  BY <1>2, <1>3, <1>4, <1>6, <1>7

\* After an exchange of a GOTO an axis that has not started is still where it was.
LEMMA StartsKept ==
    ASSUME NetIInv, ncall.todo # <<>>, NEW acts \in BOOLEAN, NetExchanged(Net!Axis, Net!Routine, ncall.at, acts)
    PROVE  StartsAxes(motor', ncall', claim')
<1> DEFINE a == Net!Axis
           r == Net!Routine
           n == ncall.at
           Goes1 == \A x \in LeftOf(ncall'.todo) : x.r \in {"look", "goto"}
           Goes2 == \A b \in claim'.wanted :
                       b \in claim'.begun \/ \E x \in LeftOf(ncall'.todo) : x.r = "goto" /\ x.axis = b
           Goes3 == ncall'.todo # <<>> /\ Head(ncall'.todo).r = "goto" /\ ncall'.at >= 2 /\ Head(ncall'.todo).axis \notin claim'.begun =>
              motor'[Head(ncall'.todo).axis].does = "still" /\ motor'[Head(ncall'.todo).axis].ran = FALSE /\ ncall'.moved = FALSE
<1> SUFFICES ASSUME ncall'.op \in {"slew", "park"}, ~ncall'.bad, ~claim'.blurred, ~claim'.coasted
             PROVE  Goes1 /\ Goes2 /\ Goes3
  BY DEF StartsAxes
<1>1. NetTypes /\ NetTypes' /\ claim'.blurred = FALSE /\ claim.blurred = FALSE /\ ncall'.bad # TRUE
      /\ claim'.coasted = FALSE /\ claim.coasted = FALSE
  BY CallKept DEF NetIInv, NetTypes, ClaimIs, NetExchanged
<1>2. /\ \A x \in LeftOf(ncall.todo) : (x.r = r /\ x.axis = a) \/ x \in LeftOf(Tail(ncall.todo))
      /\ LeftOf(Tail(ncall.todo)) \subseteq LeftOf(ncall.todo)
      /\ \E x \in LeftOf(ncall.todo) : x.r = r /\ x.axis = a
  BY <1>1, LeftIs
<1>3. /\ motor'[a].does # "still" /\ motor[a].does = "still" => acts /\ Net!Cmd = "start"
      /\ Net!Cmd # "instant" /\ motor[a].ran = FALSE => motor'[a].ran = FALSE
      /\ claim'.wanted = claim.wanted
      /\ claim'.begun = (IF acts /\ Net!Cmd = "start" THEN claim.begun \cup {a}
                         ELSE IF acts /\ Net!Cmd = "instant" THEN claim.begun \ {a} ELSE claim.begun)
  BY <1>1 DEF NetExchanged
<1>4. a \in Net!NetAxes /\ r \in NetRoutines /\ n \in 1 .. Len(Net!Exchanges(r))
  BY <1>1, FirstIs
<1>h. Head(ncall.todo).r = r /\ Head(ncall.todo).axis = a
  BY DEF Net!Routine, Net!Axis
<1>c. Net!Cmd = Net!Exchanges(r)[n]
  BY DEF Net!Cmd
<1>5. \/ /\ ncall'.op = ncall.op /\ ncall'.bad = ncall.bad /\ ncall'.todo = ncall.todo
         /\ (r = "goto" /\ motor[a].does = "still" /\ motor[a].ran = FALSE => ncall'.moved \in {ncall.moved, FALSE})
         /\ (r = "goto" /\ n = 1 => ncall'.moved = FALSE /\ motor[a].does = "still" /\ motor'[a].ran = FALSE)
      \/ /\ ncall'.op = ncall.op /\ ncall'.bad = ncall.bad /\ ncall'.todo = Tail(ncall.todo) /\ ncall'.at = 1
         /\ (r = "goto" => n >= 2)
         /\ (r = "goto" /\ ncall.moved = FALSE => motor[a].does # "still")
  BY <1>1, CallKept
<1>6. StartsAxes(motor, ncall, claim)
  BY DEF NetIInv
<1> HIDE DEF a, r, n
<1>7. /\ \A x \in LeftOf(ncall.todo) : x.r \in {"look", "goto"}
      /\ \A b \in claim.wanted : b \in claim.begun \/ \E x \in LeftOf(ncall.todo) : x.r = "goto" /\ x.axis = b
      /\ r = "goto" /\ n >= 2 /\ a \notin claim.begun => motor[a].does = "still" /\ motor[a].ran = FALSE /\ ncall.moved = FALSE
  BY <1>1, <1>5, <1>6, <1>h DEF StartsAxes, n
<1>8. Net!Cmd # "instant"
  BY <1>2, <1>4, <1>7, <1>c, ExchangesAre
<1>9. claim.begun \subseteq claim'.begun
  BY <1>3, <1>8
<1>10. CASE /\ ncall'.todo = ncall.todo
            /\ (r = "goto" /\ motor[a].does = "still" /\ motor[a].ran = FALSE => ncall'.moved \in {ncall.moved, FALSE})
            /\ (r = "goto" /\ n = 1 => ncall'.moved = FALSE /\ motor[a].does = "still" /\ motor'[a].ran = FALSE)
  <2>1. Goes1
    BY <1>7, <1>10
  <2>2. Goes2
    BY <1>3, <1>7, <1>9, <1>10
  <2>3. ASSUME r = "goto", a \notin claim'.begun
        PROVE  motor'[a].does = "still" /\ motor'[a].ran = FALSE /\ ncall'.moved = FALSE
    <3>1. n = 1 \/ n >= 2
      BY <1>4
    <3>2. ~(acts /\ Net!Cmd = "start") /\ a \notin claim.begun
      BY <1>3, <1>9, <2>3
    <3> QED  BY <1>3, <1>7, <1>8, <1>10, <2>3, <3>1, <3>2
  <2>4. Goes3
    BY <1>10, <1>h, <2>3
  <2> HIDE DEF Goes1, Goes2, Goes3
  <2> QED  BY <2>1, <2>2, <2>4
<1>11. CASE /\ ncall'.todo = Tail(ncall.todo) /\ ncall'.at = 1
            /\ (r = "goto" => n >= 2)
            /\ (r = "goto" /\ ncall.moved = FALSE => motor[a].does # "still")
  <2>1. Goes1
    BY <1>2, <1>7, <1>11
  <2>2. Goes2
    <3>1. r = "goto" => a \in claim.begun
      BY <1>7, <1>11
    <3> QED  BY <1>2, <1>3, <1>7, <1>9, <1>11, <3>1
  <2>3. Goes3
    BY <1>11
  <2> HIDE DEF Goes1, Goes2, Goes3
  <2> QED  BY <2>1, <2>2, <2>3
<1> HIDE DEF Goes1, Goes2, Goes3
<1> QED  BY <1>5, <1>10, <1>11

\* After an exchange of a manual slew an axis that moves was started or not stopped.
LEMMA TurnsKept ==
    ASSUME NetIInv, ncall.todo # <<>>, NEW acts \in BOOLEAN, NetExchanged(Net!Axis, Net!Routine, ncall.at, acts)
    PROVE  TurnsAxes(motor', ncall', claim')
<1> DEFINE a == Net!Axis
           r == Net!Routine
           has(b) == b \in claim.begun \cup claim.kept
           hasNow(b) == b \in claim'.begun \cup claim'.kept
<1> SUFFICES ASSUME ncall'.op = "manual", ~ncall'.bad, ~claim'.blurred
             PROVE  /\ \A x \in LeftOf(ncall'.todo) : x.r \in {"stop", "turn"} /\ (x.axis \in claim'.wanted => x.r = "turn")
                    /\ \A b \in claim'.wanted \ AxesOf(ncall'.todo) : hasNow(b)
                    /\ \A b \in AxesOf(ncall'.todo) : motor'[b].does # "still" => hasNow(b)
  BY SMTT(60) DEF TurnsAxes
<1>1. NetTypes /\ NetTypes' /\ claim'.blurred = FALSE /\ claim.blurred = FALSE /\ ncall'.bad # TRUE
  BY CallKept DEF NetIInv, NetTypes, ClaimIs, NetExchanged
<1>2. /\ \A x \in LeftOf(ncall.todo) : (x.r = r /\ x.axis = a) \/ x \in LeftOf(Tail(ncall.todo))
      /\ LeftOf(Tail(ncall.todo)) \subseteq LeftOf(ncall.todo)
      /\ AxesOf(ncall.todo) = AxesOf(Tail(ncall.todo)) \cup {a}
      /\ \E x \in LeftOf(ncall.todo) : x.r = r /\ x.axis = a
  BY <1>1, LeftIs
<1>3. /\ \A b \in Net!NetAxes \ {a} : motor'[b] = motor[b]
      /\ motor'[a].does # "still" /\ motor[a].does = "still" => acts /\ Net!Cmd = "start"
      /\ acts /\ Net!Cmd = "instant" => motor'[a].does = "still"
      /\ claim'.wanted = claim.wanted
      /\ claim'.begun = (IF acts /\ Net!Cmd = "start" THEN claim.begun \cup {a}
                         ELSE IF acts /\ Net!Cmd = "instant" THEN claim.begun \ {a} ELSE claim.begun)
      /\ claim'.kept = IF acts /\ Net!Cmd = "instant" THEN claim.kept \ {a} ELSE claim.kept
  BY <1>1 DEF NetExchanged
<1>4. \/ ncall'.op = ncall.op /\ ncall'.bad = ncall.bad /\ ncall'.todo = ncall.todo
      \/ /\ ncall'.op = ncall.op /\ ncall'.bad = ncall.bad /\ ncall'.todo = Tail(ncall.todo)
         /\ r = "turn" => Net!Cmd = "status" /\ motor[a].does # "still"
  BY <1>1, CallKept
<1>5. TurnsAxes(motor, ncall, claim)
  BY DEF NetIInv
<1>6. /\ \A x \in LeftOf(ncall.todo) : x.r \in {"stop", "turn"} /\ (x.axis \in claim.wanted => x.r = "turn")
      /\ \A b \in claim.wanted \ AxesOf(ncall.todo) : has(b)
      /\ \A b \in AxesOf(ncall.todo) : motor[b].does # "still" => has(b)
  BY <1>1, <1>4, <1>5 DEF TurnsAxes
<1>7. AxesOf(ncall.todo) \subseteq Net!NetAxes
  <2>1. ncall.todo \in Seq(NetItems)
    BY <1>1 DEF NetTypes, CallIs
  <2>2. \A i \in 1 .. Len(ncall.todo) : ncall.todo[i] \in NetItems
    BY <2>1
  <2> QED  BY <2>2 DEF AxesOf, NetItems
<1> HIDE DEF a, r
<1>8. \A b : b # a /\ has(b) => hasNow(b)
  BY <1>3
<1>9. motor'[a].does # "still" /\ (motor[a].does # "still" => has(a)) => hasNow(a)
  <2>1. CASE acts /\ Net!Cmd = "start"
    BY <1>3, <2>1
  <2>2. CASE acts /\ Net!Cmd = "instant"
    BY <1>3, <2>2
  <2>3. CASE ~(acts /\ Net!Cmd \in {"start", "instant"})
    BY <1>3, <2>3
  <2> QED  BY <2>1, <2>2, <2>3
<1>10. Net!Cmd = "status" /\ has(a) => hasNow(a)
  BY <1>3
<1> HIDE DEF has, hasNow
<1>11. \A b \in AxesOf(ncall.todo) : motor'[b].does # "still" => hasNow(b)
  <2> TAKE b \in AxesOf(ncall.todo)
  <2>1. CASE b = a
    BY <1>6, <1>9, <2>1
  <2>2. CASE b # a
    <3>1. motor'[b] = motor[b]
      BY <1>3, <1>7, <2>2
    <3> QED  BY <1>6, <1>8, <2>2, <3>1
  <2> QED  BY <2>1, <2>2
<1>12. \A b \in claim.wanted \ AxesOf(ncall.todo) : hasNow(b)
  BY <1>2, <1>6, <1>8
<1>13. CASE ncall'.todo = ncall.todo
  BY <1>3, <1>6, <1>11, <1>12, <1>13
<1>14. CASE ncall'.todo = Tail(ncall.todo) /\ (r = "turn" => Net!Cmd = "status" /\ motor[a].does # "still")
  <2>1. a \in claim.wanted => hasNow(a)
    <3>1. a \in claim.wanted => r = "turn"
      BY <1>2, <1>6
    <3>2. a \in AxesOf(ncall.todo)
      BY <1>2
    <3> QED  BY <1>6, <1>10, <1>14, <3>1, <3>2
  <2>2. \A b \in claim.wanted \ AxesOf(Tail(ncall.todo)) : hasNow(b)
    BY <1>2, <1>12, <2>1
  <2> QED  BY <1>2, <1>3, <1>6, <1>11, <1>14, <2>2
<1> QED  BY <1>4, <1>13, <1>14

\* One exchange.
LEMMA NetExchangeStep ==
    ASSUME NetIInv, Net!Exchange \/ Net!Delayed
    PROVE  NetIInv'
<1>1. NetTypes
  BY DEF NetIInv
<1>2. ncall.todo # <<>> /\ \E acts \in BOOLEAN : NetExchanged(Net!Axis, Net!Routine, ncall.at, acts)
  BY <1>1, NetExchangeIs, NetDelayedIs
<1>3. PICK acts \in BOOLEAN : NetExchanged(Net!Axis, Net!Routine, ncall.at, acts)
  BY <1>2
<1>4. NetTypes' /\ ncall'.op # "none"
  BY <1>1, <1>2, <1>3, CallKept
<1>5. ncall.op # "none"
  BY <1>1, <1>2, FirstIs
<1>6. claim'.op = "none"
  BY <1>3, <1>5 DEF NetIInv, NetExchanged
<1>7. StopsAxes(motor', ncall', claim') /\ StartsAxes(motor', ncall', claim') /\ TurnsAxes(motor', ncall', claim')
  BY <1>2, <1>3, StopsKept, StartsKept, TurnsKept
<1>8. Net!DoneIsDone'
  BY <1>6 DEF Net!DoneIsDone
<1> QED  BY <1>4, <1>6, <1>7, <1>8 DEF NetIInv

\* Before the first call nothing is reported.
LEMMA NetInitInv == Net!NetInit => NetIInv
<1> SUFFICES ASSUME Net!NetInit PROVE NetIInv
  OBVIOUS
<1>1. motor = [a \in Net!NetAxes |-> [does |-> "still", mode |-> "turn", ran |-> FALSE]] /\ ncall = Net!NoNetCall /\ claim = Net!NoClaim
  BY DEF Net!NetInit
<1>2. /\ DOMAIN ncall = {"op", "todo", "at", "bad", "moved"} /\ ncall.op = "none" /\ ncall.todo = <<>> /\ ncall.bad = FALSE
      /\ DOMAIN claim = {"op", "wanted", "begun", "kept", "blurred", "coasted"} /\ claim.op = "none"
      /\ claim.blurred = FALSE /\ claim.coasted = FALSE
  BY <1>1 DEF Net!NoNetCall, Net!NoClaim
<1>3. motor \in [Net!NetAxes -> Motors]
  BY <1>1 DEF Motors
<1>4. NetTypes
  BY <1>2, <1>3, LeftOfOne DEF NetTypes, CallIs, ClaimIs, NetOps
<1> QED  BY <1>1, <1>2, <1>4 DEF NetIInv, StopsAxes, StartsAxes, TurnsAxes, Net!DoneIsDone

\* An axis comes to rest by itself.
LEMMA SettlesStep ==
    ASSUME NetIInv, NEW a \in Net!NetAxes, Net!Settles(a)
    PROVE  NetIInv'
<1>1. /\ motor[a].does # "still" /\ motor' = [motor EXCEPT ![a].does = "still", ![a].ran = TRUE]
      /\ claim' = [claim EXCEPT !.kept = claim.kept \ (Net!Coming \cap {a})] /\ ncall' = ncall
      /\ motor \in [Net!NetAxes -> Motors] /\ CallIs(ncall) /\ ClaimIs(claim)
  BY DEF Net!Settles, NetIInv, NetTypes
<1>2. /\ motor' \in [Net!NetAxes -> Motors] /\ motor'[a].does = "still"
      /\ \A b \in Net!NetAxes \ {a} : motor'[b] = motor[b]
  <2>1. [motor[a] EXCEPT !.does = "still", !.ran = TRUE] \in Motors
    BY <1>1 DEF Motors
  <2>2. motor' = [motor EXCEPT ![a] = [motor[a] EXCEPT !.does = "still", !.ran = TRUE]]
    BY <1>1
  <2>3. [motor[a] EXCEPT !.does = "still", !.ran = TRUE].does = "still"
    BY <1>1 DEF Motors
  <2> QED  BY <1>1, <2>1, <2>2, <2>3
<1>3. /\ ClaimIs(claim') /\ claim'.op = claim.op /\ claim'.wanted = claim.wanted /\ claim'.begun = claim.begun
      /\ claim'.blurred = claim.blurred /\ claim'.coasted = claim.coasted
      /\ claim'.kept = claim.kept \ (AxesOf(ncall.todo) \cap {a})
  BY <1>1 DEF ClaimIs, Net!Coming, AxesOf
<1>4. NetTypes'
  BY <1>1, <1>2, <1>3 DEF NetTypes
<1>5. StopsAxes(motor', ncall', claim')
  <2>1. StopsAxes(motor, ncall, claim)
    BY DEF NetIInv
  <2> QED  BY <1>1, <1>2, <1>3, <2>1 DEF StopsAxes
<1>6. StartsAxes(motor', ncall', claim')
  <2>1. StartsAxes(motor, ncall, claim)
    BY DEF NetIInv
  <2>2. ncall.todo # <<>> => Head(ncall.todo).axis \in Net!NetAxes
    <3>1. ncall.todo # <<>> => Head(ncall.todo) \in NetItems
      BY <1>1, LeftOfTail DEF CallIs
    <3> QED  BY <3>1 DEF NetItems
  <2>3. ASSUME ncall.todo # <<>>, motor[Head(ncall.todo).axis].does = "still"
        PROVE  motor'[Head(ncall.todo).axis] = motor[Head(ncall.todo).axis]
    BY <1>1, <1>2, <2>2, <2>3
  <2> QED  BY <1>1, <1>3, <2>1, <2>3 DEF StartsAxes
<1>7. TurnsAxes(motor', ncall', claim')
  <2>1. TurnsAxes(motor, ncall, claim)
    BY DEF NetIInv
  <2>2. AxesOf(ncall.todo) \subseteq Net!NetAxes
    <3>1. \A i \in 1 .. Len(ncall.todo) : ncall.todo[i] \in NetItems
      BY <1>1 DEF CallIs
    <3> QED  BY <3>1 DEF AxesOf, NetItems
  <2>3. \A b \in AxesOf(ncall.todo) : motor'[b].does # "still" => b # a /\ motor[b].does # "still"
    BY <1>2, <2>2
  <2>4. SUFFICES ASSUME ncall.op = "manual", ~ncall.bad, ~claim.blurred
                 PROVE  TurnsAxes(motor', ncall', claim')
    BY <1>1, <1>3 DEF TurnsAxes
  <2>5. /\ \A x \in LeftOf(ncall.todo) : x.r \in {"stop", "turn"} /\ (x.axis \in claim.wanted => x.r = "turn")
        /\ \A b \in claim.wanted \ AxesOf(ncall.todo) : b \in claim.begun \cup claim.kept
        /\ \A b \in AxesOf(ncall.todo) : motor[b].does # "still" => b \in claim.begun \cup claim.kept
    BY <2>1, <2>4 DEF TurnsAxes
  <2>6. \A b \in claim.wanted \ AxesOf(ncall.todo) : b \in claim'.begun \cup claim'.kept
    BY <1>3, <2>5
  <2>7. \A b \in AxesOf(ncall.todo) : motor'[b].does # "still" => b \in claim'.begun \cup claim'.kept
    BY <1>3, <2>3, <2>5
  <2> QED  BY <1>1, <1>3, <2>5, <2>6, <2>7 DEF TurnsAxes
<1>8. Net!DoneIsDone'
  <2>1. CASE claim.op = "none"
    BY <1>3, <2>1 DEF Net!DoneIsDone
  <2>2. CASE claim.op # "none"
    <3>1. ncall.todo = <<>>
      BY <2>2 DEF NetIInv, Net!NoNetCall
    <3>2. claim'.kept = claim.kept
      BY <1>3, <3>1, LeftOfOne
    <3>3. (\A b \in Net!NetAxes : motor[b].does = "still") => \A b \in Net!NetAxes : motor'[b].does = "still"
      BY <1>2
    <3>4. Net!DoneIsDone
      BY DEF NetIInv
    <3> QED  BY <1>3, <3>2, <3>3, <3>4 DEF Net!DoneIsDone
  <2> QED  BY <2>1, <2>2
<1>9. (claim'.op # "none" => ncall'.op = "none") /\ (ncall'.op = "none" => ncall' = Net!NoNetCall)
  BY <1>1, <1>3 DEF NetIInv
<1> QED  BY <1>4, <1>5, <1>6, <1>7, <1>8, <1>9 DEF NetIInv

\* A call begins with the first exchange of its first routine, and nothing is claimed.
LEMMA BegunIs ==
    ASSUME NetIInv, NEW op \in NetOps \ {"none"}, NEW todo \in Seq(NetItems), NEW as, Net!Begin(op, todo, as)
    PROVE  /\ NetTypes' /\ ncall'.op = op /\ ncall'.todo = todo /\ ncall'.at = 1 /\ ncall'.bad = FALSE
           /\ claim'.op = "none" /\ claim'.wanted = as /\ claim'.begun = {}
           /\ claim'.kept = {a \in Net!NetAxes : motor[a].does # "still"} /\ motor' = motor
<1>1. /\ ncall' = [Net!NoNetCall EXCEPT !.op = op, !.todo = todo] /\ motor' = motor
      /\ claim' = [Net!NoClaim EXCEPT !.wanted = as, !.kept = {a \in Net!NetAxes : motor[a].does # "still"}]
  BY DEF Net!Begin, Net!Moving
<1>2. /\ DOMAIN ncall' = {"op", "todo", "at", "bad", "moved"} /\ ncall'.op = op /\ ncall'.todo = todo /\ ncall'.at = 1
      /\ ncall'.bad = FALSE
  BY <1>1 DEF Net!NoNetCall
<1>3. /\ DOMAIN claim' = {"op", "wanted", "begun", "kept", "blurred", "coasted"} /\ claim'.op = "none"
      /\ claim'.wanted = as /\ claim'.begun = {} /\ claim'.blurred = FALSE /\ claim'.coasted = FALSE
      /\ claim'.kept = {a \in Net!NetAxes : motor[a].does # "still"}
  BY <1>1 DEF Net!NoClaim
<1>4. todo # <<>> => 1 \in 1 .. Len(Net!Exchanges(Head(todo).r))
  BY LeftOfTail, AtFirst
<1>5. CallIs(ncall') /\ ClaimIs(claim')
  BY <1>2, <1>3, <1>4 DEF CallIs, ClaimIs
<1> QED  BY <1>1, <1>2, <1>3, <1>5 DEF NetIInv, NetTypes

\* A call that is neither a stop, a GOTO nor a manual slew.
LEMMA OtherBegins ==
    ASSUME NetIInv, NEW op \in {"unpark", "track", "untrack"}, NEW todo \in Seq(NetItems), Net!Begin(op, todo, {})
    PROVE  NetIInv'
<1>1. op \in NetOps \ {"none"}
  BY DEF NetOps
<1>2. NetTypes' /\ ncall'.op = op /\ claim'.op = "none"
  BY <1>1, BegunIs
<1> QED  BY <1>2 DEF NetIInv, StopsAxes, StartsAxes, TurnsAxes, Net!DoneIsDone

\* The routine of both axes.
LEMMA BothAre ==
    ASSUME NEW r \in NetRoutines
    PROVE  /\ Net!Both(r) \in Seq(NetItems) /\ AxesOf(Net!Both(r)) = Net!NetAxes
           /\ \A x \in LeftOf(Net!Both(r)) : x.r = r
<1> DEFINE x == Net!R(r, 1)
           y == Net!R(r, 2)
           s == Net!Both(r)
<1>1. x \in NetItems /\ y \in NetItems /\ x.r = r /\ y.r = r /\ x.axis = 1 /\ y.axis = 2
  BY DEF Net!R, NetItems, Net!NetAxes
<1>2. s = <<x, y>>
  BY DEF Net!Both
<1> HIDE DEF x, y, s
<1>3. s \in Seq(NetItems) /\ Len(s) = 2 /\ s[1] = x /\ s[2] = y
  BY <1>1, <1>2
<1>4. AxesOf(s) = {1, 2} /\ LeftOf(s) = {x, y}
  BY <1>1, <1>3 DEF AxesOf, LeftOf
<1> QED  BY <1>1, <1>3, <1>4 DEF s, Net!NetAxes

\* A stop begins with both axes to be stopped.
LEMMA StopBegins ==
    ASSUME NetIInv, NEW op \in {"abort", "halt"}, Net!Begin(op, Net!Both("stop"), {})
    PROVE  NetIInv'
<1> DEFINE todo == Net!Both("stop")
<1>1. op \in NetOps \ {"none"}
  BY DEF NetOps
<1>2. todo \in Seq(NetItems) /\ AxesOf(todo) = Net!NetAxes /\ \A x \in LeftOf(todo) : x.r = "stop"
  BY BothAre DEF NetRoutines
<1> HIDE DEF todo
<1>3. NetTypes' /\ ncall'.op = op /\ ncall'.todo = todo /\ claim'.op = "none"
  BY <1>1, <1>2, BegunIs DEF todo
<1>4. StopsAxes(motor', ncall', claim')
  BY <1>2, <1>3 DEF StopsAxes
<1> QED  BY <1>3, <1>4 DEF NetIInv, StartsAxes, TurnsAxes, Net!DoneIsDone

\* A GOTO is to be started on the axes that are not where they should be.
LEMMA NeededIs ==
    ASSUME NEW as, NEW a \in Net!NetAxes
    PROVE  /\ Net!Needed("goto", a, as) \in Seq(NetItems)
           /\ \A x \in LeftOf(Net!Needed("goto", a, as)) : x.r = "goto"
           /\ a \in as => \E x \in LeftOf(Net!Needed("goto", a, as)) : x.r = "goto" /\ x.axis = a
<1> DEFINE x == Net!R("goto", a)
<1>1. x \in NetItems /\ x.r = "goto" /\ x.axis = a
  BY DEF Net!R, NetItems, NetRoutines
<1>2. Net!Needed("goto", a, as) = IF a \in as THEN <<x>> ELSE <<>>
  BY DEF Net!Needed
<1> HIDE DEF x
<1>3. CASE a \in as
  BY <1>1, <1>2, <1>3, LeftOfOne, ZenonT(90)
<1>4. CASE a \notin as
  BY <1>2, <1>4, LeftOfOne
<1> QED  BY <1>3, <1>4

\* A GOTO begins with a look at both axes.
LEMMA GotoBegins ==
    ASSUME NetIInv, NEW op \in {"slew", "park"}, NEW as \in SUBSET Net!NetAxes,
           Net!Begin(op, Net!Both("look") \o Net!Needed("goto", 1, as) \o Net!Needed("goto", 2, as), as)
    PROVE  NetIInv'
<1> DEFINE look == Net!Both("look")
           one == Net!Needed("goto", 1, as)
           two == Net!Needed("goto", 2, as)
           todo == look \o one \o two
<1>1. op \in NetOps \ {"none"}
  BY DEF NetOps
<1>2. look \in Seq(NetItems) /\ \A x \in LeftOf(look) : x.r = "look"
  BY BothAre DEF NetRoutines
<1>3. one \in Seq(NetItems) /\ (\A x \in LeftOf(one) : x.r = "goto") /\ (1 \in as => \E x \in LeftOf(one) : x.r = "goto" /\ x.axis = 1)
  BY NeededIs DEF Net!NetAxes
<1>4. two \in Seq(NetItems) /\ (\A x \in LeftOf(two) : x.r = "goto") /\ (2 \in as => \E x \in LeftOf(two) : x.r = "goto" /\ x.axis = 2)
  BY NeededIs DEF Net!NetAxes
<1>5. todo = (look \o one) \o two /\ Net!Begin(op, todo, as)
  OBVIOUS
<1> HIDE DEF look, one, two, todo
<1>6. look \o one \in Seq(NetItems) /\ LeftOf(look \o one) = LeftOf(look) \cup LeftOf(one)
  BY <1>2, <1>3, LeftOfBoth
<1>7. todo \in Seq(NetItems) /\ LeftOf(todo) = LeftOf(look) \cup LeftOf(one) \cup LeftOf(two)
  BY <1>4, <1>5, <1>6, LeftOfBoth
<1>8. /\ NetTypes' /\ ncall'.op = op /\ ncall'.todo = todo /\ ncall'.at = 1 /\ claim'.op = "none"
      /\ claim'.wanted = as
  BY <1>1, <1>5, <1>7, BegunIs
<1>9. (\A x \in LeftOf(todo) : x.r \in {"look", "goto"}) /\ \A a \in as : \E x \in LeftOf(todo) : x.r = "goto" /\ x.axis = a
  BY <1>2, <1>3, <1>4, <1>7 DEF Net!NetAxes
<1>10. StartsAxes(motor', ncall', claim')
  <2>1. ~(1 >= 2)
    OBVIOUS
  <2> QED  BY <1>8, <1>9, <2>1 DEF StartsAxes
<1> QED  BY <1>8, <1>10 DEF NetIInv, StopsAxes, TurnsAxes, Net!DoneIsDone

\* What a manual slew sends to an axis.
LEMMA TurnedIs ==
    ASSUME NEW keys \in [Net!NetAxes -> Keys], NEW a \in Net!NetAxes
    PROVE  /\ Net!Turned(keys, a) \in Seq(NetItems)
           /\ \A x \in LeftOf(Net!Turned(keys, a)) : x.axis = a /\ x.r \in {"stop", "turn"} /\ (keys[a] # 0 => x.r = "turn")
           /\ keys[a] \notin {0, memory.manual[a]} => \E x \in LeftOf(Net!Turned(keys, a)) : x.axis = a
<1> DEFINE x == Net!R("stop", a)
           y == [r |-> "turn", axis |-> a, key |-> keys[a]]
<1>1. x \in NetItems /\ x.r = "stop" /\ x.axis = a
  BY DEF Net!R, NetItems, NetRoutines
<1>2. y \in NetItems /\ y.r = "turn" /\ y.axis = a
  BY DEF NetItems, NetRoutines
<1>3. Net!Turned(keys, a) = IF keys[a] = memory.manual[a] THEN <<>> ELSE IF keys[a] = 0 THEN <<x>> ELSE <<y>>
  BY DEF Net!Turned
<1> HIDE DEF x, y
<1>4. CASE keys[a] = memory.manual[a]
  BY <1>3, <1>4, LeftOfOne
<1>5. CASE keys[a] # memory.manual[a] /\ keys[a] = 0
  BY <1>1, <1>3, <1>5, LeftOfOne
<1>6. CASE keys[a] # memory.manual[a] /\ keys[a] # 0
  BY <1>2, <1>3, <1>6, LeftOfOne
<1> QED  BY <1>4, <1>5, <1>6

\* A manual slew begins: what moves has not been stopped.
LEMMA ManualBegins ==
    ASSUME NetIInv, NEW keys \in [Net!NetAxes -> Keys],
           Net!Begin("manual", Net!Turned(keys, 1) \o Net!Turned(keys, 2),
                     {a \in Net!NetAxes : keys[a] \notin {0, memory.manual[a]}})
    PROVE  NetIInv'
<1> DEFINE one == Net!Turned(keys, 1)
           two == Net!Turned(keys, 2)
           todo == one \o two
           as == {a \in Net!NetAxes : keys[a] \notin {0, memory.manual[a]}}
<1>1. "manual" \in NetOps \ {"none"}
  BY DEF NetOps
<1>2. /\ one \in Seq(NetItems) /\ two \in Seq(NetItems)
      /\ \A x \in LeftOf(one) : x.axis = 1 /\ x.r \in {"stop", "turn"} /\ (keys[1] # 0 => x.r = "turn")
      /\ \A x \in LeftOf(two) : x.axis = 2 /\ x.r \in {"stop", "turn"} /\ (keys[2] # 0 => x.r = "turn")
      /\ 1 \in as => \E x \in LeftOf(one) : x.axis = 1
      /\ 2 \in as => \E x \in LeftOf(two) : x.axis = 2
  <2>1. 1 \in Net!NetAxes /\ 2 \in Net!NetAxes
    BY DEF Net!NetAxes
  <2> QED  BY <2>1, TurnedIs
<1>3. as \subseteq {1, 2} /\ (1 \in as => keys[1] # 0) /\ (2 \in as => keys[2] # 0) /\ Net!Begin("manual", todo, as)
  BY DEF Net!NetAxes
<1> HIDE DEF one, two, todo, as
<1>4. todo \in Seq(NetItems) /\ LeftOf(todo) = LeftOf(one) \cup LeftOf(two)
  BY <1>2, LeftOfBoth DEF todo
<1>5. /\ NetTypes' /\ ncall'.op = "manual" /\ ncall'.todo = todo /\ claim'.op = "none" /\ claim'.wanted = as
      /\ claim'.kept = {a \in Net!NetAxes : motor[a].does # "still"} /\ motor' = motor
  BY <1>1, <1>3, <1>4, BegunIs
<1>6. \A x \in LeftOf(todo) : x.r \in {"stop", "turn"} /\ (x.axis \in as => x.r = "turn") /\ x.axis \in Net!NetAxes
  BY <1>2, <1>3, <1>4 DEF Net!NetAxes
<1>7. AxesOf(todo) \subseteq Net!NetAxes /\ as \subseteq AxesOf(todo)
  <2>1. \A a : a \in AxesOf(todo) <=> \E x \in LeftOf(todo) : x.axis = a
    BY AxesAre
  <2>2. AxesOf(todo) \subseteq Net!NetAxes
    BY <1>6, <2>1
  <2>3. (1 \in as => 1 \in AxesOf(todo)) /\ (2 \in as => 2 \in AxesOf(todo))
    BY <1>2, <1>4, <2>1
  <2> QED  BY <1>3, <2>2, <2>3
<1>8. TurnsAxes(motor', ncall', claim')
  BY <1>5, <1>6, <1>7 DEF TurnsAxes
<1> QED  BY <1>5, <1>8 DEF NetIInv, StopsAxes, StartsAxes, Net!DoneIsDone

\* A call begins.
LEMMA NetCallStep ==
    ASSUME NetIInv,
           \/ Net!SlewTo \/ Net!Park \/ Net!Unpark \/ Net!AbortMotion \/ Net!Track \/ Net!Untrack \/ Net!ManualSlew
    PROVE  NetIInv'
<1>1. CASE Net!SlewTo
  BY <1>1, GotoBegins DEF Net!SlewTo
<1>2. CASE Net!Park
  BY <1>2, GotoBegins DEF Net!Park
<1>3. CASE Net!Unpark
  BY <1>3, OtherBegins, LeftOfOne DEF Net!Unpark
<1>4. CASE Net!AbortMotion
  BY <1>4, StopBegins DEF Net!AbortMotion
<1>5. Net!R("track", 1) \in NetItems /\ Net!R("off", 1) \in NetItems
  BY DEF Net!R, NetItems, NetRoutines, Net!NetAxes
<1>6. <<Net!R("track", 1)>> \in Seq(NetItems) /\ <<Net!R("off", 1)>> \in Seq(NetItems)
  BY <1>5, LeftOfOne
<1>7. CASE Net!Track
  BY <1>6, <1>7, OtherBegins DEF Net!Track
<1>8. CASE Net!Untrack
  BY <1>6, <1>8, OtherBegins DEF Net!Untrack
<1>9. CASE Net!ManualSlew
  <2>1. PICK keys \in [Net!NetAxes -> Keys] :
          IF \A a \in Net!NetAxes : keys[a] = 0 THEN Net!Begin("halt", Net!Both("stop"), {})
          ELSE Net!Begin("manual", Net!Turned(keys, 1) \o Net!Turned(keys, 2),
                         {a \in Net!NetAxes : keys[a] \notin {0, memory.manual[a]}})
    BY <1>9 DEF Net!ManualSlew
  <2> QED  BY <2>1, StopBegins, ManualBegins
<1> QED  BY <1>1, <1>2, <1>3, <1>4, <1>7, <1>8, <1>9

\* A new connection claims nothing.
LEMMA ConnectStep ==
    ASSUME NetIInv, Net!Connect
    PROVE  NetIInv'
<1>1. ncall' = ncall /\ motor' = motor /\ claim' = Net!NoClaim /\ ncall.op = "none"
  BY DEF Net!Connect, Net!NoNetCall
<1>2. ClaimIs(claim') /\ claim'.op = "none"
  BY <1>1 DEF ClaimIs, Net!NoClaim
<1> QED  BY <1>1, <1>2 DEF NetIInv, NetTypes, StopsAxes, StartsAxes, TurnsAxes, Net!DoneIsDone

\* A call returns: what it reports is what the invariant says of a call with nothing left.
LEMMA NetReturnStep ==
    ASSUME NetIInv, Net!Return
    PROVE  NetIInv'
<1>1. /\ ncall.todo = <<>> /\ ncall' = Net!NoNetCall
      /\ claim' = IF ncall.bad THEN Net!NoClaim ELSE [claim EXCEPT !.op = ncall.op]
      /\ motor' = [a \in Net!NetAxes |-> [motor[a] EXCEPT !.ran = FALSE]]
      /\ motor \in [Net!NetAxes -> Motors] /\ CallIs(ncall) /\ ClaimIs(claim)
  BY DEF Net!Return, NetIInv, NetTypes
<1>2. motor' \in [Net!NetAxes -> Motors] /\ \A a \in Net!NetAxes : motor'[a].does = motor[a].does
  BY <1>1 DEF Motors
<1>3. CallIs(ncall') /\ ncall'.op = "none"
  <2>1. /\ DOMAIN ncall' = {"op", "todo", "at", "bad", "moved"} /\ ncall'.op = "none" /\ ncall'.todo = <<>> /\ ncall'.bad = FALSE
    BY <1>1 DEF Net!NoNetCall
  <2> QED  BY <2>1, LeftOfOne DEF CallIs, NetOps
<1>4. CASE ncall.bad
  <2>1. ClaimIs(claim') /\ claim'.op = "none"
    BY <1>1, <1>4 DEF ClaimIs, Net!NoClaim
  <2> QED  BY <1>1, <1>2, <1>3, <2>1 DEF NetIInv, NetTypes, StopsAxes, StartsAxes, TurnsAxes, Net!DoneIsDone
<1>5. CASE ~ncall.bad
  <2>1. /\ ClaimIs(claim') /\ claim'.op = ncall.op /\ claim'.wanted = claim.wanted /\ claim'.begun = claim.begun
        /\ claim'.kept = claim.kept /\ claim'.blurred = claim.blurred /\ claim'.coasted = claim.coasted
    BY <1>1, <1>5 DEF ClaimIs
  <2>2. AxesOf(ncall.todo) = {} /\ LeftOf(ncall.todo) = {}
    BY <1>1, LeftOfOne
  <2>3. ncall.op \in {"abort", "halt"} /\ ~claim.blurred => \A a \in Net!NetAxes : motor'[a].does = "still"
    BY <1>2, <1>5, <2>2 DEF NetIInv, StopsAxes
  <2>4. ncall.op \in {"slew", "park"} /\ ~claim.blurred => claim.wanted \subseteq claim.begun \/ claim.coasted
    BY <1>5, <2>2 DEF NetIInv, StartsAxes
  <2>5. ncall.op = "manual" /\ ~claim.blurred => claim.wanted \subseteq claim.begun \cup claim.kept
    BY <1>5, <2>2 DEF NetIInv, TurnsAxes
  <2>6. Net!DoneIsDone'
    BY <2>1, <2>3, <2>4, <2>5 DEF Net!DoneIsDone
  <2> QED  BY <1>1, <1>2, <1>3, <2>1, <2>6 DEF NetIInv, NetTypes, StopsAxes, StartsAxes, TurnsAxes
<1> QED  BY <1>4, <1>5

\* The network mount's invariant is kept by all the parts.
LEMMA NetStep == NetIInv /\ [Next]_vars => NetIInv'
<1> SUFFICES ASSUME NetIInv, [Next]_vars PROVE NetIInv'
  OBVIOUS
<1>1. CASE NetNext
  BY <1>1, SettlesStep, NetCallStep, ConnectStep, NetExchangeStep, NetReturnStep DEF NetNext, Net!NetNext
<1>2. CASE UNCHANGED synscanVars
  <2>1. UNCHANGED <<motor, ncall, claim>>
    BY <1>2 DEF synscanVars
  <2>2. NetTypes' /\ Net!DoneIsDone'
    BY <2>1 DEF NetIInv, NetTypes, Net!DoneIsDone
  <2> QED  BY <2>1, <2>2 DEF NetIInv
<1> QED  BY <1>1, <1>2 DEF Next, vars, MountNext, TableNext, SessionNext, LoaderNext, CanonNext, SdkNext,
         FocusNext, RecNext, IndiNext, SolveNext, HandNext, VideoNext, LinksNext

\* What a call over UDP reported done was done, whatever is lost or late.
THEOREM ReportedWasDone == Spec => []DoneIsDone
<1>1. Init => NetIInv
  BY NetInitInv DEF Init
<1>2. NetIInv => DoneIsDone
  BY DEF NetIInv, DoneIsDone
<1> QED  BY <1>1, <1>2, NetStep, PTL DEF Spec
=============================================================================
