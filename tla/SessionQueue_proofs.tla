-------------------------- MODULE SessionQueue_proofs --------------------------
(***************************************************************************)
(* What the operators of SessionExecutor do to the queue of operations:    *)
(* Granted and Without are recursive functions over the queue.  Both facts *)
(* that an induction would give are taken from the least position at which *)
(* they would fail: every non-empty set of naturals has a least element.   *)
(***************************************************************************)
EXTENDS SessionExecutor, WellFoundedInduction, FiniteSetTheorems, SequenceTheorems, TLAPS

\* Every non-empty set of naturals has a least element.
LEMMA LeastNatural ==
    ASSUME NEW T, T \subseteq Nat, T # {}
    PROVE  \E x \in T : \A y \in T : x <= y
<1> DEFINE R == {ss \in Nat \X Nat : ss[1] < ss[2]}
<1>1. IsWellFoundedOn(R, Nat)
  BY NatLessThanWellFounded DEF OpToRel
<1>2. \A x, y \in Nat : <<y, x>> \in R <=> y < x
  OBVIOUS
<1> HIDE DEF R
<1>3. PICK x \in T : \A y \in T : ~(<<y, x>> \in R)
  BY <1>1, WFMin
<1>4. \A y \in T : x <= y
  <2> TAKE y \in T
  <2>1. ~(y < x)
    BY <1>2, <1>3
  <2> QED  BY <2>1
<1> QED  BY <1>4

\* Induction up to n, for a set S of the numbers that have a property.
LEMMA UpTo ==
    ASSUME NEW n \in Nat, NEW S, 0 \in S,
           \A k \in 1 .. n : k - 1 \in S => k \in S
    PROVE  \A k \in 0 .. n : k \in S
<1> DEFINE T == {k \in 0 .. n : k \notin S}
<1> SUFFICES ASSUME T # {} PROVE FALSE
  OBVIOUS
<1>1. T \subseteq Nat
  OBVIOUS
<1>2. PICK x \in T : \A y \in T : x <= y
  <2> HIDE DEF T
  <2> QED  BY <1>1, LeastNatural
<1>3. x # 0 /\ x - 1 \in 0 .. n /\ x \in 1 .. n
  OBVIOUS
<1>4. x - 1 \in S
  BY <1>2, <1>3
<1> QED  BY <1>3, <1>4

\* A function may be defined from each value to the next.
IsRecursion(g, first, step, n) ==
    g[0] = first /\ \A k \in 1 .. n : g[k] = step[<<g[k - 1], k>>]

\* A function of 0..n given by its first value and its step exists: the one place
\* where an induction over data is needed, done by the least failing number.
LEMMA Recursion ==
    ASSUME NEW n \in Nat, NEW X, NEW first \in X, NEW step \in [X \X Nat -> X]
    PROVE  \E g \in [0 .. n -> X] : IsRecursion(g, first, step, n)
<1> DEFINE IsRec(g, m) == IsRecursion(g, first, step, m)
           S == {m \in Nat : \E g \in [0 .. m -> X] : IsRec(g, m)}
<1> USE DEF IsRecursion
<1>1. 0 \in S
  <2>1. [i \in 0 .. 0 |-> first] \in [0 .. 0 -> X] /\ IsRec([i \in 0 .. 0 |-> first], 0)
    OBVIOUS
  <2> QED  BY <2>1
<1>2. ASSUME NEW k \in 1 .. n, k - 1 \in S PROVE k \in S
  <2>1. PICK g \in [0 .. k - 1 -> X] : IsRec(g, k - 1)
    BY <1>2
  <2> DEFINE h == [i \in 0 .. k |-> IF i = k THEN step[<<g[k - 1], k>>] ELSE g[i]]
  <2>2. h \in [0 .. k -> X]
    OBVIOUS
  <2>3. IsRec(h, k)
    <3>1. h[0] = first
      BY <2>1
    <3>2. ASSUME NEW i \in 1 .. k PROVE h[i] = step[<<h[i - 1], i>>]
      <4>1. CASE i = k
        <5>1. h[k] = step[<<g[k - 1], k>>] /\ h[k - 1] = g[k - 1]
          BY k \in Nat
        <5> QED  BY <4>1, <5>1
      <4>2. CASE i # k
        <5>1. i \in 1 .. k - 1 /\ i - 1 \in 0 .. k - 1
          BY <4>2
        <5>2. h[i] = g[i] /\ h[i - 1] = g[i - 1]
          BY <5>1
        <5> QED  BY <2>1, <5>1, <5>2
      <4> QED  BY <4>1, <4>2
    <3> QED  BY <3>1, <3>2
  <2>4. k \in Nat
    OBVIOUS
  <2> HIDE DEF h, IsRec
  <2> QED  BY <2>2, <2>3, <2>4
<1>3. n \in S
  <2> HIDE DEF S
  <2> QED  BY <1>1, <1>2, UpTo
<1> QED  BY <1>3

OpRecord == [id : OpIds, kind : SlewKinds \cup CameraKinds \cup {"live-view"},
             target : Targets \cup {NoTarget}, st : {"queued", "running"}, cancel : BOOLEAN]

\* What TryStart grants, one position after the other.
LEMMA GrantedSteps ==
    ASSUME NEW q \in Seq(OpRecord)
    PROVE  \E g \in [0 .. Len(q) -> SUBSET (1 .. Len(q))] :
              /\ g[0] = Running(q) /\ Granted(q) = g[Len(q)]
              /\ \A k \in 1 .. Len(q) :
                    g[k] = IF \A j \in g[k - 1] : Resources(q[j]) \cap Resources(q[k]) = {}
                           THEN g[k - 1] \cup {k} ELSE g[k - 1]
<1> DEFINE N == Len(q)
           X == SUBSET (1 .. N)
           Next1(G, k) == IF \A j \in G : Resources(q[j]) \cap Resources(q[k]) = {}
                         THEN G \cup {k} ELSE G
           step == [p \in X \X Nat |-> IF p[2] \in 1 .. N THEN Next1(p[1], p[2]) ELSE p[1]]
<1>1. N \in Nat /\ Running(q) \in X
  BY DEF Running
<1>2. step \in [X \X Nat -> X]
  OBVIOUS
<1>3. PICK g \in [0 .. N -> X] : IsRecursion(g, Running(q), step, N)
  <2> HIDE DEF X, step, N
  <2> QED  BY <1>1, <1>2, Recursion
<1>4. ASSUME NEW k \in 1 .. N PROVE g[k] = Next1(g[k - 1], k)
  <2>1. g[k - 1] \in X /\ k \in Nat
    BY <1>1, <1>3
  <2>2. step[<<g[k - 1], k>>] = Next1(g[k - 1], k)
    BY <2>1
  <2> QED  BY <1>3, <2>2 DEF IsRecursion
<1>5. g = [k \in 0 .. Len(q) |->
             IF k = 0 THEN Running(q)
             ELSE IF \A j \in g[k - 1] : Resources(q[j]) \cap Resources(q[k]) = {}
                  THEN g[k - 1] \cup {k} ELSE g[k - 1]]
  BY <1>1, <1>3, <1>4 DEF IsRecursion
<1> DEFINE G == CHOOSE h : h = [k \in 0 .. Len(q) |->
             IF k = 0 THEN Running(q)
             ELSE IF \A j \in h[k - 1] : Resources(q[j]) \cap Resources(q[k]) = {}
                  THEN h[k - 1] \cup {k} ELSE h[k - 1]]
<1>6. G = [k \in 0 .. Len(q) |->
             IF k = 0 THEN Running(q)
             ELSE IF \A j \in G[k - 1] : Resources(q[j]) \cap Resources(q[k]) = {}
                  THEN G[k - 1] \cup {k} ELSE G[k - 1]]
  BY <1>5
<1>7. Granted(q) = G[Len(q)]
  BY DEF Granted
<1> HIDE DEF G
<1> DEFINE S == {k \in 0 .. N : G[k] = g[k]}
<1>8. 0 \in S
  BY <1>1, <1>5, <1>6
<1>9. ASSUME NEW k \in 1 .. N, k - 1 \in S PROVE k \in S
  <2>1. G[k - 1] = g[k - 1] /\ k \in 0 .. N /\ k # 0
    BY <1>1, <1>9
  <2>2. G[k] = Next1(G[k - 1], k)
    BY <1>6, <2>1
  <2> QED  BY <2>1, <2>2, <1>4
<1>10. Granted(q) = g[N]
  <2> HIDE DEF S
  <2>1. N \in S
    <3> HIDE DEF N
    <3>1. \A k \in 0 .. N : k \in S
      BY <1>1, <1>8, <1>9, UpTo
    <3> QED  BY <1>1, <3>1
  <2> QED  BY <2>1, <1>7 DEF S
<1> QED  BY <1>1, <1>3, <1>4, <1>10 DEF IsRecursion

\* No two running operations hold the same resource.
ExclusiveIn(q) ==
    \A j, k \in Running(q) : j # k => Resources(q[j]) \cap Resources(q[k]) = {}

\* The resources of an operation follow from its kind and target.
LEMMA SameResources ==
    ASSUME NEW o, NEW p, o.kind = p.kind, o.target = p.target
    PROVE  Resources(o) = Resources(p)
BY DEF Resources

\* What is granted includes what runs, and holds no resource twice.
LEMMA GrantedIsExclusive ==
    ASSUME NEW q \in Seq(OpRecord)
    PROVE  /\ Granted(q) \subseteq 1 .. Len(q) /\ Running(q) \subseteq Granted(q)
           /\ ExclusiveIn(q) =>
                 \A i, j \in Granted(q) : i # j => Resources(q[i]) \cap Resources(q[j]) = {}
<1>1. PICK g \in [0 .. Len(q) -> SUBSET (1 .. Len(q))] :
              /\ g[0] = Running(q) /\ Granted(q) = g[Len(q)]
              /\ \A k \in 1 .. Len(q) :
                    g[k] = IF \A j \in g[k - 1] : Resources(q[j]) \cap Resources(q[k]) = {}
                           THEN g[k - 1] \cup {k} ELSE g[k - 1]
  BY GrantedSteps
<1> DEFINE Apart(G) == \A i, j \in G : i # j => Resources(q[i]) \cap Resources(q[j]) = {}
           S == {k \in 0 .. Len(q) : Running(q) \subseteq g[k] /\ (ExclusiveIn(q) => Apart(g[k]))}
<1>2. Len(q) \in Nat
  OBVIOUS
<1>3. 0 \in S
  BY <1>1, <1>2 DEF ExclusiveIn
<1>4. ASSUME NEW k \in 1 .. Len(q), k - 1 \in S PROVE k \in S
  <2>1. k \in 0 .. Len(q) /\ Running(q) \subseteq g[k - 1] /\ (ExclusiveIn(q) => Apart(g[k - 1]))
    BY <1>2, <1>4
  <2>2. CASE \A j \in g[k - 1] : Resources(q[j]) \cap Resources(q[k]) = {}
    <3>1. g[k] = g[k - 1] \cup {k}
      BY <1>1, <2>2
    <3>2. Apart(g[k - 1]) => Apart(g[k])
      BY <2>2, <3>1
    <3> QED  BY <2>1, <3>1, <3>2
  <2>3. CASE ~(\A j \in g[k - 1] : Resources(q[j]) \cap Resources(q[k]) = {})
    <3>1. g[k] = g[k - 1]
      BY <1>1, <2>3
    <3> QED  BY <2>1, <3>1
  <2> QED  BY <2>2, <2>3
<1>5. Len(q) \in S
  <2> HIDE DEF S
  <2>1. \A k \in 0 .. Len(q) : k \in S
    BY <1>2, <1>3, <1>4, UpTo
  <2> QED  BY <1>2, <2>1
<1> QED  BY <1>1, <1>2, <1>5

\* The operations keep their places and all but their state.
SameOp(o, p) == o.id = p.id /\ o.kind = p.kind /\ o.target = p.target /\ o.cancel = p.cancel

\* tryStartQueued() drops, adds and renames nothing, stops nothing that runs, and
\* starts no operation over a resource that is held.
LEMMA TryStartIs ==
    ASSUME NEW q \in Seq(OpRecord)
    PROVE  /\ TryStart(q) \in Seq(OpRecord) /\ Len(TryStart(q)) = Len(q)
           /\ \A k \in 1 .. Len(q) :
                 /\ SameOp(TryStart(q)[k], q[k])
                 /\ q[k].st = "running" => TryStart(q)[k].st = "running"
           /\ ExclusiveIn(q) => ExclusiveIn(TryStart(q))
<1> DEFINE r == TryStart(q)
<1>1. Len(q) \in Nat /\ DOMAIN q = 1 .. Len(q) /\ \A k \in 1 .. Len(q) : q[k] \in OpRecord
  OBVIOUS
<1>2. r = [k \in 1 .. Len(q) |-> IF k \in Granted(q) THEN [q[k] EXCEPT !.st = "running"] ELSE q[k]]
  BY <1>1 DEF TryStart
<1> HIDE DEF r
<1>3. ASSUME NEW k \in 1 .. Len(q)
      PROVE  /\ r[k] \in OpRecord /\ SameOp(r[k], q[k])
             /\ q[k].st = "running" => r[k].st = "running"
             /\ r[k].st = "running" => k \in Granted(q)
  <2>1. q[k] \in OpRecord
    BY <1>1
  <2>2. [q[k] EXCEPT !.st = "running"] \in OpRecord
    BY <2>1 DEF OpRecord
  <2>3. SameOp([q[k] EXCEPT !.st = "running"], q[k]) /\ [q[k] EXCEPT !.st = "running"].st = "running"
    BY <2>1 DEF OpRecord, SameOp
  <2>4. q[k].st = "running" => k \in Granted(q)
    BY <1>1, GrantedIsExclusive DEF Running
  <2>5. CASE k \in Granted(q)
    BY <1>2, <2>2, <2>3, <2>5
  <2>6. CASE k \notin Granted(q)
    BY <1>2, <2>1, <2>4, <2>6 DEF SameOp
  <2> QED  BY <2>5, <2>6
<1>4. r \in Seq(OpRecord) /\ Len(r) = Len(q) /\ DOMAIN r = 1 .. Len(q)
  BY <1>1, <1>2, <1>3
<1>5. ASSUME ExclusiveIn(q), NEW i \in Running(r), NEW j \in Running(r), i # j
      PROVE  Resources(r[i]) \cap Resources(r[j]) = {}
  <2>1. i \in 1 .. Len(q) /\ j \in 1 .. Len(q) /\ r[i].st = "running" /\ r[j].st = "running"
    BY <1>4 DEF Running
  <2>2. Resources(q[i]) \cap Resources(q[j]) = {}
    BY <1>3, <1>5, <2>1, GrantedIsExclusive
  <2>3. Resources(r[i]) = Resources(q[i]) /\ Resources(r[j]) = Resources(q[j])
    BY <1>3, <2>1, SameResources DEF SameOp
  <2> QED  BY <2>2, <2>3
<1> QED  BY <1>3, <1>4, <1>5 DEF r, ExclusiveIn

\* What Without keeps: each operation of q but those that are gone, once.
LEMMA WithoutSteps ==
    ASSUME NEW q \in Seq(OpRecord), NEW gone
    PROVE  \E g \in [0 .. Len(q) -> Seq(OpRecord)] :
              /\ g[0] = <<>> /\ Without(q, gone) = g[Len(q)]
              /\ \A k \in 1 .. Len(q) :
                    g[k] = IF k \in gone THEN g[k - 1] ELSE Append(g[k - 1], q[k])
<1> DEFINE N == Len(q)
           X == Seq(OpRecord)
           Next1(s, k) == IF k \in gone THEN s ELSE Append(s, q[k])
           step == [p \in X \X Nat |-> IF p[2] \in 1 .. N THEN Next1(p[1], p[2]) ELSE p[1]]
<1>1. N \in Nat /\ <<>> \in X
  OBVIOUS
<1>2. step \in [X \X Nat -> X]
  OBVIOUS
<1>3. PICK g \in [0 .. N -> X] : IsRecursion(g, <<>>, step, N)
  <2> HIDE DEF X, step, N
  <2> QED  BY <1>1, <1>2, Recursion
<1>4. ASSUME NEW k \in 1 .. N PROVE g[k] = Next1(g[k - 1], k)
  <2>1. g[k - 1] \in X /\ k \in Nat
    <3> HIDE DEF X, N
    <3>1. k - 1 \in 0 .. N /\ k \in Nat
      BY <1>1
    <3> QED  BY <1>3, <3>1
  <2>2. step[<<g[k - 1], k>>] = Next1(g[k - 1], k)
    BY <2>1
  <2> QED  BY <1>3, <2>2 DEF IsRecursion
<1>5. g = [k \in 0 .. Len(q) |->
             IF k = 0 THEN <<>>
             ELSE IF k \in gone THEN g[k - 1] ELSE Append(g[k - 1], q[k])]
  <2>1. g = [k \in 0 .. Len(q) |-> g[k]]
    <3> HIDE DEF X
    <3> QED  BY <1>3
  <2>2. \A k \in 0 .. Len(q) : k = 0 \/ k \in 1 .. N
    BY <1>1
  <2>3. g[0] = <<>>
    BY <1>3 DEF IsRecursion
  <2> QED  BY <1>4, <2>1, <2>2, <2>3
<1> DEFINE G == CHOOSE h : h = [k \in 0 .. Len(q) |->
             IF k = 0 THEN <<>>
             ELSE IF k \in gone THEN h[k - 1] ELSE Append(h[k - 1], q[k])]
<1>6. G = [k \in 0 .. Len(q) |->
             IF k = 0 THEN <<>>
             ELSE IF k \in gone THEN G[k - 1] ELSE Append(G[k - 1], q[k])]
  BY <1>5
<1>7. Without(q, gone) = G[Len(q)]
  BY DEF Without
<1> HIDE DEF G
<1> DEFINE S == {k \in 0 .. N : G[k] = g[k]}
<1>8. 0 \in S
  BY <1>1, <1>5, <1>6
<1>9. ASSUME NEW k \in 1 .. N, k - 1 \in S PROVE k \in S
  <2>1. G[k - 1] = g[k - 1] /\ k \in 0 .. N /\ k # 0
    BY <1>1, <1>9
  <2>2. G[k] = Next1(G[k - 1], k)
    BY <1>6, <2>1
  <2> QED  BY <2>1, <2>2, <1>4
<1>10. Without(q, gone) = g[N]
  <2> HIDE DEF S
  <2>1. N \in S
    <3> HIDE DEF N
    <3>1. \A k \in 0 .. N : k \in S
      BY <1>1, <1>8, <1>9, UpTo
    <3> QED  BY <1>1, <3>1
  <2> QED  BY <2>1, <1>7 DEF S
<1> QED  BY <1>1, <1>3, <1>4, <1>10 DEF IsRecursion

\* r is what is left of the first n operations of q: `at' says where each was.
IsLeft(r, q, gone, n, at) ==
    /\ r \in Seq(OpRecord) /\ at \in [1 .. Len(r) -> (1 .. n) \ gone]
    /\ \A i \in 1 .. Len(r) : r[i] = q[at[i]]
    /\ \A i, j \in 1 .. Len(r) : at[i] = at[j] => i = j
    /\ \A k \in (1 .. n) \ gone : \E i \in 1 .. Len(r) : at[i] = k
    /\ Len(r) <= n /\ ((\E k \in 1 .. n : k \in gone) => Len(r) < n)

\* Taking operations away leaves the others, each once and in their order.
LEMMA WithoutIs ==
    ASSUME NEW q \in Seq(OpRecord), NEW gone
    PROVE  \E at : IsLeft(Without(q, gone), q, gone, Len(q), at)
<1>1. PICK g \in [0 .. Len(q) -> Seq(OpRecord)] :
              /\ g[0] = <<>> /\ Without(q, gone) = g[Len(q)]
              /\ \A k \in 1 .. Len(q) :
                    g[k] = IF k \in gone THEN g[k - 1] ELSE Append(g[k - 1], q[k])
  BY WithoutSteps, ZenonT(60)
<1> DEFINE S == {k \in 0 .. Len(q) : \E at : IsLeft(g[k], q, gone, k, at)}
<1>2. Len(q) \in Nat /\ \A k \in 1 .. Len(q) : q[k] \in OpRecord
  OBVIOUS
<1>3. 0 \in S
  <2>1. IsLeft(<<>>, q, gone, 0, [i \in 1 .. 0 |-> 0])
    BY DEF IsLeft
  <2> QED  BY <1>1, <1>2, <2>1
<1>4. ASSUME NEW k \in 1 .. Len(q), k - 1 \in S PROVE k \in S
  <2>1. PICK at : IsLeft(g[k - 1], q, gone, k - 1, at)
    BY <1>4
  <2>2. k \in 0 .. Len(q) /\ k \in Nat /\ q[k] \in OpRecord
    BY <1>2
  <2>3. CASE k \in gone
    <3>1. g[k] = g[k - 1]
      BY <1>1, <2>3
    <3>2. (1 .. k) \ gone = (1 .. k - 1) \ gone
      BY <2>2, <2>3
    <3>3. IsLeft(g[k - 1], q, gone, k, at)
      <4> DEFINE s == g[k - 1]
      <4>1. IsLeft(s, q, gone, k - 1, at)
        BY <2>1
      <4> HIDE DEF s
      <4>2. Len(s) \in Nat /\ Len(s) <= k - 1
        BY <4>1 DEF IsLeft
      <4>3. Len(s) < k
        BY <2>2, <4>2
      <4>4. IsLeft(s, q, gone, k, at)
        BY <2>2, <3>2, <4>1, <4>2, <4>3, SMTT(30) DEF IsLeft
      <4> QED  BY <4>4 DEF s
    <3> QED  BY <2>2, <3>1, <3>3
  <2>4. CASE k \notin gone
    <3> DEFINE s == g[k - 1]
               r == Append(s, q[k])
               to == [i \in 1 .. Len(s) + 1 |-> IF i = Len(s) + 1 THEN k ELSE at[i]]
    <3>1. g[k] = r
      BY <1>1, <2>4
    <3>2. s \in Seq(OpRecord) /\ Len(s) \in Nat /\ Len(s) <= k - 1
      BY <2>1 DEF IsLeft
    <3>3. /\ r \in Seq(OpRecord) /\ Len(r) = Len(s) + 1 /\ r[Len(s) + 1] = q[k]
          /\ \A i \in 1 .. Len(s) : r[i] = s[i]
      BY <2>2, <3>2
    <3> HIDE DEF s, r
    <3>4. at \in [1 .. Len(s) -> (1 .. k - 1) \ gone]
      BY <2>1 DEF IsLeft, s
    <3>5. to \in [1 .. Len(r) -> (1 .. k) \ gone]
      BY <2>2, <2>4, <3>2, <3>3, <3>4
    <3>6. \A i \in 1 .. Len(r) : r[i] = q[to[i]]
      <4> TAKE i \in 1 .. Len(r)
      <4>1. CASE i = Len(s) + 1
        BY <3>2, <3>3, <4>1
      <4>2. CASE i # Len(s) + 1
        <5>1. i \in 1 .. Len(s)
          BY <3>2, <3>3, <4>2
        <5> QED  BY <2>1, <3>3, <4>2, <5>1 DEF IsLeft, s
      <4> QED  BY <4>1, <4>2
    <3>7. \A i \in 1 .. Len(s) : to[i] = at[i] /\ at[i] \in 1 .. k - 1 /\ to[i] # k
      <4> TAKE i \in 1 .. Len(s)
      <4>1. i \in 1 .. Len(s) + 1 /\ i # Len(s) + 1
        BY <3>2
      <4>2. to[i] = at[i]
        BY <4>1
      <4>3. at[i] \in 1 .. k - 1
        BY <3>4
      <4> QED  BY <2>2, <4>2, <4>3
    <3>8. \A i, j \in 1 .. Len(r) : to[i] = to[j] => i = j
      <4>1. \A i, j \in 1 .. Len(s) : at[i] = at[j] => i = j
        BY <2>1 DEF IsLeft, s
      <4>2. to[Len(s) + 1] = k
        BY <3>2
      <4>3. \A i \in 1 .. Len(r) : i \in 1 .. Len(s) \/ i = Len(s) + 1
        BY <3>2, <3>3
      <4> HIDE DEF to
      <4> QED  BY <3>7, <4>1, <4>2, <4>3
    <3>9. \A m \in (1 .. k) \ gone : \E i \in 1 .. Len(r) : to[i] = m
      <4> TAKE m \in (1 .. k) \ gone
      <4>1. CASE m = k
        BY <3>2, <3>3, <4>1
      <4>2. CASE m # k
        <5>1. m \in (1 .. k - 1) \ gone
          BY <2>2, <4>2
        <5>2. PICK i \in 1 .. Len(s) : at[i] = m
          BY <2>1, <5>1 DEF IsLeft, s
        <5> QED  BY <3>2, <3>3, <3>7, <5>2
      <4> QED  BY <4>1, <4>2
    <3>10. Len(r) <= k /\ ((\E m \in 1 .. k : m \in gone) => Len(r) < k)
      <4>1. (\E m \in 1 .. k - 1 : m \in gone) => Len(s) < k - 1
        BY <2>1 DEF IsLeft, s
      <4>2. (\E m \in 1 .. k : m \in gone) => \E m \in 1 .. k - 1 : m \in gone
        BY <2>2, <2>4
      <4> QED  BY <2>2, <3>2, <3>3, <4>1, <4>2
    <3>11. IsLeft(r, q, gone, k, to)
      <4> HIDE DEF to
      <4> QED  BY <3>3, <3>5, <3>6, <3>8, <3>9, <3>10 DEF IsLeft
    <3> QED  BY <2>2, <3>1, <3>11
  <2> QED  BY <2>3, <2>4
<1>5. Len(q) \in S
  <2> HIDE DEF S
  <2>1. \A k \in 0 .. Len(q) : k \in S
    BY <1>2, <1>3, <1>4, UpTo
  <2> QED  BY <1>2, <2>1
<1> QED  BY <1>1, <1>5

\* A queue as the manager keeps it: no id twice, nothing cancelled but what runs
\* (a queued operation ends when it is cancelled), no resource held twice.
Proper(q) ==
    /\ \A j, k \in DOMAIN q : q[j].id = q[k].id => j = k
    /\ \A k \in DOMAIN q : q[k].cancel => q[k].st = "running"
    /\ ExclusiveIn(q)

\* o is the operation p, later: asked to end or granted, perhaps, but the same.
Later(o, p) ==
    /\ o.id = p.id /\ o.kind = p.kind /\ o.target = p.target
    /\ p.cancel => o.cancel
    /\ p.st = "running" => o.st = "running"

\* r holds operations of q, and nothing else.
Follows(r, q) ==
    /\ r \in Seq(OpRecord) /\ Len(r) <= Len(q)
    /\ \A i \in DOMAIN r : \E k \in DOMAIN q : Later(r[i], q[k])
    /\ Proper(q) => Proper(r)

\* What Without leaves, when the manager has granted again, follows q.
LEMMA WithoutFollows ==
    ASSUME NEW q \in Seq(OpRecord), NEW gone
    PROVE  LET w == Without(q, gone)
           IN  /\ Follows(w, q)
               /\ \A i \in DOMAIN w : \E k \in DOMAIN q \ gone : w[i] = q[k]
               /\ \A k \in DOMAIN q \ gone : \E i \in DOMAIN w : w[i] = q[k]
               /\ (\E k \in DOMAIN q : k \in gone) => Len(w) < Len(q)
<1> DEFINE w == Without(q, gone)
<1>1. PICK at : IsLeft(w, q, gone, Len(q), at)
  BY WithoutIs
<1> HIDE DEF w
<1>2. /\ w \in Seq(OpRecord) /\ at \in [1 .. Len(w) -> (1 .. Len(q)) \ gone]
      /\ DOMAIN w = 1 .. Len(w) /\ DOMAIN q = 1 .. Len(q)
      /\ \A i \in DOMAIN w : at[i] \in DOMAIN q \ gone /\ w[i] = q[at[i]]
      /\ \A i, j \in DOMAIN w : at[i] = at[j] => i = j
      /\ \A k \in DOMAIN q \ gone : \E i \in DOMAIN w : at[i] = k
      /\ Len(w) <= Len(q) /\ ((\E k \in DOMAIN q : k \in gone) => Len(w) < Len(q))
  <2>1. /\ w \in Seq(OpRecord) /\ at \in [1 .. Len(w) -> (1 .. Len(q)) \ gone]
        /\ DOMAIN w = 1 .. Len(w) /\ DOMAIN q = 1 .. Len(q)
    BY <1>1 DEF IsLeft
  <2>2. /\ \A i \in DOMAIN w : at[i] \in DOMAIN q \ gone /\ w[i] = q[at[i]]
        /\ \A i, j \in DOMAIN w : at[i] = at[j] => i = j
    BY <1>1, <2>1 DEF IsLeft
  <2>3. \A k \in DOMAIN q \ gone : \E i \in DOMAIN w : at[i] = k
    BY <1>1, <2>1 DEF IsLeft
  <2>4. Len(w) <= Len(q) /\ ((\E k \in DOMAIN q : k \in gone) => Len(w) < Len(q))
    BY <1>1, <2>1 DEF IsLeft
  <2> QED  BY <2>1, <2>2, <2>3, <2>4
<1>3. \A i \in DOMAIN w : \E k \in DOMAIN q : Later(w[i], q[k])
  BY <1>2 DEF Later
<1>4. ASSUME Proper(q) PROVE Proper(w)
  <2>1. \A j, k \in DOMAIN w : w[j].id = w[k].id => j = k
    BY <1>2, <1>4 DEF Proper
  <2>2. \A k \in DOMAIN w : w[k].cancel => w[k].st = "running"
    BY <1>2, <1>4 DEF Proper
  <2>3. ExclusiveIn(w)
    <3> SUFFICES ASSUME NEW j \in Running(w), NEW k \in Running(w), j # k
                 PROVE  Resources(w[j]) \cap Resources(w[k]) = {}
      BY DEF ExclusiveIn
    <3>1. at[j] \in Running(q) /\ at[k] \in Running(q) /\ at[j] # at[k]
      BY <1>2 DEF Running
    <3>2. w[j] = q[at[j]] /\ w[k] = q[at[k]]
      BY <1>2 DEF Running
    <3> QED  BY <1>4, <3>1, <3>2 DEF Proper, ExclusiveIn
  <2> QED  BY <2>1, <2>2, <2>3 DEF Proper
<1>5. Follows(w, q)
  BY <1>2, <1>3, <1>4 DEF Follows
<1> QED  BY <1>2, <1>5 DEF w

\* Granting changes no operation but to let it run.
LEMMA TryStartFollows ==
    ASSUME NEW q \in Seq(OpRecord)
    PROVE  /\ Follows(TryStart(q), q) /\ Len(TryStart(q)) = Len(q)
           /\ DOMAIN TryStart(q) = DOMAIN q
           /\ \A k \in DOMAIN q : SameOp(TryStart(q)[k], q[k])
<1> DEFINE r == TryStart(q)
<1>1. /\ r \in Seq(OpRecord) /\ Len(r) = Len(q) /\ DOMAIN r = DOMAIN q /\ DOMAIN q = 1 .. Len(q)
      /\ \A k \in DOMAIN q : /\ SameOp(r[k], q[k])
                             /\ q[k].st = "running" => r[k].st = "running"
      /\ ExclusiveIn(q) => ExclusiveIn(r)
  BY TryStartIs
<1> HIDE DEF r
<1>2. \A k \in DOMAIN r : Later(r[k], q[k])
  BY <1>1 DEF SameOp, Later
<1>3. Proper(q) => Proper(r)
  BY <1>1 DEF Proper, SameOp
<1>4. Follows(r, q)
  BY <1>1, <1>2, <1>3 DEF Follows
<1> QED  BY <1>1, <1>4 DEF r

\* An operation has ended: it is gone, and every other is still there.
LEMMA EndedIs ==
    ASSUME NEW q \in Seq(OpRecord), Proper(q), NEW e \in DOMAIN q
    PROVE  LET r == TryStart(Without(q, {e}))
           IN  /\ Follows(r, q) /\ Proper(r) /\ Len(r) < Len(q)
               /\ \A i \in DOMAIN r : \E k \in DOMAIN q : k # e /\ SameOp(r[i], q[k])
               /\ \A i \in DOMAIN r : r[i].id # q[e].id
               /\ \A k \in DOMAIN q : k # e => \E i \in DOMAIN r : SameOp(r[i], q[k])
<1> DEFINE w == Without(q, {e})
           r == TryStart(w)
<1>1. /\ Follows(w, q) /\ Len(w) < Len(q)
      /\ \A i \in DOMAIN w : \E k \in DOMAIN q \ {e} : w[i] = q[k]
      /\ \A k \in DOMAIN q \ {e} : \E i \in DOMAIN w : w[i] = q[k]
  <2> DEFINE gone == {e}
  <2>1. \E k \in DOMAIN q : k \in gone
    OBVIOUS
  <2> HIDE DEF gone, r
  <2>2. /\ Follows(Without(q, gone), q) /\ Len(Without(q, gone)) < Len(q)
        /\ \A i \in DOMAIN Without(q, gone) : \E k \in DOMAIN q \ gone : Without(q, gone)[i] = q[k]
        /\ \A k \in DOMAIN q \ gone : \E i \in DOMAIN Without(q, gone) : Without(q, gone)[i] = q[k]
    BY <2>1, WithoutFollows
  <2> QED  BY <2>2 DEF gone
<1>2. w \in Seq(OpRecord) /\ Proper(w)
  BY <1>1 DEF Follows
<1> HIDE DEF w
<1>3. /\ Follows(r, w) /\ Len(r) = Len(w) /\ DOMAIN r = DOMAIN w
      /\ \A k \in DOMAIN w : SameOp(r[k], w[k])
  BY <1>2, TryStartFollows
<1>4. r \in Seq(OpRecord) /\ Proper(r)
  BY <1>2, <1>3 DEF Follows
<1> HIDE DEF r
<1>5. \A i \in DOMAIN r : \E k \in DOMAIN q : k # e /\ SameOp(r[i], q[k])
  BY <1>1, <1>3
<1>6. \A k \in DOMAIN q : k # e => \E i \in DOMAIN r : SameOp(r[i], q[k])
  BY <1>1, <1>3
<1>7. \A i \in DOMAIN r : \E k \in DOMAIN q : Later(r[i], q[k])
  <2> TAKE i \in DOMAIN r
  <2>1. PICK k \in DOMAIN q : Later(w[i], q[k])
    BY <1>1, <1>3 DEF Follows
  <2>2. Later(r[i], w[i])
    <3>1. r[i].st = "running" \/ w[i].st # "running"
      <4>1. PICK j \in DOMAIN w : Later(r[i], w[j])
        BY <1>3 DEF Follows
      <4>2. i = j
        BY <1>2, <1>3, <4>1 DEF Proper, Later, SameOp
      <4> QED  BY <4>1, <4>2 DEF Later
    <3> QED  BY <1>3, <3>1 DEF SameOp, Later
  <2> QED  BY <2>1, <2>2 DEF Later
<1>8. \A i \in DOMAIN r : r[i].id # q[e].id
  BY <1>5 DEF SameOp, Proper
<1>9. Len(r) < Len(q) /\ Len(r) \in Nat /\ Len(q) \in Nat
  BY <1>1, <1>3, <1>4
<1>10. Follows(r, q)
  BY <1>4, <1>7, <1>9 DEF Follows
<1> QED  BY <1>4, <1>5, <1>6, <1>8, <1>9, <1>10 DEF r, w

\* What was asked to end has ended, if it was queued, or knows it; every other
\* operation is still there.
LEMMA CancelledIs ==
    ASSUME NEW q \in Seq(OpRecord), Proper(q), NEW ids
    PROVE  LET r == Cancelled(q, ids)
           IN  /\ Follows(r, q) /\ Proper(r)
               /\ \A i \in DOMAIN r : r[i].id \in ids => r[i].cancel
               /\ \A k \in DOMAIN q : \/ q[k].id \in ids /\ q[k].st = "queued"
                                      \/ \E i \in DOMAIN r : Later(r[i], q[k])
<1> DEFINE gone == QueuedOf(q, ids)
           w == Without(q, gone)
           u == [k \in DOMAIN w |-> IF w[k].id \in ids THEN [w[k] EXCEPT !.cancel = TRUE] ELSE w[k]]
           r == TryStart(u)
<1>1. /\ Follows(w, q)
      /\ \A i \in DOMAIN w : \E k \in DOMAIN q \ gone : w[i] = q[k]
      /\ \A k \in DOMAIN q \ gone : \E i \in DOMAIN w : w[i] = q[k]
  BY WithoutFollows
<1>2. \A k \in DOMAIN q : k \in gone <=> q[k].id \in ids /\ q[k].st = "queued"
  BY DEF QueuedOf
<1>3. r = Cancelled(q, ids)
  BY DEF Cancelled
<1> HIDE DEF gone, w
<1>4. w \in Seq(OpRecord) /\ Proper(w) /\ Len(w) <= Len(q) /\ DOMAIN w = 1 .. Len(w)
  BY <1>1 DEF Follows
<1>5. \A k \in DOMAIN w : w[k] \in OpRecord
  BY <1>4
<1>6. ASSUME NEW k \in DOMAIN w
      PROVE  /\ u[k] \in OpRecord /\ u[k].id = w[k].id /\ u[k].kind = w[k].kind
             /\ u[k].target = w[k].target /\ u[k].st = w[k].st
             /\ w[k].cancel => u[k].cancel
             /\ u[k].id \in ids => u[k].cancel
             /\ u[k].cancel => w[k].cancel \/ w[k].id \in ids
  BY <1>5 DEF OpRecord
<1>7. u \in Seq(OpRecord) /\ DOMAIN u = DOMAIN w /\ Len(u) = Len(w)
  BY <1>4, <1>6
<1> HIDE DEF u
<1>8. Proper(u)
  <2>1. \A k \in DOMAIN u : u[k].cancel => u[k].st = "running"
    <3> TAKE k \in DOMAIN u
    <3>1. PICK j \in DOMAIN q \ gone : w[k] = q[j]
      BY <1>1, <1>7
    <3>2. w[k].id \in ids => w[k].st # "queued"
      BY <1>2, <3>1
    <3>3. w[k].st \in {"queued", "running"}
      BY <1>5, <1>7 DEF OpRecord
    <3> QED  BY <1>4, <1>6, <1>7, <3>2, <3>3 DEF Proper
  <2>2. ExclusiveIn(u)
    <3> SUFFICES ASSUME NEW j \in Running(u), NEW k \in Running(u), j # k
                 PROVE  Resources(u[j]) \cap Resources(u[k]) = {}
      BY DEF ExclusiveIn
    <3>1. j \in DOMAIN w /\ k \in DOMAIN w /\ j \in Running(w) /\ k \in Running(w)
      BY <1>6, <1>7 DEF Running
    <3>2. Resources(u[j]) = Resources(w[j]) /\ Resources(u[k]) = Resources(w[k])
      BY <1>6, <3>1, SameResources
    <3> QED  BY <1>4, <3>1, <3>2 DEF Proper, ExclusiveIn
  <2> QED  BY <1>4, <1>6, <1>7, <2>1, <2>2 DEF Proper
<1>9. /\ Follows(r, u) /\ Len(r) = Len(u) /\ DOMAIN r = DOMAIN u
      /\ \A k \in DOMAIN u : SameOp(r[k], u[k])
  BY <1>7, TryStartFollows
<1>10. r \in Seq(OpRecord) /\ Proper(r)
  BY <1>8, <1>9 DEF Follows
<1> HIDE DEF r
<1>11. \A i \in DOMAIN r : Later(r[i], w[i])
  <2> TAKE i \in DOMAIN r
  <2>1. PICK j \in DOMAIN u : Later(r[i], u[j])
    BY <1>9 DEF Follows
  <2>2. i = j
    BY <1>8, <1>9, <2>1 DEF Proper, Later, SameOp
  <2> QED  BY <1>6, <1>7, <1>9, <2>1, <2>2 DEF Later
<1>12. \A i \in DOMAIN r : \E k \in DOMAIN q : Later(r[i], q[k])
  <2> TAKE i \in DOMAIN r
  <2>1. PICK k \in DOMAIN q : w[i] = q[k]
    BY <1>1, <1>7, <1>9
  <2> QED  BY <1>11, <2>1
<1>13. \A i \in DOMAIN r : r[i].id \in ids => r[i].cancel
  BY <1>6, <1>7, <1>9 DEF SameOp
<1>14. ASSUME NEW k \in DOMAIN q
       PROVE  \/ q[k].id \in ids /\ q[k].st = "queued"
              \/ \E i \in DOMAIN r : Later(r[i], q[k])
  <2>1. CASE k \in gone
    BY <1>2, <2>1
  <2>2. CASE k \notin gone
    <3>1. PICK i \in DOMAIN w : w[i] = q[k]
      BY <1>1, <2>2
    <3> QED  BY <1>7, <1>9, <1>11, <3>1
  <2> QED  BY <2>1, <2>2
<1>15. Len(r) <= Len(q)
  BY <1>4, <1>7, <1>9
<1>16. Follows(r, q)
  BY <1>10, <1>12, <1>15 DEF Follows
<1> QED  BY <1>3, <1>10, <1>13, <1>14, <1>16

EventRecord == [id : OpIds, result : {"succeeded", "failed", "cancelled"}]

\* Among n ids one is free while fewer than n are taken: x and those of the
\* operations and of the updates still to be delivered.
LEMMA FreshId ==
    ASSUME NEW n \in Nat, NEW x \in Nat, NEW q \in Seq(OpRecord), NEW ev \in Seq(EventRecord),
           Len(q) + Len(ev) + 1 < n
    PROVE  \E i \in 1 .. n : /\ i # x
                             /\ \A k \in DOMAIN q : q[k].id # i
                             /\ \A k \in DOMAIN ev : ev[k].id # i
<1> SUFFICES ASSUME \A i \in 1 .. n : \/ i = x
                                      \/ \E k \in DOMAIN q : q[k].id = i
                                      \/ \E k \in DOMAIN ev : ev[k].id = i
             PROVE  FALSE
  OBVIOUS
<1> DEFINE L == Len(q)
           M == Len(ev)
           Holder(i, p) == \/ p = 0 /\ i = x
                           \/ p \in 1 .. L /\ q[p].id = i
                           \/ p \in L + 1 .. L + M /\ ev[p - L].id = i
           f == [i \in 1 .. n |-> CHOOSE p \in 0 .. L + M : Holder(i, p)]
<1>1. L \in Nat /\ M \in Nat /\ DOMAIN q = 1 .. L /\ DOMAIN ev = 1 .. M
  OBVIOUS
<1>2. ASSUME NEW i \in 1 .. n PROVE \E p \in 0 .. L + M : Holder(i, p)
  <2>1. CASE i = x
    BY <1>1, <2>1
  <2>2. CASE \E k \in DOMAIN q : q[k].id = i
    <3>1. PICK k \in DOMAIN q : q[k].id = i
      BY <2>2
    <3>2. k \in 0 .. L + M /\ Holder(i, k)
      BY <1>1, <3>1
    <3> QED  BY <3>2
  <2>3. CASE \E k \in DOMAIN ev : ev[k].id = i
    <3>1. PICK k \in DOMAIN ev : ev[k].id = i
      BY <2>3
    <3>2. L + k \in 0 .. L + M /\ L + k \in L + 1 .. L + M /\ (L + k) - L = k
      BY <1>1
    <3>3. Holder(i, L + k)
      BY <3>1, <3>2
    <3> QED  BY <3>2, <3>3
  <2> QED  BY <2>1, <2>2, <2>3
<1> HIDE DEF Holder
<1>3. ASSUME NEW i \in 1 .. n PROVE f[i] \in 0 .. L + M /\ Holder(i, f[i])
  BY <1>2
<1>4. f \in [1 .. n -> 0 .. L + M]
  BY <1>3
<1> HIDE DEF f
<1>5. /\ IsFiniteSet(1 .. n) /\ Cardinality(1 .. n) = n
      /\ IsFiniteSet(0 .. L + M) /\ Cardinality(0 .. L + M) = L + M + 1
  <2> DEFINE D == L + M
  <2>1. 0 \in Int /\ 1 \in Int /\ n \in Int /\ D \in Int /\ n > 0 /\ ~(0 > D)
    BY <1>1
  <2> HIDE DEF D
  <2>2. Cardinality(1 .. n) = n - 1 + 1 /\ IsFiniteSet(1 .. n)
    BY <2>1, FS_Interval
  <2>3. Cardinality(0 .. D) = D - 0 + 1 /\ IsFiniteSet(0 .. D)
    BY <2>1, FS_Interval
  <2> QED  BY <2>1, <2>2, <2>3 DEF D
<1>6. Cardinality(0 .. L + M) < Cardinality(1 .. n)
  BY <1>1, <1>5
<1>7. PICK i, j \in 1 .. n : i # j /\ f[i] = f[j]
  <2> DEFINE S == 1 .. n
             T == 0 .. L + M
  <2>1. f \in [S -> T] /\ IsFiniteSet(S) /\ IsFiniteSet(T) /\ Cardinality(T) < Cardinality(S)
    BY <1>4, <1>5, <1>6
  <2> HIDE DEF S, T
  <2>2. \E i, j \in S : i # j /\ f[i] = f[j]
    BY <2>1, FS_PigeonHole
  <2> QED  BY <2>2 DEF S
<1>8. Holder(i, f[i]) /\ Holder(j, f[i])
  BY <1>3, <1>7
<1> QED  BY <1>1, <1>7, <1>8 DEF Holder

\* The bounds leave an id for every operation that can be alive at once.
RoomForOne ==
    /\ ops \in Seq(OpRecord) /\ events \in Seq(EventRecord) /\ sched.op \in OpIds \cup {NoOp}
    /\ Len(ops) + Len(events) + 1 < MaxStarts + MaxCrashes + MaxLiveViews + 2

\* While fewer operations and updates are alive than there are ids, the next id
\* is no operation's, no update's and not the session's.
LEMMA FreeIdIsFree ==
    ASSUME RoomForOne
    PROVE  /\ FreeId \in OpIds /\ FreeId # sched.op /\ FreeId # NoOp
           /\ \A k \in DOMAIN ops : ops[k].id # FreeId
           /\ \A k \in DOMAIN events : events[k].id # FreeId
<1> DEFINE n == MaxStarts + MaxCrashes + MaxLiveViews + 2
<1>1. n \in Nat
  BY BoundAssumption
<1>2. ops \in Seq(OpRecord) /\ events \in Seq(EventRecord) /\ Len(ops) + Len(events) + 1 < n
  BY DEF RoomForOne
<1> HIDE DEF n
<1>3. \E i \in 1 .. n : /\ i # sched.op
                        /\ \A k \in DOMAIN ops : ops[k].id # i
                        /\ \A k \in DOMAIN events : events[k].id # i
  <2> DEFINE x == sched.op
  <2>1. x \in Nat
    BY <1>1 DEF RoomForOne, OpIds, NoOp
  <2> HIDE DEF x
  <2> QED  BY <1>1, <1>2, <2>1, FreshId, ZenonT(60) DEF x
<1>4. OpIds = 1 .. n
  BY DEF OpIds, n
<1>5. /\ FreeId \in 1 .. n /\ FreeId # sched.op
      /\ \A k \in DOMAIN ops : ops[k].id # FreeId
      /\ \A k \in DOMAIN events : events[k].id # FreeId
  BY <1>3, <1>4 DEF FreeId
<1>6. FreeId # 0
  BY <1>1, <1>5
<1> QED  BY <1>4, <1>5, <1>6 DEF NoOp

\* A submission adds one operation with an id of its own, and changes no other.
LEMMA SubmittedIs ==
    ASSUME RoomForOne, Proper(ops),
           NEW kind \in SlewKinds \cup CameraKinds \cup {"live-view"},
           NEW target \in Targets \cup {NoTarget}
    PROVE  LET r == Submitted(ops, kind, target)
               e == Len(ops) + 1
           IN  /\ r \in Seq(OpRecord) /\ Len(r) = e /\ Proper(r)
               /\ e \in DOMAIN r /\ r[e].id = FreeId /\ r[e].kind = kind
               /\ r[e].target = target /\ ~r[e].cancel
               /\ \A k \in DOMAIN ops : k \in DOMAIN r /\ SameOp(r[k], ops[k])
               /\ \A k \in DOMAIN r : k = e \/ k \in DOMAIN ops
<1> DEFINE e == Len(ops) + 1
           new == [id |-> FreeId, kind |-> kind, target |-> target, st |-> "queued", cancel |-> FALSE]
           q == Append(ops, new)
           r == TryStart(q)
<1>1. ops \in Seq(OpRecord) /\ Len(ops) \in Nat /\ DOMAIN ops = 1 .. Len(ops)
  BY DEF RoomForOne
<1>2. new \in OpRecord
  BY FreeIdIsFree DEF OpRecord
<1>3. /\ q \in Seq(OpRecord) /\ Len(q) = e /\ DOMAIN q = 1 .. e /\ q[e] = new
      /\ \A k \in DOMAIN ops : k \in DOMAIN q /\ k # e /\ q[k] = ops[k]
      /\ \A k \in DOMAIN q : k = e \/ k \in DOMAIN ops
  BY <1>1, <1>2
<1>4. new.id = FreeId /\ new.kind = kind /\ new.target = target /\ ~new.cancel /\ new.st = "queued"
  OBVIOUS
<1>5. r = Submitted(ops, kind, target)
  BY DEF Submitted
<1> HIDE DEF q, new
<1>6. Proper(q)
  <2>1. \A j, k \in DOMAIN q : q[j].id = q[k].id => j = k
    BY <1>3, <1>4, FreeIdIsFree DEF Proper
  <2>2. \A k \in DOMAIN q : q[k].cancel => q[k].st = "running"
    BY <1>3, <1>4 DEF Proper
  <2>3. Running(q) = Running(ops)
    BY <1>3, <1>4 DEF Running
  <2>4. ExclusiveIn(q)
    <3>1. \A k \in Running(ops) : q[k] = ops[k]
      BY <1>3 DEF Running
    <3> QED  BY <2>3, <3>1 DEF Proper, ExclusiveIn
  <2> QED  BY <2>1, <2>2, <2>4 DEF Proper
<1>7. /\ Follows(r, q) /\ Len(r) = Len(q) /\ DOMAIN r = DOMAIN q
      /\ \A k \in DOMAIN q : SameOp(r[k], q[k])
  BY <1>3, TryStartFollows
<1>8. r \in Seq(OpRecord) /\ Proper(r)
  BY <1>6, <1>7 DEF Follows
<1> HIDE DEF r
<1>9. e \in DOMAIN r /\ SameOp(r[e], new)
  BY <1>1, <1>3, <1>7
<1> QED  BY <1>3, <1>4, <1>5, <1>7, <1>8, <1>9 DEF SameOp
=============================================================================
